CONSTANTS
    Workers = {w1, w2}
    c1 = c1
    c2 = c2
    c3 = c3
    Chains = {c1, c2}
    Pairs <- BothWays
    Roles = {"QP_MINER", "QP_FINALIZER", "None"}
    Hashes = {h1, h2}
    ZeroHash = ZeroHash
    LockKey = LockKey
    NoTx = NoTx
    Timeout = 1
    LeaseTime = 1
    MaxTime = 2
    Faults = {"crash", "panic", "drop"}
SPECIFICATION Spec
SYMMETRY Symmetric
INVARIANTS TypeOK MutualExclusion ProcessLockKept OneOutstanding
PROPERTIES RecordKeptWhilePending ImplementsSingleFlight
