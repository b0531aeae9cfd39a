CONSTANTS
    Workers = {w1, w2}
    c1 = c1
    c2 = c2
    c3 = c3
    Chains = {c1, c2}
    Pairs <- BothWays
    Roles = {"QP_MINER"}
    Hashes = {h1, h2}
    ZeroHash = ZeroHash
    LockKey = LockKey
    NoTx = NoTx
    Timeout = 1
    LeaseTime = 1
    MaxTime = 3
    Faults = {"overlap"}
SPECIFICATION Spec
SYMMETRY Symmetric
INVARIANTS OneOutstanding
