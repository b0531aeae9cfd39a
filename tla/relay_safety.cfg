CONSTANTS
    c1 = c1
    c2 = c2
    Chains = {c1, c2}
    Pairs <- OneWay
    Miners = {m1, m2}
    Finalizers = {f1}
    Layout = "repaired"
    NoSignature = NoSignature
    RelayFaults = {"rpcError", "drop"}
    MaxTxs = 2
    Accounts = {a1}
    ChainIds = {c1}
    BlockNumbers <- Nonces
    Signatures = {c2, NoSignature}
    MaxFinalizers = 1
    MaxSignatures = 1
    Thresholds = {1}
SPECIFICATION Spec
SYMMETRY MinersAlike
INVARIANTS RelayTypeOK SignersWereRegistered MinesInOrder FinalizesOnlySigned
PROPERTIES ImplementsBlockRelay
