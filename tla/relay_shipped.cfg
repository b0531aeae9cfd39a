CONSTANTS
    c1 = c1
    c2 = c2
    Chains = {c1, c2}
    Pairs <- OneWay
    Miners = {m1}
    Finalizers = {}
    Layout = "shipped"
    NoSignature = NoSignature
    RelayFaults = {}
    MaxTxs = 1
    Accounts = {}
    ChainIds = {c1}
    BlockNumbers <- Nonces
    Signatures = {c2}
    MaxFinalizers = 1
    MaxSignatures = 1
    Thresholds = {}
SPECIFICATION FairSpec
PROPERTIES BlockIsMined
