CONSTANTS
    Accounts = {a1, a2}
    ChainIds = {c1}
    BlockNumbers = {1}
    Signatures = {s1}
    MaxFinalizers = 2
    MaxSignatures = 2
    Thresholds = {1}
SPECIFICATION RegistrySpec
PROPERTIES RemovedIsNoFinalizer
