CONSTANTS
    alice = alice
    bob = bob
    erc20 = erc20
    here = here
    elsewhere = elsewhere
    Accounts = {alice, bob, erc20}
    Users = {alice, bob}
    Precompile = erc20
    ExistentialDeposit = 2
    Values = {1, 2, 5}
    MaxBalance = 4
    NoEntry = NoEntry
    TicksPerSecond = 2
    Domain = here
    Permits <- SignedByAlice
    CallNames <- Names
    Utf8Names <- NamesThatDecode
    ThisPallet <- Pauser
    Authors = {bob}
    NoAuthor = NoAuthor
    SudoKey = alice
    Fees <- SomeFees
    Supply <- GenesisBook
    MaxMoment = 2
SPECIFICATION Spec
INVARIANTS RuntimeTypeOK SupplyIsBalances
PROPERTIES ImplementsErc20
