SPECIFICATION Spec
CONSTANTS
    alice = alice
    bob = bob
    owner = owner
    h1 = h1
    h2 = h2
    fe1 = fe1
    m1 = m1
    m2 = m2
    Users = {alice, owner}
    Bettors = {alice}
    Crankers = {owner}
    RewardAccounts = {owner, Escrow}
    Houses = {h1}
    Frontends = {fe1}
    Fixtures = {m1, m2}
    Nonces = {0, 1}
    Escrow = Escrow
    Treasury = Treasury
    NoAccount = NoAccount
    ConfigChoices <- AccountsConfigs
    FrontendFees = {500, 1000}
    HouseChoices <- AccountsParams
    FilterChoices <- AccountsFilters
    PauseChoices = {TRUE, FALSE}
    Deposits <- AccountsDeposits
    Withdrawals <- AccountsWithdrawals
    Orders <- AccountsOrders
    Feed <- AccountsFeed
    ScoreEvents = {}
    InitialWallet <- AccountsWallets
    MaxU64 = 10000
    MaxI64 = 100000
    MaxTime = 3
INVARIANTS
    VaultCoversLocks
    BookMatchesBets
    TotalMatchesBooks
PROPERTY
    SurplusOnlyGiven
CHECK_DEADLOCK FALSE
