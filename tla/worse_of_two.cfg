SPECIFICATION BookSpec
CONSTANTS
    alice = alice
    bob = bob
    owner = owner
    h1 = h1
    h2 = h2
    fe1 = fe1
    m1 = m1
    m2 = m2
    Users = {alice, bob, owner}
    Bettors = {alice, bob}
    Crankers = {owner}
    RewardAccounts = {owner}
    Houses = {h1}
    Frontends = {fe1}
    Fixtures = {m1}
    Nonces = {0}
    Escrow = Escrow
    Treasury = Treasury
    NoAccount = NoAccount
    ConfigChoices <- FixedConfig
    FrontendFees = {1000}
    HouseChoices <- FixedParams
    FilterChoices = {}
    PauseChoices = {}
    Deposits = {}
    Withdrawals = {}
    Orders <- BookOrders
    Feed <- BookFeed
    ScoreEvents <- BookScores
    InitialWallet <- BookWallets
    MaxU64 = 10000
    MaxI64 = 100000
    MaxTime = 4
PROPERTY
    FilledAtWorse
CHECK_DEADLOCK FALSE
