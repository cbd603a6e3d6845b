SPECIFICATION RaceSpec
CONSTANTS
    alice = alice
    bob = bob
    owner = owner
    h1 = h1
    h2 = h2
    fe1 = fe1
    m1 = m1
    m2 = m2
    Users = {alice, bob, owner}
    Bettors = {alice}
    Crankers = {owner}
    RewardAccounts = {owner}
    Houses = {h1}
    Frontends = {fe1}
    Fixtures = {m1}
    Nonces = {0}
    Escrow = Escrow
    Treasury = Treasury
    NoAccount = NoAccount
    ConfigChoices <- RaceConfigs
    FrontendFees = {1000}
    HouseChoices <- FixedParams
    FilterChoices = {}
    PauseChoices = {}
    Deposits = {}
    Withdrawals = {}
    Orders <- RaceOrders
    Feed <- RaceFeed
    ScoreEvents <- RaceScores
    InitialWallet <- KeptWallets
    MaxU64 = 10000
    MaxI64 = 100000
    MaxTime = 5
    Self = owner
    DISCOVERY_EVERY = 2
    COMMIT_LOOKBACK_MS = 2000
    FILL_TOLERANCE_MS = 1500
    FRESH_GRACE_MS = 1500
    COMMIT_EXPIRY_MS = 1500
    MaxFailures = 1
INVARIANTS
    PicksFitWindows
    FallsBackOnlyInLull
PROPERTIES
    KeeperFillsOrRefunds
CHECK_DEADLOCK FALSE
