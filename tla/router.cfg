SPECIFICATION RoutedSpec
CONSTANTS
    alice = alice
    bob = bob
    owner = owner
    h1 = h1
    h2 = h2
    fe1 = fe1
    m1 = m1
    m2 = m2
    Users = {alice, bob, owner}
    Bettors = {alice, bob}
    Crankers = {}
    RewardAccounts = {}
    Houses = {h1, h2}
    Frontends = {fe1}
    Fixtures = {m1}
    Nonces = {0}
    Escrow = Escrow
    Treasury = Treasury
    NoAccount = NoAccount
    ConfigChoices <- RoutedConfigs
    FrontendFees = {1000}
    HouseChoices <- Repriced
    FilterChoices <- RoutedFilters
    PauseChoices = {TRUE}
    Deposits = {}
    Withdrawals <- RoutedWithdrawals
    Orders <- RoutedOrders
    Feed <- RoutedFeed
    ScoreEvents = {}
    InitialWallet <- RoutedWallets
    MaxU64 = 10000
    MaxI64 = 100000
    MaxTime = 1
    Requests <- RoutedRequests
    Listings <- WorldCupListings
    FIXTURES_TTL_MS = 500
    USDC = 2
    NotYet = NotYet
    MaxMoves = 2
    Charges <- EmptyCharges
    FeeModels <- EmptyFeeModels
INVARIANTS
    BestPriceFirst
    PolicyHonoured
    GuidanceIsTakeable
    StakeIsLargest
    EstimateIsClose
PROPERTIES
    DebitWithinHeadline
CHECK_DEADLOCK FALSE
