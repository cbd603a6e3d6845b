\* The owner's page, the faucet and the deployment script over the program.
SPECIFICATION MCSpec
CONSTANTS
    alice = alice
    bob = bob
    owner = owner
    admin = admin
    h1 = h1
    h2 = h2
    h3 = h3
    fe1 = fe1
    m1 = m1
    m2 = m2
    Users = {alice, owner, admin}
    Bettors = {alice}
    Crankers = {owner}
    RewardAccounts = {owner}
    Houses = {h1, h2, h3}
    Frontends = {fe1}
    Fixtures = {m1, m2}
    Nonces = {0}
    Escrow = Escrow
    Treasury = Treasury
    NoAccount = NoAccount
    ConfigChoices <- FixedConfig
    FrontendFees = {100, 1000}
    HouseChoices <- ConsoleParams
    FilterChoices <- ConsoleFilters
    PauseChoices = {TRUE}
    Deposits <- ConsoleDeposits
    Withdrawals = {}
    Orders <- ConsoleOrders
    Feed <- ConsoleFeed
    ScoreEvents = {}
    InitialWallet <- NoWallets
    MaxU64 = 10000000
    MaxI64 = 100000
    MaxTime = 2
    Me = owner
    MyHouse = h1
    MyHouses = {h1, h2}
    Amounts = {8}
    PolicyChoices <- ConsolePolicies
    NoPoll = NoPoll
    NoForm = NoForm
    NotRead = NotRead
    MaxPolls = 2
    MaxActs = 1
    MaxFailures = 1
    Admin = admin
    AdminFrontend = fe1
    Parameters <- BaseConfig
    FrontendFee = 100
    HOUSES <- DeployHouses
    MintFloor = 1000000
    MintAmount = 1050000
    FaucetAmount = 1000
    MaxRuns = 3
    MaxGrants = 2
INVARIANTS
    FreeIsWithdrawable
    FormTellsPolicy
    DoneMeansBuilt
    FundedAtMostOnce
PROPERTIES
    ConsoleCatchesUp
    BootCompletes
CHECK_DEADLOCK FALSE
