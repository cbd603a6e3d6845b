\* The bettor's page and the driving scripts over the ledger of bets.
SPECIFICATION MCSpec
CONSTANTS
    Bettors = {b1, b2}
    Nonces = {1, 2, 3}
    Terms <- OneTerms
    Wages = {0}
    Dealings = {}
    NoSlip = NoSlip
    NoOne = NoOne
    NoPick = NoPick
    NoPoll = NoPoll
    MaxPolls = 2
    MaxPicks = 2
    MaxSwitches = 3
    MaxFailures = 1
    Driver = b1
    MaxCommits = 3
    MaxPending = 2
    MaxPrints = 4
INVARIANTS
    TwiceOnlyIfMisreported
    PendingWithinLimit
PROPERTIES
    ShownCatchesUp
    ReceiptFollows
    ScriptEnds
CHECK_DEADLOCK FALSE
