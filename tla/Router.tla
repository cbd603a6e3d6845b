------------------------------- MODULE Router -------------------------------
(***************************************************************************)
(* The bet router (api/bet, lib/market): one request to place a bet, from  *)
(* the quotes it collects to the transaction the bettor signs.  Every read *)
(* of the feed or the chain is a step, so houses, bettors, the admin, the  *)
(* clock and the feed's listing move in between; the router holds nothing  *)
(* until commit_bet, which checks everything again.                        *)
(* A bet account's address carries a random nonce, so a request starts     *)
(* without a bet at its address.                                           *)
(***************************************************************************)
EXTENDS BethehouseProperties, Fees

CONSTANTS
    Requests,           \* what bettors ask for
    Listings,           \* what the feed may list: a set of fixture entries
    FIXTURES_TTL_MS,    \* age up to which the listing is served from memory
    USDC,               \* token units in one whole USDC
    NotYet,             \* not read yet
    MaxMoves            \* bound on what others do during the request

VARIABLES
    request, phase,
    listed,             \* what the feed lists now
    fixturesCache,      \* the listing in the server's memory, and its time
    fixture, cfg,       \* the fixture entry and the config as read
    frontend,           \* the frontend the bet goes through
    print,              \* the record quoted from
    pending,            \* houses still to be quoted, with the account read
    competition,        \* the competition the policies are held against
    quotes,             \* the houses that offer the fixture, at their odds
    untried,            \* quotes not yet simulated
    current,            \* the quote whose house is being tried
    capacityBlocked, bestMax,
    answer,
    moves, touched      \* steps by others, and what they changed

quoteVars == <<fixture, cfg, frontend, print, pending, competition, quotes>>
loopVars == <<untried, current, capacityBlocked, bestMax>>
requestVars == <<request, phase, quoteVars, loopVars, answer, feesVars>>
worldVars == <<vars, listed, moves, touched>>
routerVars == <<worldVars, requestVars, fixturesCache>>

Request == [bettor : Bettors, fixture_id : Fixtures, outcome : Outcomes,
            spend : Nat, nonce : Nonces, hasSol : BOOLEAN]
FixtureEntry == [FixtureId : Fixtures, StartTime : Int, CompetitionId : Nat]

ASSUME RouterAssumption ==
    /\ Requests \subseteq Request
    /\ \A l \in Listings : l \subseteq FixtureEntry
    /\ {FIXTURES_TTL_MS, MaxMoves} \subseteq Nat
    /\ NoAccount \notin FixtureEntry \cup Nat /\ NotYet \notin FixtureEntry
    /\ NoAccount \notin [house : Houses, effOdds : [Outcomes -> Int]]
    /\ USDC \in Nat \ {0}

-----------------------------------------------------------------------------
(* Leaving the request *)

Respond(kind, house, odds, max) ==
    /\ answer' = [kind |-> kind, house |-> house, odds |-> odds, max |-> max]
    /\ phase' = "answered"
Refuse(kind) == Respond(kind, NoAccount, 0, 0)

-----------------------------------------------------------------------------
(* Reading the market *)

CacheFresh ==
    /\ Exists(fixturesCache)
    /\ now_ms - fixturesCache.at <= FIXTURES_TTL_MS

(* From memory while fresh, else from the feed. *)
FixturesCache ==
    IF CacheFresh THEN fixturesCache ELSE [at |-> now_ms, data |-> listed]
EntryOf(f, entries) ==
    IF \E e \in entries : e.FixtureId = f
    THEN CHOOSE e \in entries : e.FixtureId = f
    ELSE NoAccount
ListedEntry == EntryOf(request.fixture_id, FixturesCache.data)
getFixtures == fixturesCache' = FixturesCache

ReadFixture ==
    /\ phase = "reading"
    /\ fixture = NotYet
    /\ getFixtures
    /\ fixture' = ListedEntry
    /\ UNCHANGED <<worldVars, request, phase, cfg, frontend, print, pending, competition,
                   quotes, loopVars, answer, feesVars>>

ReadConfig ==
    /\ phase = "reading"
    /\ cfg = NotYet
    /\ Exists(config)
    /\ cfg' = config
    /\ UNCHANGED <<worldVars, fixturesCache, request, phase, fixture, frontend, print,
                   pending, competition, quotes, loopVars, answer, feesVars>>

is1x2(odds) ==
    odds.fixture_id = request.fixture_id /\ check_1x2_record(odds)

(* The newest 1X2 record, from the snapshot or, when that has dropped the  *)
(* market, from the updates; none when it is too old there, or the updates *)
(* cannot be read.                                                         *)
NewestPrints ==
    LET records == {odds \in Feed : Published(odds) /\ is1x2(odds)}
    IN  {r \in records : \A other \in records : other.ts <= r.ts}

ReadPrint ==
    /\ phase = "reading"
    /\ print = NotYet
    /\ print' \in NewestPrints \cup {NoAccount}
    /\ UNCHANGED <<worldVars, fixturesCache, request, phase, fixture, cfg,
                   frontend, pending, competition, quotes, loopVars, answer, feesVars>>

ReadHouses ==
    /\ phase = "reading"
    /\ print \notin {NotYet, NoAccount}
    /\ pending = NotYet
    /\ pending' = {[house |-> h, params |-> houses[h].params] :
                        h \in {g \in Houses : Exists(houses[g]) /\ ~houses[g].paused}}
    /\ UNCHANGED <<worldVars, fixturesCache, request, phase, fixture, cfg, frontend, print,
                   competition, quotes, loopVars, answer, feesVars>>

(* The listing is asked for a second time; a fixture it no longer holds    *)
(* has no competition.                                                     *)
ReadCompetition ==
    /\ phase = "reading"
    /\ pending # NotYet
    /\ competition = NotYet
    /\ getFixtures
    /\ competition' =
            IF Exists(ListedEntry) THEN ListedEntry.CompetitionId ELSE NoAccount
    /\ UNCHANGED <<worldVars, request, phase, fixture, cfg, frontend, print, pending,
                   quotes, loopVars, answer, feesVars>>

offersFixture_OnChainRule(rules, f, competitionId) ==
    Exists(rules) => fixture_offered(rules, f)
offersFixture(rules, f, competitionId) ==
    Exists(rules) =>
        /\ fixture_offered(rules, f)
        /\ competitionId # NoAccount =>
            (rules.competition_allow <=> competitionId \in rules.competitions)

EffOdds(params, book, odds, o) ==
    Lesser(eff_odds(odds.prices[o], params.spread_bps,
                    skew_bps(params.skew_coeff_bps, book.liability, o,
                             params.max_risk_per_fixture)),
           params.odds_cap)

(* A read of a policy or a book that fails is taken for there being none.  *)
(* It counts as a step by others that changed the house.                   *)
Misread(h, wrong) ==
    IF wrong
    THEN moves < MaxMoves /\ moves' = moves + 1 /\ touched' = touched \cup {h}
    ELSE UNCHANGED <<moves, touched>>

(* One house: its policy, then its book, at the parameters listed before. *)
QuoteHouse ==
    LET f == request.fixture_id
    IN  /\ phase = "reading"
        /\ competition # NotYet
        /\ \E p \in pending :
            \E rules \in {filters[p.house], NoAccount},
               book \in {BookOf(p.house, f), NewExposure} :
                /\ Misread(p.house,
                        rules # filters[p.house] \/ book # BookOf(p.house, f))
                /\ pending' = pending \ {p}
                /\ quotes' =
                    IF offersFixture(rules, f, competition)
                    THEN quotes \cup {[house |-> p.house, effOdds |->
                            [o \in Outcomes |-> EffOdds(p.params, book, print, o)]]}
                    ELSE quotes
        /\ UNCHANGED <<vars, listed, fixturesCache, request, phase, fixture, cfg,
                       frontend, print, competition, loopVars, answer, feesVars>>

(* Any other read of the feed or the chain that fails fails the request:   *)
(* while the market is read, then the blockhash before the first house,    *)
(* then each house, its vault and its simulation.                          *)
ReadsLeft ==
    \/ phase = "reading"
    \/ phase = "routing" /\ (untried = quotes \/ untried # {} \/ current # NoAccount)
ReadFails ==
    /\ ReadsLeft
    /\ Refuse("failed")
    /\ UNCHANGED <<worldVars, fixturesCache, request, quoteVars, loopVars, feesVars>>

-----------------------------------------------------------------------------
(* From what the bettor spends to the stake *)

MarketRead ==
    /\ fixture # NotYet
    /\ cfg # NotYet
    /\ print = NoAccount \/ (competition # NotYet /\ pending = {})

Registered == {fe \in Frontends : Exists(frontends[fe])}

NoMarket ==
    /\ phase = "reading"
    /\ MarketRead
    /\ ~Exists(fixture) \/ ~Exists(print) \/ Registered = {}
    /\ Refuse(CASE ~Exists(fixture) -> "no fixture"
                [] Exists(fixture) /\ ~Exists(print) -> "no quotes"
                [] OTHER -> "no frontend")
    /\ UNCHANGED <<worldVars, fixturesCache, request, quoteVars, loopVars, feesVars>>

(* The first frontend the node lists. *)
ReadFrontend ==
    /\ phase = "reading"
    /\ MarketRead /\ Exists(fixture) /\ Exists(print)
    /\ frontend' \in Registered
    /\ m' = feeModel(frontends[frontend'].fee_bps, cfg.protocol_fee_bps,
                     cfg.keeper_reward)
    /\ phase' = "fees"
    /\ pc' = "estimate"
    /\ UNCHANGED <<worldVars, fixturesCache, request, fixture, cfg, print, pending,
                   competition, quotes, loopVars, answer, charge, s>>

StakeForCharge ==
    /\ phase = "fees"
    /\ FeesNext
    /\ UNCHANGED <<worldVars, fixturesCache, request, phase, quoteVars, loopVars,
                   answer>>

StakeFound ==
    /\ phase = "fees"
    /\ pc \in {"early", "done"}
    /\ IF s = 0
       THEN Refuse("too small") /\ UNCHANGED loopVars
       ELSE /\ phase' = "routing"
            /\ untried' = quotes
            /\ UNCHANGED <<current, capacityBlocked, bestMax, answer>>
    /\ UNCHANGED <<worldVars, fixturesCache, request, quoteVars, feesVars>>

-----------------------------------------------------------------------------
(* Error numbers: where the program's enum puts them, and where the router *)
(* looks for them.                                                         *)

HousePaused == 6002
FixtureNotOffered == 6004
ZeroStake == 6007
PastKickoff == 6008
InsufficientHouseCollateral == 6009
FixtureRiskExceeded == 6010
TotalRiskExceeded == 6011
MathOverflow == 6027
InsufficientFunds == 1      \* the token program's
NoCode == 2                 \* no custom code: the fee payer has no account
Ok == 0

CAPACITY_ERRORS == {6007, 6008, 6009}
PAST_KICKOFF == 6006

OrderFor(h) ==
    [bettor |-> request.bettor, house |-> h, frontend |-> frontend,
     fixture_id |-> request.fixture_id, outcome |-> request.outcome, stake |-> s,
     nonce |-> request.nonce, start_time_ms |-> fixture.StartTime]

(* What commit_bet checks, in its order; the transfer comes last. *)
CommitChecks(order) ==
    LET house == houses[order.house]
        book == CommittedBook(order)
        lock == locked(book.liability, book.stakes_collected)
        total == Resynced(order.house, book)
    IN  <<[code |-> NoCode, fails |-> ~request.hasSol],
          [code |-> HousePaused, fails |-> house.paused],
          [code |-> ZeroStake, fails |-> order.stake = 0],
          [code |-> FixtureNotOffered, fails |-> ~Offered(order.house, order.fixture_id)],
          [code |-> PastKickoff, fails |-> now_ms >= order.start_time_ms],
          [code |-> FixtureRiskExceeded, fails |-> lock > house.params.max_risk_per_fixture],
          [code |-> TotalRiskExceeded, fails |-> total > house.params.max_total_risk],
          [code |-> InsufficientHouseCollateral, fails |-> token[order.house] < total],
          [code |-> InsufficientFunds, fails |-> ~CanCommit(order)]>>

Simulated(order) ==
    LET checks == CommitChecks(order)
        failing == {i \in DOMAIN checks : checks[i].fails}
    IN  IF failing = {} THEN Ok ELSE checks[Min(failing)].code

-----------------------------------------------------------------------------
(* Trying the houses, best price first *)

BestOf_FirstOutcome(candidates) ==
    {q \in candidates : \A other \in candidates : other.effOdds[0] <= q.effOdds[0]}
BestOf(candidates) ==
    {q \in candidates : \A other \in candidates :
        other.effOdds[request.outcome] <= q.effOdds[request.outcome]}

Headroom_FreshBook(h, book) ==
    Max({0, Min({houses[h].params.max_risk_per_fixture,
                 houses[h].params.max_total_risk - houses[h].total_locked,
                 token[h] - houses[h].total_locked})})
Headroom(h, book) ==
    Max({0, Min({houses[h].params.max_risk_per_fixture - book.locked,
                 houses[h].params.max_total_risk - houses[h].total_locked,
                 token[h] - houses[h].total_locked})})

(* The spend that comes to the largest stake a house could surely reserve. *)
MaxSpend(h, book) ==
    chargeForStake((Headroom(h, book) * ODDS_SCALE) \div houses[h].params.odds_cap)

ReadHeadroom ==
    /\ phase = "routing"
    /\ current = NoAccount
    /\ \E q \in BestOf(untried) :
        \E book \in {BookOf(q.house, request.fixture_id), NewExposure} :
            /\ Misread(q.house, book # BookOf(q.house, request.fixture_id))
            /\ current' = q
            /\ untried' = untried \ {q}
            /\ bestMax' = Max({bestMax, MaxSpend(q.house, book)})
    /\ UNCHANGED <<vars, listed, fixturesCache, request, phase, quoteVars,
                   capacityBlocked, answer, feesVars>>

Simulate ==
    /\ phase = "routing"
    /\ current # NoAccount
    /\ LET code == Simulated(OrderFor(current.house))
       IN  \/ /\ code \in {NoCode, PAST_KICKOFF}
              /\ Refuse(IF code = NoCode THEN "no SOL" ELSE "kicked off")
              /\ UNCHANGED <<current, capacityBlocked>>
           \/ /\ code = Ok
              /\ Respond("tx", current.house, current.effOdds[request.outcome], 0)
              /\ UNCHANGED <<current, capacityBlocked>>
           \/ /\ code \notin {NoCode, PAST_KICKOFF, Ok}
              /\ capacityBlocked' = (capacityBlocked \/ code \in CAPACITY_ERRORS)
              /\ current' = NoAccount
              /\ UNCHANGED <<answer, phase>>
    /\ UNCHANGED <<worldVars, fixturesCache, request, quoteVars, untried, bestMax,
                   feesVars>>

NoHouse ==
    /\ phase = "routing"
    /\ current = NoAccount
    /\ untried = {}
    /\ IF capacityBlocked
       THEN Respond("capacity", NoAccount, 0, bestMax \div USDC)
       ELSE Refuse("refused")
    /\ UNCHANGED <<worldVars, fixturesCache, request, quoteVars, loopVars, feesVars>>

-----------------------------------------------------------------------------
(* The bettor's wallet signs and sends what it was given, later, or does   *)
(* not, or the program refuses it.                                         *)

HasTx == phase = "answered" /\ answer.kind = "tx"

Land ==
    /\ HasTx
    /\ CommitBet(OrderFor(answer.house))
    /\ phase' = "committed"
    /\ UNCHANGED <<listed, moves, touched, fixturesCache, request, quoteVars,
                   loopVars, answer, feesVars>>

GiveUp ==
    /\ HasTx
    /\ phase' = "given up"
    /\ UNCHANGED <<worldVars, fixturesCache, request, quoteVars, loopVars, answer,
                   feesVars>>

-----------------------------------------------------------------------------
(* Everybody else, while there is a request or a transaction to disturb *)

Running == phase \in {"reading", "fees", "routing"} \/ HasTx

(* Of what the request relies on: houses, its bettor's wallet, and the     *)
(* config it has read.                                                     *)
Changed ==
    {h \in Houses :
        \/ houses'[h] # houses[h] \/ filters'[h] # filters[h] \/ token'[h] # token[h]
        \/ \E f \in Fixtures : exposures'[<<h, f>>] # exposures[<<h, f>>]}
    \cup {b \in {request.bettor} : token'[b] # token[b]}
    \cup {c \in {"config"} : cfg # NotYet /\ config' # config}

Chain ==
    /\ Running
    /\ moves < MaxMoves
    /\ Next
    /\ moves' = moves + 1
    /\ touched' = touched \cup Changed
    /\ UNCHANGED <<listed, requestVars, fixturesCache>>

Relist ==
    /\ Running
    /\ moves < MaxMoves
    /\ listed' \in Listings \ {listed}
    /\ moves' = moves + 1
    /\ UNCHANGED <<vars, touched, requestVars, fixturesCache>>

RouterInit ==
    /\ request \in Requests
    /\ ~IsBet(request.bettor, request.nonce)
    /\ phase = "reading"
    /\ listed \in Listings
    /\ fixturesCache = NoAccount
    /\ fixture = NotYet /\ cfg = NotYet /\ frontend = NotYet /\ print = NotYet
    /\ pending = NotYet /\ competition = NotYet /\ quotes = {}
    /\ untried = {} /\ current = NoAccount /\ capacityBlocked = FALSE /\ bestMax = 0
    /\ answer = [kind |-> "none", house |-> NoAccount, odds |-> 0, max |-> 0]
    /\ charge = request.spend /\ m = NotYet /\ s = 0 /\ pc = "waiting"
    /\ moves = 0 /\ touched = {}

RequestNext ==
    \/ ReadFixture \/ ReadConfig \/ ReadPrint \/ ReadHouses \/ ReadCompetition
    \/ QuoteHouse \/ ReadFails \/ NoMarket \/ ReadFrontend
    \/ StakeForCharge \/ StakeFound \/ ReadHeadroom \/ Simulate \/ NoHouse

RouterNext == RequestNext \/ Land \/ GiveUp \/ Chain \/ Relist

ParamsValid == \A h \in Houses : Exists(houses[h]) => validate(houses[h].params)

(* One request, from any state in which the program's books are in order. *)
RouterSpec ==
    /\ TypeOK /\ LocksInSync /\ VaultCoversLocks /\ ParamsValid
    /\ RouterInit
    /\ [][RouterNext]_routerVars

-----------------------------------------------------------------------------
(* What a bettor may expect of the router *)

(* The rules the program and the router hold a fixture against. *)
Allowed(h) ==
    Exists(filters[h]) =>
        /\ fixture_offered(filters[h], request.fixture_id)
        /\ filters[h].competition_allow <=>
                fixture.CompetitionId \in filters[h].competitions
TakesIt(h) == ~houses[h].paused /\ Allowed(h) /\ Simulated(OrderFor(h)) = Ok
OddsNow(h) ==
    EffOdds(houses[h].params, BookOf(h, request.fixture_id), print, request.outcome)

(* "We simulate the tx against each house in best-odds order and return    *)
(* the first that would succeed": no house that nobody touched during the  *)
(* request would still take the bet at better odds than the ones answered, *)
(* unless the bettor's wallet, the config or the competition listed for    *)
(* the match changed on the way.                                           *)
BestPriceFirst ==
    (/\ HasTx /\ touched \cap {request.bettor, "config"} = {}
     /\ competition \in {fixture.CompetitionId, NoAccount})
     =>
        \A h \in Houses \ touched :
            Exists(houses[h]) /\ TakesIt(h) => OddsNow(h) <= answer.odds

(* "Honor the house's published offer policy": an untouched house, whose   *)
(* policy could be read, is only answered when its fixture and competition *)
(* rules offer the match, as long as the second look at the listing still  *)
(* found it.                                                               *)
PolicyHonoured ==
    HasTx /\ answer.house \notin touched /\ competition = fixture.CompetitionId
        => Allowed(answer.house)

(* The slip's headline is the most that is charged: whenever the signed    *)
(* transaction lands, if fees did not change since they were read, the     *)
(* wallet is debited at most what the bettor asked to spend.               *)
DebitWithinHeadline ==
    [][HasTx /\ phase' = "committed" /\ config = cfg =>
            token[request.bettor] - token'[request.bettor] <= request.spend]_routerVars

(* The guidance can be followed: when nothing changed since, asking again  *)
(* for the maximum named in a capacity answer finds a house, provided the  *)
(* match has not started, the wallet holds that much, and it comes to a    *)
(* stake at all.                                                           *)
StakeOf(spend) == Max({0} \cup {stake \in 1..spend : chargeForStake(stake) <= spend})
GuidanceIsTakeable ==
    LET spend == answer.max * USDC
    IN  /\ phase = "answered" /\ answer.kind = "capacity" /\ moves = 0
        /\ now_ms < fixture.StartTime
        /\ token[request.bettor] >= spend
        /\ StakeOf(spend) > 0
        => \E h \in Houses :
            Simulated([OrderFor(h) EXCEPT !.stake = StakeOf(spend)]) = Ok

(* "collateral / per-fixture / total risk": a request that an idle market  *)
(* refuses for want of room in every house is answered as at capacity, and *)
(* only one for which some house lacks room.                               *)
CapacityIsSaid ==
    (/\ phase = "answered" /\ answer.kind \in {"refused", "capacity", "kicked off"}
     /\ moves = 0 /\ quotes # {})
        => LET short == {q \in quotes : Simulated(OrderFor(q.house)) \in
                {InsufficientHouseCollateral, FixtureRiskExceeded, TotalRiskExceeded}}
           IN  /\ answer.kind = "capacity" => short # {}
               /\ short = quotes => answer.kind = "capacity"
=============================================================================
