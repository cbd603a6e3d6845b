----------------------------- MODULE Bethehouse -----------------------------
(***************************************************************************)
(* The on-chain program "bethehouse": accounts, and one action per         *)
(* instruction.  An instruction runs alone and all or nothing, so a failed *)
(* check is a disabled action; what interleaves is the order in which      *)
(* bettors, house owners, the admin and keepers get their transactions in. *)
(* Two actions belong to the world outside the program: the cluster clock  *)
(* and the score events the oracle publishes.  Token accounts are named by *)
(* who controls them: a user's wallet, a house's vault, a frontend's fee   *)
(* vault, and the two accounts of the config PDA.  Signatures are not      *)
(* modelled: whoever an instruction's account constraints demand takes it. *)
(***************************************************************************)
EXTENDS BthMath

CONSTANTS
    Users,              \* signers, each with a wallet
    Bettors,            \* the users who may place bets
    Crankers,           \* the users who may prove and close prints
    RewardAccounts,     \* token accounts a fill, settle or void may name for its
                        \* reward: any of them, the escrow and vaults included
    Houses,             \* house PDAs, one per owner and house_id
    Frontends,          \* frontend PDAs
    Fixtures,
    Nonces,
    Escrow,             \* config.escrow_vault
    Treasury,           \* config.treasury_vault
    NoAccount,          \* an account that does not exist (yet, or any more)
    ConfigChoices,      \* ConfigParams the admin may apply
    FrontendFees,       \* fee_bps a frontend may register with
    HouseChoices,       \* HouseParams an owner may ask for
    FilterChoices,      \* offer policies an owner may publish
    PauseChoices,       \* values an owner may set paused to
    Deposits,           \* deposit calls users may send
    Withdrawals,        \* withdraw calls owners may send
    Orders,             \* commit_bet calls the bettors may send
    Feed,               \* odds records the oracle can prove
    ScoreEvents,        \* score records the oracle may publish
    InitialWallet,      \* tokens in each wallet at genesis
    MaxU64, MaxI64,     \* largest u64 and i64
    MaxTime             \* bound on the clock, in seconds

VARIABLES
    config, frontends, houses, filters, exposures, prints, bets,
    token,              \* balance of every token account
    unix_timestamp,     \* cluster clock, seconds
    scores              \* score records published so far

vars == <<config, frontends, houses, filters, exposures, prints, bets,
          token, unix_timestamp, scores>>

-----------------------------------------------------------------------------
(* Types *)

U64 == 0..MaxU64
TokenAccounts == Users \cup Houses \cup Frontends \cup {Escrow, Treasury}

ConfigParams ==
    [protocol_fee_bps : Nat, max_frontend_fee_bps : Nat, keeper_reward : Nat,
     commit_delay_ms : Int, staleness_window_ms : Int, fill_tolerance_ms : Int,
     commit_expiry_ms : Int, void_after_ms : Int]

HouseParams ==
    [spread_bps : Nat, skew_coeff_bps : Nat, odds_cap : Nat,
     max_risk_per_fixture : Nat, max_total_risk : Nat]

House == [params : HouseParams, total_locked : U64, paused : BOOLEAN]

(* The competition rule is stored here and read by routers only. *)
HouseFilters == [competition_allow : BOOLEAN, competitions : SUBSET Nat,
                 fixture_allow : BOOLEAN, fixtures : SUBSET Fixtures]

FixtureExposure ==
    [liability : [Outcomes -> U64], stakes_collected : U64, locked : U64,
     open_bets : Nat]

Odds == [fixture_id : Fixtures, ts : Int, prices : [Outcomes -> Int],
         market : {"1X2", "other"}, in_running : BOOLEAN]

ProvenPrint == [fixture_id : Fixtures, ts : Int, prices : [Outcomes -> Nat],
                payer : Users]

ScoreStat == [fixture_id : Fixtures, ts : Int, period : Nat, p1 : Nat, p2 : Nat]

Order == [bettor : Bettors, house : Houses, frontend : Frontends,
          fixture_id : Fixtures, outcome : Outcomes, stake : U64,
          nonce : Nonces, start_time_ms : Int]

DepositCall == [depositor : Users, house : Houses, amount : Nat]
WithdrawCall == [house : Houses, destination : TokenAccounts, amount : Nat]

BetState == {"Pending", "Active", "Won", "Lost", "Refunded", "Voided"}
Terminal == {"Won", "Lost", "Refunded", "Voided"}

Bet == [house : Houses, frontend : Frontends, fixture_id : Fixtures,
        outcome : Outcomes, stake : U64, reserved : U64,
        commit_ts_ms : Int, target_ts_ms : Int, start_time_ms : Int,
        frontend_fee : U64, protocol_fee : U64, keeper_rewards_remaining : Nat,
        fill_odds : Nat, fill_ts_ms : Int, payout : Nat, state : BetState]

ASSUME ConstantsAssumption ==
    /\ Bettors \subseteq Users
    /\ Crankers \subseteq Users
    /\ RewardAccounts \subseteq TokenAccounts
    /\ Users \cap Houses = {}
    /\ Users \cap Frontends = {}
    /\ Houses \cap Frontends = {}
    /\ {Escrow, Treasury} \cap (Users \cup Houses \cup Frontends) = {}
    /\ Escrow # Treasury
    /\ MaxU64 \in Nat
    /\ MaxI64 \in Nat
    /\ MaxTime \in Nat
    /\ ConfigChoices \subseteq ConfigParams
    /\ FrontendFees \subseteq Nat
    /\ HouseChoices \subseteq HouseParams
    /\ FilterChoices \subseteq HouseFilters
    /\ PauseChoices \subseteq BOOLEAN
    /\ Deposits \subseteq DepositCall
    /\ Withdrawals \subseteq WithdrawCall
    /\ Orders \subseteq Order
    /\ Feed \subseteq Odds
    /\ ScoreEvents \subseteq ScoreStat
    /\ InitialWallet \in [Users -> Nat]

ASSUME FiniteAssumption ==
    IsFiniteSet(Fixtures) /\ IsFiniteSet(Bettors \X Nonces)

ASSUME NoAccountAssumption ==
    NoAccount \notin ConfigParams \cup [fee_bps : Nat] \cup House \cup FixtureExposure \cup Bet

-----------------------------------------------------------------------------
(* Reading accounts and moving tokens *)

now_ms == unix_timestamp * 1000

Exists(account) == account # NoAccount
IsBet(bettor, nonce) == Exists(bets[<<bettor, nonce>>])
InState(bettor, nonce, state) ==
    IsBet(bettor, nonce) /\ bets[<<bettor, nonce>>].state = state

Moved(balances, from, to, amount) ==
    LET taken == [balances EXCEPT ![from] = @ - amount]
    IN  [taken EXCEPT ![to] = @ + amount]

(* The fixture rule of a house's offer policy. *)
fixture_offered(f, fixture_id) == f.fixture_allow <=> fixture_id \in f.fixtures

validate(p) ==
    /\ p.odds_cap >= ODDS_SCALE
    /\ p.spread_bps < BPS
    /\ p.max_risk_per_fixture > 0
    /\ p.max_total_risk >= p.max_risk_per_fixture

(* House h's total once book e, whose liability or stakes just changed,    *)
(* locks what it now calls for; it has to fit in 64 bits.                  *)
Resynced(h, e) ==
    houses[h].total_locked + locked(e.liability, e.stakes_collected) - e.locked

(* Store that lock, and roll the difference into the house's total.        *)
ResyncLocks_KeepingTotal(h, f, e) ==
    /\ houses' = houses
    /\ exposures' = [exposures EXCEPT
            ![<<h, f>>] = [e EXCEPT !.locked = locked(e.liability, e.stakes_collected)]]
ResyncLocks(h, f, e) ==
    /\ houses' = [houses EXCEPT ![h].total_locked = Resynced(h, e)]
    /\ exposures' = [exposures EXCEPT
            ![<<h, f>>] = [e EXCEPT !.locked = locked(e.liability, e.stakes_collected)]]

(* Checked of the balances and the total that every instruction leaves     *)
(* that moves a vault's tokens.                                            *)
VaultCovers_Unchecked(h, balances, total) == TRUE
VaultCovers(h, balances, total) == balances[h] >= total

-----------------------------------------------------------------------------
(* Admin, frontends and houses *)

InitConfig(p) ==
    /\ ~Exists(config)
    /\ config' = p
    /\ UNCHANGED <<frontends, houses, filters, exposures, prints, bets, token,
                   unix_timestamp, scores>>

UpdateConfig(p) ==
    /\ Exists(config)
    /\ config' = p
    /\ UNCHANGED <<frontends, houses, filters, exposures, prints, bets, token,
                   unix_timestamp, scores>>

RegisterFrontend(fe, fee_bps) ==
    /\ Exists(config)
    /\ ~Exists(frontends[fe])
    /\ fee_bps <= config.max_frontend_fee_bps
    /\ frontends' = [frontends EXCEPT ![fe] = [fee_bps |-> fee_bps]]
    /\ UNCHANGED <<config, houses, filters, exposures, prints, bets, token,
                   unix_timestamp, scores>>

CreateHouse(h, p) ==
    /\ Exists(config)
    /\ ~Exists(houses[h])
    /\ validate(p)
    /\ houses' = [houses EXCEPT ![h] =
            [params |-> p, total_locked |-> 0, paused |-> FALSE]]
    /\ UNCHANGED <<config, frontends, filters, exposures, prints, bets, token,
                   unix_timestamp, scores>>

Deposit(call) ==
    /\ Exists(houses[call.house])
    /\ token[call.depositor] >= call.amount
    /\ token' = Moved(token, call.depositor, call.house, call.amount)
    /\ UNCHANGED <<config, frontends, houses, filters, exposures, prints, bets,
                   unix_timestamp, scores>>

FreeCollateral(h) == SatSub(token[h], houses[h].total_locked)

WithdrawPayment(call) == Moved(token, call.house, call.destination, call.amount)

CanWithdraw(call) ==
    /\ Exists(houses[call.house])
    /\ call.amount <= FreeCollateral(call.house)
    /\ VaultCovers(call.house, WithdrawPayment(call), houses[call.house].total_locked)

(* Signed by the owner; the destination is any token account they name. *)
Withdraw(call) ==
    /\ CanWithdraw(call)
    /\ token' = WithdrawPayment(call)
    /\ UNCHANGED <<config, frontends, houses, filters, exposures, prints, bets,
                   unix_timestamp, scores>>

UpdateHouseParams(h, p) ==
    /\ Exists(houses[h])
    /\ validate(p)
    /\ houses' = [houses EXCEPT ![h].params = p]
    /\ UNCHANGED <<config, frontends, filters, exposures, prints, bets, token,
                   unix_timestamp, scores>>

SetPaused(h, paused) ==
    /\ Exists(houses[h])
    /\ houses' = [houses EXCEPT ![h].paused = paused]
    /\ UNCHANGED <<config, frontends, filters, exposures, prints, bets, token,
                   unix_timestamp, scores>>

(* The lists have room for 16 competitions and 32 fixtures. *)
ListsFit(f) == Cardinality(f.competitions) <= 16 /\ Cardinality(f.fixtures) <= 32

SetHouseFilters(h, f) ==
    /\ Exists(houses[h])
    /\ ListsFit(f)
    /\ filters' = [filters EXCEPT ![h] = f]
    /\ UNCHANGED <<config, frontends, houses, exposures, prints, bets, token,
                   unix_timestamp, scores>>

-----------------------------------------------------------------------------
(* Committing a bet *)

(* The accounts fill, settle, void and refund load with the bet. *)
Loaded(bet) ==
    /\ Exists(config)
    /\ Exists(houses[bet.house])
    /\ Exists(exposures[<<bet.house, bet.fixture_id>>])

NewExposure == [liability |-> [o \in Outcomes |-> 0], stakes_collected |-> 0,
                locked |-> 0, open_bets |-> 0]
BookOf(h, f) == IF Exists(exposures[<<h, f>>]) THEN exposures[<<h, f>>] ELSE NewExposure

(* `as u64` keeps the low 64 bits. *)
TruncatedFee(stake, fee_bps) == FeeOf(stake, fee_bps) % (MaxU64 + 1)

KeeperEscrow == config.keeper_reward * KEEPER_CRANKS

Offered(h, f) == Exists(filters[h]) => fixture_offered(filters[h], f)

(* The three nested risk bounds, of the resynced lock and total. *)
WithinRisk_CapsOnly(h, lock, total) ==
    /\ lock <= houses[h].params.max_risk_per_fixture
    /\ total <= houses[h].params.max_total_risk
WithinRisk(h, lock, total) ==
    /\ lock <= houses[h].params.max_risk_per_fixture
    /\ total <= houses[h].params.max_total_risk
    /\ token[h] >= total

(* What an order reserves and costs, and the book with it. *)
Reservation(order) == reserved(order.stake, houses[order.house].params.odds_cap)
FrontendFeeOf(order) == TruncatedFee(order.stake, frontends[order.frontend].fee_bps)
ProtocolFeeOf(order) == TruncatedFee(order.stake, config.protocol_fee_bps)
EscrowTotal(order) ==
    order.stake + FrontendFeeOf(order) + ProtocolFeeOf(order) + KeeperEscrow

CommittedBook(order) ==
    [BookOf(order.house, order.fixture_id) EXCEPT
        !.liability[order.outcome] = @ + Reservation(order), !.open_bets = @ + 1]

NewBet(order, reservation, frontend_fee, protocol_fee) ==
    [house |-> order.house, frontend |-> order.frontend,
     fixture_id |-> order.fixture_id, outcome |-> order.outcome,
     stake |-> order.stake, reserved |-> reservation,
     commit_ts_ms |-> now_ms, target_ts_ms |-> now_ms + config.commit_delay_ms,
     start_time_ms |-> order.start_time_ms,
     frontend_fee |-> frontend_fee, protocol_fee |-> protocol_fee,
     keeper_rewards_remaining |-> KEEPER_CRANKS,
     fill_odds |-> 0, fill_ts_ms |-> 0, payout |-> 0, state |-> "Pending"]

CanCommit(order) ==
    LET h == order.house
        e == CommittedBook(order)
    IN  /\ Exists(config) /\ Exists(houses[h]) /\ Exists(frontends[order.frontend])
        /\ ~IsBet(order.bettor, order.nonce)
        /\ ~houses[h].paused
        /\ order.stake > 0
        /\ Offered(h, order.fixture_id)
        /\ now_ms < order.start_time_ms
        /\ BookOf(h, order.fixture_id).liability[order.outcome] + Reservation(order) \in U64
        /\ Resynced(h, e) \in U64
        /\ WithinRisk(h, locked(e.liability, e.stakes_collected), Resynced(h, e))
        /\ EscrowTotal(order) \in U64
        /\ token[order.bettor] >= EscrowTotal(order)
        /\ now_ms + config.commit_delay_ms <= MaxI64

CommitBet(order) ==
    /\ CanCommit(order)
    /\ ResyncLocks(order.house, order.fixture_id, CommittedBook(order))
    /\ token' = Moved(token, order.bettor, Escrow, EscrowTotal(order))
    /\ bets' = [bets EXCEPT ![<<order.bettor, order.nonce>>] =
            NewBet(order, Reservation(order), FrontendFeeOf(order), ProtocolFeeOf(order))]
    /\ UNCHANGED <<config, frontends, filters, prints, unix_timestamp, scores>>

-----------------------------------------------------------------------------
(* Proving prints *)

(* The oracle can prove a record from its timestamp on. *)
Published(record) == record.ts < now_ms + 1000

check_1x2_record(odds) == odds.market = "1X2" /\ ~odds.in_running

AllPriced(odds) == \A o \in Outcomes : odds.prices[o] > 0

SamePrint(print, odds) == print.fixture_id = odds.fixture_id /\ print.ts = odds.ts

ProvePrint(cranker, odds) ==
    /\ Exists(config)
    /\ Published(odds)
    /\ check_1x2_record(odds)
    /\ AllPriced(odds)
    /\ \A print \in prints : ~SamePrint(print, odds)
    /\ prints' = prints \cup
            {[fixture_id |-> odds.fixture_id, ts |-> odds.ts,
              prices |-> odds.prices, payer |-> cranker]}
    /\ UNCHANGED <<config, frontends, houses, filters, exposures, bets, token,
                   unix_timestamp, scores>>

ClosePrint(payer, print) ==
    /\ print \in prints
    /\ print.payer = payer
    /\ prints' = prints \ {print}
    /\ UNCHANGED <<config, frontends, houses, filters, exposures, bets, token,
                   unix_timestamp, scores>>

-----------------------------------------------------------------------------
(* Filling at the worse of two prints *)

InCommitWindow(bet, print) ==
    /\ print.ts <= bet.commit_ts_ms
    /\ print.ts >= bet.commit_ts_ms - config.staleness_window_ms

InTargetWindow(bet, commit_print, target_print) ==
    /\ target_print.ts >= commit_print.ts
    /\ bet.target_ts_ms + config.fill_tolerance_ms <= MaxI64
    /\ target_print.ts <= bet.target_ts_ms + config.fill_tolerance_ms

PreMatch(bet, commit_print, target_print) ==
    commit_print.ts < bet.start_time_ms /\ target_print.ts < bet.start_time_ms

Qualify(bet, commit_print, target_print) ==
    /\ commit_print.fixture_id = bet.fixture_id
    /\ target_print.fixture_id = bet.fixture_id
    /\ InCommitWindow(bet, commit_print)
    /\ InTargetWindow(bet, commit_print, target_print)
    /\ PreMatch(bet, commit_print, target_print)
    /\ commit_print.prices[bet.outcome] > 0
    /\ target_print.prices[bet.outcome] > 0

(* The house's widening for this bet, its own reservation left out. *)
SkewFor(bet, house, book) ==
    skew_bps(house.params.skew_coeff_bps,
             [book.liability EXCEPT ![bet.outcome] = @ - bet.reserved],
             bet.outcome, house.params.max_risk_per_fixture)

FillOddsFor(bet, commit_print, target_print) ==
    LET house == houses[bet.house]
    IN  fill_odds(commit_print.prices[bet.outcome],
                  target_print.prices[bet.outcome],
                  house.params.spread_bps,
                  SkewFor(bet, house, exposures[<<bet.house, bet.fixture_id>>]),
                  house.params.odds_cap)

(* Escrow pays the stake to the house, the fees, and one keeper reward to  *)
(* the account the cranker names, of which only the mint is checked: a     *)
(* reward paid to the escrow itself stays there.                           *)
FillPayments_KeepingFees(bet, cranker_token) ==
    Moved(Moved(token, Escrow, bet.house, bet.stake),
          Escrow, cranker_token, config.keeper_reward)
FillPayments_BothRewards(bet, cranker_token) ==
    LET staked == Moved(token, Escrow, bet.house, bet.stake)
        frontend_paid == Moved(staked, Escrow, bet.frontend, bet.frontend_fee)
        protocol_paid == Moved(frontend_paid, Escrow, Treasury, bet.protocol_fee)
    IN  Moved(protocol_paid, Escrow, cranker_token, 2 * config.keeper_reward)
FillPayments(bet, cranker_token) ==
    LET staked == Moved(token, Escrow, bet.house, bet.stake)
        frontend_paid == Moved(staked, Escrow, bet.frontend, bet.frontend_fee)
        protocol_paid == Moved(frontend_paid, Escrow, Treasury, bet.protocol_fee)
    IN  Moved(protocol_paid, Escrow, cranker_token, config.keeper_reward)

(* Book after a fill: the reservation is trued down to the payout. *)
FilledBook(book, bet, pays) ==
    [book EXCEPT !.liability[bet.outcome] = @ - (bet.reserved - pays),
                 !.stakes_collected = @ + bet.stake]

CanFill(cranker_token, bettor, nonce, commit_print, target_print) ==
    LET bet == bets[<<bettor, nonce>>]
        h == bet.house
        book == exposures[<<h, bet.fixture_id>>]
        pays == payout(bet.stake, FillOddsFor(bet, commit_print, target_print))
        total == Resynced(h, FilledBook(book, bet, pays))
    IN  /\ InState(bettor, nonce, "Pending")
        /\ Loaded(bet)
        /\ Exists(frontends[bet.frontend])
        /\ commit_print \in prints
        /\ target_print \in prints
        /\ Qualify(bet, commit_print, target_print)
        /\ bet.reserved <= book.liability[bet.outcome]
        /\ SkewFor(bet, houses[h], book) \in U64
        /\ pays <= bet.reserved
        /\ token[Escrow] >= bet.stake + bet.frontend_fee + bet.protocol_fee
                            + config.keeper_reward
        /\ book.stakes_collected + bet.stake \in U64
        /\ total \in U64
        /\ bet.keeper_rewards_remaining >= 1
        /\ VaultCovers(h, FillPayments(bet, cranker_token), total)

FillBet(cranker_token, bettor, nonce, commit_print, target_print) ==
    LET bet == bets[<<bettor, nonce>>]
        h == bet.house
        f == bet.fixture_id
        odds == FillOddsFor(bet, commit_print, target_print)
        pays == payout(bet.stake, odds)
    IN  /\ CanFill(cranker_token, bettor, nonce, commit_print, target_print)
        /\ token' = FillPayments(bet, cranker_token)
        /\ ResyncLocks(h, f, FilledBook(exposures[<<h, f>>], bet, pays))
        /\ bets' = [bets EXCEPT ![<<bettor, nonce>>] =
                [bet EXCEPT !.fill_odds = odds,
                            !.fill_ts_ms = target_print.ts,
                            !.payout = pays,
                            !.keeper_rewards_remaining = @ - 1,
                            !.state = "Active"]]
        /\ UNCHANGED <<config, frontends, filters, prints, unix_timestamp, scores>>

-----------------------------------------------------------------------------
(* Settling, voiding, refunding *)

(* Records of the game_finalised event carry period 100. *)
PERIOD_GAME_FINALISED == 100
FinalStats_Any(ev) == TRUE
FinalStats(ev) == ev.period = PERIOD_GAME_FINALISED

ResultOf(ev) == CASE ev.p1 > ev.p2 -> 0
                  [] ev.p1 = ev.p2 -> 1
                  [] ev.p1 < ev.p2 -> 2

(* Shared by settle and void: the book without the bet. *)
ReleasedBook_StakeTwice(book, bet) ==
    [book EXCEPT !.liability[bet.outcome] = @ - bet.payout,
                 !.stakes_collected = @ - 2 * bet.stake,
                 !.open_bets = @ - 1]
ReleasedBook(book, bet) ==
    [book EXCEPT !.liability[bet.outcome] = @ - bet.payout,
                 !.stakes_collected = @ - bet.stake,
                 !.open_bets = @ - 1]

ReleasePayments(bet, cranker_token, bettor, paid) ==
    Moved(Moved(token, bet.house, bettor, paid), Escrow, cranker_token, config.keeper_reward)

ReleaseAndReward(cranker_token, bettor, nonce, paid, state) ==
    LET bet == bets[<<bettor, nonce>>]
        h == bet.house
        f == bet.fixture_id
        book == exposures[<<h, f>>]
        released == ReleasedBook(book, bet)
    IN  /\ Loaded(bet)
        /\ token[h] >= paid
        /\ token[Escrow] >= config.keeper_reward
        /\ bet.payout <= book.liability[bet.outcome]
        /\ bet.stake <= book.stakes_collected
        /\ Resynced(h, released) \in U64
        /\ book.open_bets >= 1
        /\ bet.keeper_rewards_remaining >= 1
        /\ VaultCovers(h, ReleasePayments(bet, cranker_token, bettor, paid), Resynced(h, released))
        /\ token' = ReleasePayments(bet, cranker_token, bettor, paid)
        /\ ResyncLocks(h, f, released)
        /\ bets' = [bets EXCEPT ![<<bettor, nonce>>] =
                [bet EXCEPT !.keeper_rewards_remaining = @ - 1, !.state = state]]
        /\ UNCHANGED <<config, frontends, filters, prints, unix_timestamp, scores>>

SettleBet(cranker_token, bettor, nonce, ev) ==
    LET bet == bets[<<bettor, nonce>>]
        won == ResultOf(ev) = bet.outcome
    IN  /\ InState(bettor, nonce, "Active")
        /\ ev \in scores
        /\ ev.fixture_id = bet.fixture_id
        /\ FinalStats(ev)
        /\ ReleaseAndReward(cranker_token, bettor, nonce,
                            IF won THEN bet.payout ELSE 0,
                            IF won THEN "Won" ELSE "Lost")

VoidWindowOpen_Closing(bet) ==
    bet.start_time_ms < now_ms /\ now_ms < bet.start_time_ms + config.void_after_ms + 1
VoidWindowOpen(bet) ==
    /\ bet.start_time_ms + config.void_after_ms <= MaxI64
    /\ now_ms > bet.start_time_ms + config.void_after_ms

VoidBet(cranker_token, bettor, nonce) ==
    LET bet == bets[<<bettor, nonce>>]
    IN  /\ InState(bettor, nonce, "Active")
        /\ VoidWindowOpen(bet)
        /\ ReleaseAndReward(cranker_token, bettor, nonce, bet.stake, "Voided")

Expired_PreMatch(bet) ==
    /\ now_ms > bet.target_ts_ms + config.commit_expiry_ms
    /\ now_ms < bet.start_time_ms
Expired(bet) ==
    /\ bet.target_ts_ms + config.commit_expiry_ms <= MaxI64
    /\ now_ms > bet.target_ts_ms + config.commit_expiry_ms

RefundOf_NoRewards(bet) == bet.stake + bet.frontend_fee + bet.protocol_fee
RefundOf(bet) ==
    bet.stake + bet.frontend_fee + bet.protocol_fee
        + config.keeper_reward * bet.keeper_rewards_remaining

UnreservedBook_CurrentCap(book, bet) ==
    [book EXCEPT !.liability[bet.outcome] =
                    SatSub(@, reserved(bet.stake, houses[bet.house].params.odds_cap)),
                 !.open_bets = @ - 1]
UnreservedBook(book, bet) ==
    [book EXCEPT !.liability[bet.outcome] = @ - bet.reserved,
                 !.open_bets = @ - 1]

CanRefund(bettor, nonce) ==
    LET bet == bets[<<bettor, nonce>>]
        book == exposures[<<bet.house, bet.fixture_id>>]
    IN  /\ InState(bettor, nonce, "Pending")
        /\ Loaded(bet)
        /\ Expired(bet)
        /\ RefundOf(bet) \in U64
        /\ token[Escrow] >= RefundOf(bet)
        /\ bet.reserved <= book.liability[bet.outcome]
        /\ Resynced(bet.house, UnreservedBook(book, bet)) \in U64
        /\ book.open_bets >= 1

RefundCommit(bettor, nonce) ==
    LET bet == bets[<<bettor, nonce>>]
        h == bet.house
        f == bet.fixture_id
    IN  /\ CanRefund(bettor, nonce)
        /\ token' = Moved(token, Escrow, bettor, RefundOf(bet))
        /\ ResyncLocks(h, f, UnreservedBook(exposures[<<h, f>>], bet))
        /\ bets' = [bets EXCEPT ![<<bettor, nonce>>].state = "Refunded"]
        /\ UNCHANGED <<config, frontends, filters, prints, unix_timestamp, scores>>

CloseBet(bettor, nonce) ==
    /\ IsBet(bettor, nonce)
    /\ bets[<<bettor, nonce>>].state \in Terminal
    /\ bets' = [bets EXCEPT ![<<bettor, nonce>>] = NoAccount]
    /\ UNCHANGED <<config, frontends, houses, filters, exposures, prints, token,
                   unix_timestamp, scores>>

Idle_Unlocked(book) == book.locked = 0
Idle(book) == book.open_bets = 0 /\ book.locked = 0

CloseExposure(h, f) ==
    /\ Exists(houses[h])
    /\ Exists(exposures[<<h, f>>])
    /\ Idle(exposures[<<h, f>>])
    /\ exposures' = [exposures EXCEPT ![<<h, f>>] = NoAccount]
    /\ UNCHANGED <<config, frontends, houses, filters, prints, bets, token,
                   unix_timestamp, scores>>

-----------------------------------------------------------------------------
(* The world outside the program *)

Tick ==
    /\ unix_timestamp < MaxTime
    /\ unix_timestamp' = unix_timestamp + 1
    /\ UNCHANGED <<config, frontends, houses, filters, exposures, prints, bets,
                   token, scores>>

(* Nothing follows a fixture's game_finalised record. *)
PublishScore(ev) ==
    /\ ev \notin scores
    /\ Published(ev)
    /\ \A e \in scores :
            e.fixture_id = ev.fixture_id => e.period # PERIOD_GAME_FINALISED
    /\ scores' = scores \cup {ev}
    /\ UNCHANGED <<config, frontends, houses, filters, exposures, prints, bets,
                   token, unix_timestamp>>

-----------------------------------------------------------------------------
(* Specification *)

Init ==
    /\ config = NoAccount
    /\ frontends = [fe \in Frontends |-> NoAccount]
    /\ houses = [h \in Houses |-> NoAccount]
    /\ filters = [h \in Houses |-> NoAccount]
    /\ exposures = [hf \in Houses \X Fixtures |-> NoAccount]
    /\ prints = {}
    /\ bets = [bn \in Bettors \X Nonces |-> NoAccount]
    /\ token = [a \in TokenAccounts |-> IF a \in Users THEN InitialWallet[a] ELSE 0]
    /\ unix_timestamp = 0
    /\ scores = {}

AdminNext ==
    \/ \E p \in ConfigChoices : InitConfig(p) \/ UpdateConfig(p)
    \/ \E fe \in Frontends, fee_bps \in FrontendFees : RegisterFrontend(fe, fee_bps)

HouseNext ==
    \/ \E h \in Houses :
        \/ \E p \in HouseChoices : CreateHouse(h, p) \/ UpdateHouseParams(h, p)
        \/ \E paused \in PauseChoices : SetPaused(h, paused)
        \/ \E f \in FilterChoices : SetHouseFilters(h, f)
        \/ \E f \in Fixtures : CloseExposure(h, f)
    \/ \E call \in Deposits : Deposit(call)
    \/ \E call \in Withdrawals : Withdraw(call)

BetNext ==
    \/ \E order \in Orders : CommitBet(order)
    \/ \E cranker \in Crankers, odds \in Feed : ProvePrint(cranker, odds)
    \/ \E payer \in Crankers, print \in prints : ClosePrint(payer, print)
    \/ \E bettor \in Bettors, nonce \in Nonces :
        \/ \E cranker_token \in RewardAccounts :
            \/ \E commit_print \in prints, target_print \in prints :
                    FillBet(cranker_token, bettor, nonce, commit_print, target_print)
            \/ \E ev \in scores : SettleBet(cranker_token, bettor, nonce, ev)
            \/ VoidBet(cranker_token, bettor, nonce)
        \/ RefundCommit(bettor, nonce)
        \/ CloseBet(bettor, nonce)

WorldNext == Tick \/ \E ev \in ScoreEvents : PublishScore(ev)

Next == AdminNext \/ HouseNext \/ BetNext \/ WorldNext

Spec == Init /\ [][Next]_vars
=============================================================================
