---------------------------- MODULE MCBethehouse ----------------------------
(***************************************************************************)
(* Constants for model checking Bethehouse: stakes of a few units, a clock *)
(* of a few seconds, and the prices, results and parameters at which the   *)
(* interesting cases happen.                                               *)
(***************************************************************************)
EXTENDS BetLedgerRefinement

CONSTANTS alice, bob, owner, h1, h2, fe1, m1, m2

Wallets(rich, amount, rest) ==
    [u \in Users |-> IF u = rich THEN amount ELSE rest]

(* Windows of one second each; a reward of 1 and fees of 10%. *)
BaseConfig ==
    [protocol_fee_bps |-> 1000, max_frontend_fee_bps |-> 1000, keeper_reward |-> 1,
     commit_delay_ms |-> 1000, staleness_window_ms |-> 1000,
     fill_tolerance_ms |-> 500, commit_expiry_ms |-> 500, void_after_ms |-> 1000]
FixedConfig == {BaseConfig}

(* Odds are capped at 2.0 and quoted 10% under the fair price. *)
BaseParams ==
    [spread_bps |-> 1000, skew_coeff_bps |-> 5000, odds_cap |-> 2000,
     max_risk_per_fixture |-> 30, max_total_risk |-> 40]
FixedParams == {BaseParams}

Bid(b, f, o, stake, nonce, start) ==
    [bettor |-> b, house |-> h1, frontend |-> fe1, fixture_id |-> f, outcome |-> o,
     stake |-> stake, nonce |-> nonce, start_time_ms |-> start]

Price(f, ts, p0, p1, p2) ==
    [fixture_id |-> f, ts |-> ts, prices |-> [o \in Outcomes |->
        CASE o = 0 -> p0 [] o = 1 -> p1 [] o = 2 -> p2],
     market |-> "1X2", in_running |-> FALSE]

Score(f, ts, period, p1, p2) ==
    [fixture_id |-> f, ts |-> ts, period |-> period, p1 |-> p1, p2 |-> p2]

-----------------------------------------------------------------------------
(* The state after init_config, register_frontend, create_house and a      *)
(* deposit into every house, all in the first second: the runs about bets  *)
(* start here, the run about accounts starts from nothing.                 *)
SetUp(cfg, params, wallets, collateral) ==
    /\ config = cfg
    /\ frontends = [fe \in Frontends |-> [fee_bps |-> 1000]]
    /\ houses = [h \in Houses |-> [params |-> params, total_locked |-> 0, paused |-> FALSE]]
    /\ filters = [h \in Houses |-> NoAccount]
    /\ exposures = [hf \in Houses \X Fixtures |-> NoAccount]
    /\ prints = {}
    /\ bets = [bn \in Bettors \X Nonces |-> NoAccount]
    /\ token = [a \in TokenAccounts |->
                    IF a \in Users THEN wallets[a]
                    ELSE IF a \in Houses THEN collateral ELSE 0]
    /\ unix_timestamp = 0
    /\ scores = {}

-----------------------------------------------------------------------------
(* One fixture, two bettors on opposite outcomes or on the same one.  In   *)
(* the run about the book one of them also cranks everyone's bets and has  *)
(* the house's free collateral withdrawn to their wallet.                  *)
BookWallets == Wallets(owner, 0, 14)
BookWithdrawals == {[house |-> h1, destination |-> alice, amount |-> 15]}
BookOrders == {Bid(alice, m1, 0, 10, 0, 2000), Bid(bob, m1, 1, 10, 0, 2000),
               Bid(bob, m1, 0, 5, 0, 2000)}
BookFeed == {Price(m1, 0, 2500, 1700, 3000), Price(m1, 1000, 1500, 1900, 3000),
             [Price(m1, 1500, 9000, 9000, 9000) EXCEPT !.market = "other"]}
BookScores == {Score(m1, 2000, 1, 1, 0), Score(m1, 3000, 100, 1, 0),
               Score(m1, 3000, 100, 1, 1)}
BookInit == SetUp(BaseConfig, BaseParams, BookWallets, 30)
BookSpec == BookInit /\ [][Next]_vars /\ CrankFairness

-----------------------------------------------------------------------------
(* From nothing: one bettor with a bet on each of two fixtures, while the  *)
(* admin and the owner change everything they may.                         *)
AccountsConfigs ==
    {BaseConfig, [BaseConfig EXCEPT !.max_frontend_fee_bps = 500, !.keeper_reward = 2]}
AccountsParams ==
    {BaseParams,
     [BaseParams EXCEPT !.odds_cap = 1200, !.max_risk_per_fixture = 15],
     [BaseParams EXCEPT !.odds_cap = 900]}
Policy(competition_allow, competitions, fixture_allow, fixtures) ==
    [competition_allow |-> competition_allow, competitions |-> competitions,
     fixture_allow |-> fixture_allow, fixtures |-> fixtures]
AccountsFilters == {Policy(FALSE, {}, TRUE, {m1}), Policy(FALSE, {}, FALSE, {m1})}
AccountsWallets == Wallets(owner, 40, 40)
AccountsDeposits == {[depositor |-> owner, house |-> h1, amount |-> 40]}
AccountsWithdrawals == {[house |-> h1, destination |-> owner, amount |-> 40],
                        [house |-> h1, destination |-> Escrow, amount |-> 15]}
AccountsOrders == {Bid(alice, m1, 0, 10, 0, 1000), Bid(alice, m2, 1, 10, 1, 1000)}
AccountsFeed == {Price(m1, 0, 2500, 1700, 3000)}

-----------------------------------------------------------------------------
(* Winners: the same book at full odds, the owner withdrawing what is free. *)
PlainParams == [BaseParams EXCEPT !.spread_bps = 0, !.skew_coeff_bps = 0]
PlainInit == SetUp(BaseConfig, PlainParams, BookWallets, 30)
PlainSpec == PlainInit /\ [][Next]_vars

-----------------------------------------------------------------------------
(* The owner raises the odds cap from 1.2 to 2.0 while a bet is pending. *)
LowCapInit == SetUp(BaseConfig, [BaseParams EXCEPT !.odds_cap = 1200], BookWallets, 30)
LowCapSpec == LowCapInit /\ [][Next]_vars
CapChanges == {BaseParams}
=============================================================================
