------------------------------ MODULE MCRouter ------------------------------
(***************************************************************************)
(* Constants for model checking Router: two houses, one dearer and one     *)
(* shorter of room, that can be paused, emptied, repriced, filtered and bet with   *)
(* while alice's request is under way.                                     *)
(***************************************************************************)
EXTENDS MCBethehouse, Router, TLC

WORLD_CUP == 72

RoutedParams ==
    [h \in Houses |->
        IF h = h1 THEN [BaseParams EXCEPT !.spread_bps = 500]
        ELSE [BaseParams EXCEPT !.max_risk_per_fixture = 20]]
RoutedConfigs == {BaseConfig, [BaseConfig EXCEPT !.keeper_reward = 2]}
Repriced == {[BaseParams EXCEPT !.spread_bps = 0]}
RoutedFilters == {Policy(FALSE, {WORLD_CUP}, FALSE, {}), Policy(TRUE, {WORLD_CUP}, TRUE, {})}
RoutedOrders == {[Bid(bob, m1, o, 10, 0, 1000) EXCEPT !.house = h] :
                    o \in {0, 1}, h \in {h1, h2}}
RoutedFeed == {Price(m1, 0, 2500, 1700, 3000)}
RoutedWallets == Wallets(alice, 60, 14)
RoutedWithdrawals == {[house |-> h1, destination |-> owner, amount |-> 15]}
WorldCupListings == {{[FixtureId |-> m1, StartTime |-> 1000, CompetitionId |-> WORLD_CUP]}, {}}

Ask(o, spend, hasSol) ==
    [bettor |-> alice, fixture_id |-> m1, outcome |-> o, spend |-> spend,
     nonce |-> 0, hasSol |-> hasSol]
RoutedRequests ==
    {Ask(1, 3, TRUE), Ask(1, 14, TRUE), Ask(1, 25, TRUE), Ask(1, 50, TRUE),
     Ask(1, 14, FALSE), Ask(0, 25, TRUE)}

(* Two houses in business: h1 with collateral or little of it, h2 with a   *)
(* bet of bob's or without, h1 with a policy or without.                   *)
BobsBet ==
    [house |-> h2, frontend |-> fe1, fixture_id |-> m1, outcome |-> 1, stake |-> 5,
     reserved |-> 10, commit_ts_ms |-> 0, target_ts_ms |-> 1000, start_time_ms |-> 1000,
     frontend_fee |-> 0, protocol_fee |-> 0, keeper_rewards_remaining |-> KEEPER_CRANKS,
     fill_odds |-> 0, fill_ts_ms |-> 0, payout |-> 0, state |-> "Pending"]
BobsBook ==
    [liability |-> [o \in Outcomes |-> IF o = 1 THEN 10 ELSE 0],
     stakes_collected |-> 0, locked |-> 10, open_bets |-> 1]

RoutedInit ==
    \E collateral \in {10, 30}, hasBet \in BOOLEAN :
        /\ config = BaseConfig
        /\ frontends = [fe \in Frontends |-> [fee_bps |-> 1000]]
        /\ houses = [h \in Houses |->
                [params |-> RoutedParams[h], paused |-> FALSE,
                 total_locked |-> IF h = h2 /\ hasBet THEN 10 ELSE 0]]
        /\ \E f \in RoutedFilters \cup {NoAccount} :
                filters = [h \in Houses |-> IF h = h1 THEN f ELSE NoAccount]
        /\ exposures = [hf \in Houses \X Fixtures |->
                IF hf = <<h2, m1>> /\ hasBet THEN BobsBook ELSE NoAccount]
        /\ prints = {}
        /\ bets = [bn \in Bettors \X Nonces |->
                IF bn = <<bob, 0>> /\ hasBet THEN BobsBet ELSE NoAccount]
        /\ token = [RoutedWallets @@ (h1 :> collateral) @@ (h2 :> 30) @@ (fe1 :> 0)
                    @@ (Escrow :> IF hasBet THEN 7 ELSE 0) @@ (Treasury :> 0)
                        EXCEPT ![bob] = IF hasBet THEN 7 ELSE 14]
        /\ unix_timestamp = 0
        /\ scores = {}
        /\ RouterInit
-----------------------------------------------------------------------------
(* A market with no house in it, read under many fees and for many amounts *)
(* to spend; nobody else moves.                                            *)
EmptyCharges == 0..150
EmptyFeeModels ==
    {feeModel(frontend_fee, protocol_fee, reward) :
        frontend_fee \in {0, 250, 999, 3333}, protocol_fee \in {0, 100, 999, 6667},
        reward \in {0, 3}}

EmptyInit ==
    /\ FeesInit
    /\ config = [BaseConfig EXCEPT !.protocol_fee_bps = m.protocolFeeBps,
                                   !.max_frontend_fee_bps = m.frontendFeeBps,
                                   !.keeper_reward = m.keeperUusdc \div KEEPER_CRANKS]
    /\ frontends = [fe \in Frontends |-> [fee_bps |-> m.frontendFeeBps]]
    /\ houses = [h \in Houses |-> NoAccount]
    /\ filters = [h \in Houses |-> NoAccount]
    /\ exposures = [hf \in Houses \X Fixtures |-> NoAccount]
    /\ prints = {}
    /\ bets = [bn \in Bettors \X Nonces |-> NoAccount]
    /\ token = [a \in TokenAccounts |-> IF a \in Users THEN RoutedWallets[a] ELSE 0]
    /\ unix_timestamp = 0
    /\ scores = {}
    /\ listed = CHOOSE l \in WorldCupListings : l # {}
    /\ fixturesCache = [at |-> 0, data |-> listed]
    /\ request = Ask(1, charge, TRUE) /\ phase = "fees"
    /\ fixture = EntryOf(m1, listed) /\ cfg = config /\ frontend = fe1
    /\ print \in RoutedFeed /\ pending = {} /\ competition = WORLD_CUP /\ quotes = {}
    /\ untried = {} /\ current = NoAccount /\ capacityBlocked = FALSE /\ bestMax = 0
    /\ answer = [kind |-> "none", house |-> NoAccount, odds |-> 0, max |-> 0]
    /\ moves = MaxMoves /\ touched = {}

RoutedSpec == (RoutedInit \/ EmptyInit) /\ [][RouterNext]_routerVars
=============================================================================
