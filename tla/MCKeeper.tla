------------------------------ MODULE MCKeeper ------------------------------
(***************************************************************************)
(* Constants for model checking Keeper: windows and feeds in which a bet   *)
(* finds a fresh price, falls back to the last one, or finds none and      *)
(* expires, depending on when it is committed.                             *)
(***************************************************************************)
EXTENDS MCBethehouse, Keeper

KeptConfig ==
    [BaseConfig EXCEPT !.staleness_window_ms = 500, !.fill_tolerance_ms = 1500,
                       !.commit_expiry_ms = 1500, !.void_after_ms = 3000]
KeptConfigs == {KeptConfig}

(* The runs have windows as the proofs ask for. *)
ASSUME RunsMirror == WindowsMirrored

-----------------------------------------------------------------------------
(* Two bets on two fixtures, the keeper the only one to prove and fill:    *)
(* alice's is filled at two prices or, when she commits late, refunded;    *)
(* bob's is filled at its commit price.                                    *)
KeptWallets == Wallets(owner, 0, 14)
KeptOrders == {Bid(alice, m1, 0, 10, 0, 2000), Bid(bob, m2, 1, 10, 0, 1000)}
KeptFeed ==
    {Price(m1, 0, 2500, 1700, 3000), Price(m1, 1500, 1600, 1900, 3000),
     Price(m2, 0, 1500, 1900, 3000),
     [Price(m2, 1500, 9000, 9000, 9000) EXCEPT !.in_running = TRUE]}
KeptScores == {Score(m1, 3000, 100, 1, 0), Score(m2, 3000, 100, 1, 0)}
KeptInit == SetUp(KeptConfig, BaseParams, KeptWallets, 100) /\ KeeperInit
KeptSpec == KeptInit /\ [][KeeperNext]_allVars /\ KeeperFairness

-----------------------------------------------------------------------------
(* One bet, and a second instance that signs with the same key and proves, *)
(* fills, settles, voids and closes prints at any moment; at some point it *)
(* stops closing prints.  The second record comes within the grace of an   *)
(* early commit; a late commit falls back, the last record being past its  *)
(* tolerance.                                                              *)
RaceOrders == {Bid(alice, m1, 0, 10, 0, 3000)}
RaceFeed ==
    {Price(m1, 0, 2500, 1700, 3000), Price(m1, 2200, 1500, 1900, 3000),
     Price(m1, 4600, 1600, 1900, 3000)}
RaceScores == {Score(m1, 2000, 1, 0, 0), Score(m1, 3000, 100, 1, 0)}
RaceConfig == [KeptConfig EXCEPT !.staleness_window_ms = 2000]
RaceConfigs == {RaceConfig}
RaceInit == SetUp(RaceConfig, BaseParams, KeptWallets, 100) /\ KeeperInit
RaceSpec ==
    /\ RaceInit /\ [][KeeperNext]_allVars /\ KeeperFairness
    /\ <>[][prints \subseteq prints']_prints

-----------------------------------------------------------------------------
(* The match kicks off late: the record after alice's target time is still *)
(* pre-match, but not before the start time she committed with.            *)
LateFeed == {Price(m1, 500, 1500, 1900, 3000), Price(m1, 3200, 1600, 1900, 3000)}
LateSpec == KeptInit /\ [][KeeperNext]_allVars
=============================================================================
