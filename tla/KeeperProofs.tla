---------------------------- MODULE KeeperProofs ----------------------------
(***************************************************************************)
(* Theorems about the keeper among the program's other users: it is one    *)
(* more cranker, its prints fit the program's windows, and it falls back   *)
(* to the commit price only in a lull.                                     *)
(***************************************************************************)
EXTENDS Keeper, BethehouseProofs

(* Without loss of generality the keeper's key is one of those that may    *)
(* crank and be rewarded: the fewer others do, the fewer behaviours there  *)
(* are.                                                                    *)
KeeperCranks == Self \in Crankers /\ Self \in RewardAccounts

Slots == Bettors \X Nonces

-----------------------------------------------------------------------------
(* What the chain holds for the keeper to read *)

(* A bet was committed by the clock, under a config on offer. *)
WellTimed(bet) ==
    /\ bet.commit_ts_ms <= MaxTime * 1000
    /\ \E c \in ConfigChoices : bet.target_ts_ms = bet.commit_ts_ms + c.commit_delay_ms

BetsTimed ==
    \A bn \in Slots : Exists(bets[bn]) => Exists(config) /\ WellTimed(bets[bn])

ChainInv ==
    /\ VaultInv
    /\ unix_timestamp <= MaxTime
    /\ Exists(config) => config \in ConfigChoices
    /\ BetsTimed

(* A step that leaves the config alone and touches one bet, whose times it *)
(* keeps or which it removes.                                              *)
LEMMA TimesKept ==
    ASSUME BetsTimed, config' = config, NEW bn \in Slots,
           \A other \in Slots : other # bn => bets'[other] = bets[other],
           Exists(bets'[bn]) =>
                /\ Exists(bets[bn])
                /\ bets'[bn].commit_ts_ms = bets[bn].commit_ts_ms
                /\ bets'[bn].target_ts_ms = bets[bn].target_ts_ms
    PROVE  BetsTimed'
<1> SUFFICES ASSUME NEW other \in Slots, Exists(bets'[other])
             PROVE  Exists(config') /\ WellTimed(bets'[other])
  BY DEF BetsTimed, WellTimed, Exists
<1>1. CASE other = bn
  BY <1>1 DEF BetsTimed, WellTimed, Exists
<1>2. CASE other # bn
  BY <1>2 DEF BetsTimed, Exists
<1> QED
  BY <1>1, <1>2

(* commit_bet stamps the bet with the clock and adds the delay in force. *)
LEMMA CommitTimed ==
    ASSUME ChainInv, NEW order \in Orders, CommitBet(order)
    PROVE  BetsTimed'
<1> DEFINE slot == <<order.bettor, order.nonce>>
<1>1. slot \in Slots
  BY ConstantsAssumption DEF Order, Slots
<1>2. PICK r, ff, pf : /\ bets' = [bets EXCEPT ![slot] = NewBet(order, r, ff, pf)]
                       /\ Exists(config) /\ config' = config
  BY DEF CommitBet, CanCommit, Reservation, FrontendFeeOf, ProtocolFeeOf, EscrowTotal,
         CommittedBook
<1>3. /\ bets'[slot] = NewBet(order, r, ff, pf)
      /\ \A other \in Slots : other # slot => bets'[other] = bets[other]
  BY <1>1, <1>2 DEF ChainInv, VaultInv, TypeOK, Slots
<1>4. /\ bets'[slot].commit_ts_ms = now_ms
      /\ bets'[slot].target_ts_ms = now_ms + config.commit_delay_ms
  BY <1>3 DEF NewBet
<1>5. now_ms <= MaxTime * 1000 /\ config \in ConfigChoices
  BY <1>2, ConstantsAssumption DEF ChainInv, VaultInv, TypeOK, now_ms
<1>6. WellTimed(bets'[slot])
  BY <1>4, <1>5 DEF WellTimed
<1> HIDE DEF slot
<1> QED
  BY <1>2, <1>3, <1>6 DEF BetsTimed, ChainInv, WellTimed, Exists

(* The rest of a bet's life keeps its times. *)
LEMMA BetStepTimed ==
    ASSUME ChainInv, BetNext
    PROVE  BetsTimed'
<1>1. TypeOK /\ BetsTimed
  BY DEF ChainInv, VaultInv
<1>2. ASSUME NEW c, NEW r, ProvePrint(c, r) \/ ClosePrint(c, r)
      PROVE  BetsTimed'
  BY <1>1, <1>2 DEF ProvePrint, ClosePrint, BetsTimed, WellTimed, Exists
<1>3. ASSUME NEW bettor \in Bettors, NEW nonce \in Nonces,
             \/ \E cranker_token \in RewardAccounts,
                   commit_print \in prints, target_print \in prints :
                    FillBet(cranker_token, bettor, nonce, commit_print, target_print)
             \/ \E cranker_token \in RewardAccounts :
                    \/ \E ev \in scores : SettleBet(cranker_token, bettor, nonce, ev)
                    \/ VoidBet(cranker_token, bettor, nonce)
             \/ RefundCommit(bettor, nonce)
             \/ CloseBet(bettor, nonce)
      PROVE  BetsTimed'
  <2> DEFINE slot == <<bettor, nonce>>
  <2>1. slot \in Slots
    BY DEF Slots
  <2>2. IsBet(bettor, nonce) /\ config' = config
    <3>1. CASE \E cranker_token \in RewardAccounts,
                  commit_print \in prints, target_print \in prints :
                    FillBet(cranker_token, bettor, nonce, commit_print, target_print)
      BY <3>1 DEF FillBet, CanFill, InState
    <3>2. CASE \E cranker_token \in RewardAccounts :
                    \/ \E ev \in scores : SettleBet(cranker_token, bettor, nonce, ev)
                    \/ VoidBet(cranker_token, bettor, nonce)
      BY <3>2 DEF SettleBet, VoidBet, ReleaseAndReward, InState
    <3>3. CASE RefundCommit(bettor, nonce) \/ CloseBet(bettor, nonce)
      BY <3>3 DEF RefundCommit, CanRefund, CloseBet, InState
    <3> QED
      BY <1>3, <3>1, <3>2, <3>3
  <2>3. bets[slot] \in Bet /\ Exists(bets[slot])
    BY <1>1, <2>2, BetFact DEF IsBet
  <2>4. PICK b : /\ bets' = [bets EXCEPT ![slot] = b]
                 /\ Exists(b) => /\ b.commit_ts_ms = bets[slot].commit_ts_ms
                                 /\ b.target_ts_ms = bets[slot].target_ts_ms
    <3>1. CASE \E cranker_token \in RewardAccounts,
                  commit_print \in prints, target_print \in prints :
                    FillBet(cranker_token, bettor, nonce, commit_print, target_print)
      <4>1. PICK cranker_token \in RewardAccounts,
                 commit_print \in prints, target_print \in prints :
                    FillBet(cranker_token, bettor, nonce, commit_print, target_print)
        BY <3>1
      <4> DEFINE odds == FillOddsFor(bets[slot], commit_print, target_print)
                 filled == [bets[slot] EXCEPT !.fill_odds = odds,
                                !.fill_ts_ms = target_print.ts,
                                !.payout = payout(bets[slot].stake, odds),
                                !.keeper_rewards_remaining = @ - 1,
                                !.state = "Active"]
      <4>2. bets' = [bets EXCEPT ![slot] = filled]
        BY <4>1 DEF FillBet
      <4> HIDE DEF odds
      <4>3. /\ filled.commit_ts_ms = bets[slot].commit_ts_ms
            /\ filled.target_ts_ms = bets[slot].target_ts_ms
        BY <2>3 DEF Bet
      <4> QED
        BY <4>2, <4>3
    <3>2. CASE \E cranker_token \in RewardAccounts :
                    \/ \E ev \in scores : SettleBet(cranker_token, bettor, nonce, ev)
                    \/ VoidBet(cranker_token, bettor, nonce)
      <4>1. PICK cranker_token, paid, state :
                ReleaseAndReward(cranker_token, bettor, nonce, paid, state)
        BY <3>2 DEF SettleBet, VoidBet
      <4> DEFINE ended == [bets[slot] EXCEPT !.keeper_rewards_remaining = @ - 1,
                                             !.state = state]
      <4>2. bets' = [bets EXCEPT ![slot] = ended]
        BY <4>1 DEF ReleaseAndReward, ReleasePayments
      <4>3. /\ ended.commit_ts_ms = bets[slot].commit_ts_ms
            /\ ended.target_ts_ms = bets[slot].target_ts_ms
        BY <2>3 DEF Bet
      <4> QED
        BY <4>2, <4>3
    <3>3. CASE RefundCommit(bettor, nonce)
      <4> DEFINE ended == [bets[slot] EXCEPT !.state = "Refunded"]
      <4>1. bets' = [bets EXCEPT ![slot] = ended]
        BY <3>3 DEF RefundCommit, CanRefund
      <4>2. /\ ended.commit_ts_ms = bets[slot].commit_ts_ms
            /\ ended.target_ts_ms = bets[slot].target_ts_ms
        BY <2>3 DEF Bet
      <4> QED
        BY <4>1, <4>2
    <3>4. CASE CloseBet(bettor, nonce)
      BY <3>4 DEF CloseBet, Exists
    <3> QED
      BY <1>3, <3>1, <3>2, <3>3, <3>4
  <2>5. /\ bets'[slot] = b
        /\ \A other \in Slots : other # slot => bets'[other] = bets[other]
    BY <1>1, <2>1, <2>4 DEF TypeOK, Slots
  <2> HIDE DEF slot
  <2> QED
    BY <1>1, <2>1, <2>2, <2>3, <2>4, <2>5, TimesKept
<1> QED
  BY <1>2, <1>3, CommitTimed DEF BetNext

(* Every step of the program keeps what the keeper relies on; the config   *)
(* account is never closed.                                                *)
LEMMA NextChainInv ==
    ASSUME ChainInv, [Next]_vars
    PROVE  ChainInv' /\ (Exists(config) => Exists(config'))
<1>1. VaultInv' /\ TypeOK /\ BetsTimed
  BY NextVaultInv DEF ChainInv, VaultInv
<1>2. CASE AdminNext
  <2>1. ASSUME NEW p \in ConfigChoices, InitConfig(p) \/ UpdateConfig(p)
        PROVE  /\ config' = p /\ p # NoAccount
               /\ UNCHANGED <<bets, unix_timestamp>>
    BY <2>1, ConstantsAssumption, NoAccountAssumption DEF InitConfig, UpdateConfig
  <2>2. ASSUME NEW fe, NEW fee_bps, RegisterFrontend(fe, fee_bps)
        PROVE  UNCHANGED <<config, bets, unix_timestamp>>
    BY <2>2 DEF RegisterFrontend
  <2> QED
    BY <1>1, <1>2, <2>1, <2>2 DEF AdminNext, ChainInv, BetsTimed, WellTimed, Exists
<1>3. CASE HouseNext
  <2>1. UNCHANGED <<config, bets, unix_timestamp>>
    BY <1>3 DEF HouseNext, CreateHouse, UpdateHouseParams, SetPaused, SetHouseFilters,
                CloseExposure, Deposit, Withdraw
  <2> QED
    BY <1>1, <2>1 DEF ChainInv, BetsTimed, WellTimed, Exists
<1>4. CASE BetNext
  <2>1. ASSUME NEW cranker_token, NEW bettor, NEW nonce,
               \/ \E p, q : FillBet(cranker_token, bettor, nonce, p, q)
               \/ \E ev : SettleBet(cranker_token, bettor, nonce, ev)
               \/ VoidBet(cranker_token, bettor, nonce)
        PROVE  UNCHANGED <<config, unix_timestamp>>
    BY <2>1 DEF FillBet, CanFill, SettleBet, VoidBet, ReleaseAndReward, ReleasePayments
  <2>2. ASSUME NEW order, CommitBet(order)
        PROVE  UNCHANGED <<config, unix_timestamp>>
    BY <2>2 DEF CommitBet, CanCommit, Reservation, FrontendFeeOf, ProtocolFeeOf,
                EscrowTotal, CommittedBook
  <2>3. ASSUME NEW x, NEW y, \/ ProvePrint(x, y) \/ ClosePrint(x, y)
                             \/ RefundCommit(x, y) \/ CloseBet(x, y)
        PROVE  UNCHANGED <<config, unix_timestamp>>
    BY <2>3 DEF ProvePrint, ClosePrint, RefundCommit, CanRefund, CloseBet
  <2>4. UNCHANGED <<config, unix_timestamp>>
    BY <1>4, <2>1, <2>2, <2>3 DEF BetNext
  <2> QED
    BY <1>1, <1>4, <2>4, BetStepTimed DEF ChainInv, Exists
<1>5. CASE WorldNext
  <2>1. UNCHANGED <<config, bets>> /\ unix_timestamp' <= MaxTime
    BY <1>1, <1>5, ConstantsAssumption DEF WorldNext, Tick, PublishScore, ChainInv, TypeOK
  <2> QED
    BY <1>1, <2>1 DEF ChainInv, BetsTimed, WellTimed, Exists
<1>6. CASE UNCHANGED vars
  BY <1>1, <1>6 DEF vars, ChainInv, BetsTimed, WellTimed, Exists
<1> QED
  BY <1>2, <1>3, <1>4, <1>5, <1>6 DEF Next

(* On the empty chain there is nothing to rely on. *)
LEMMA InitChainInv == Init => ChainInv
<1> SUFFICES ASSUME Init
             PROVE  ChainInv
  OBVIOUS
<1>1. \A bn \in Slots : ~Exists(bets[bn])
  BY DEF Init, Slots, Exists
<1> QED
  BY <1>1, InitVaultInv, ConstantsAssumption DEF Init, ChainInv, BetsTimed, Exists

-----------------------------------------------------------------------------
(* What a tick holds *)

(* A snapshot's entry: a bet as it was when the tick listed it. *)
Seen == [publicKey : Slots, account : {bet \in Bet : WellTimed(bet)}]

WorkInv ==
    /\ step \notin {"idle", "fetched", "next"} => batch # <<>>
    /\ toProve \in Seq(Feed)
    /\ step = "send" => toProve # <<>>

KeeperInv ==
    /\ ChainInv
    /\ known \subseteq Slots
    /\ batch \in Seq(Seen)
    /\ batch # <<>> => Exists(config)
    /\ WorkInv

(* fetchBets lists bets that exist. *)
LEMMA FetchFact ==
    ASSUME KeeperInv, NEW count
    PROVE  /\ fetchBets(count) \subseteq Slots
           /\ \A bn \in fetchBets(count) : Exists(bets[bn])
<1>1. DOMAIN bets = Slots
  BY DEF KeeperInv, ChainInv, VaultInv, TypeOK, Slots
<1> QED
  BY <1>1 DEF fetchBets, KeeperInv

(* So does a snapshot of them. *)
LEMMA SnapshotFact ==
    ASSUME ChainInv, NEW found \in SUBSET Slots, \A bn \in found : Exists(bets[bn]),
           NEW list \in Snapshots(found)
    PROVE  list \in Seq(Seen) /\ (list # <<>> => Exists(config))
<1> DEFINE entry(bn) == [publicKey |-> bn, account |-> bets[bn]]
           S == {entry(bn) : bn \in found}
<1>1. IsFiniteSet(S)
  <2>1. IsFiniteSet(found)
    BY FiniteAssumption, FS_Subset DEF Slots
  <2> DEFINE f == [bn \in found |-> entry(bn)]
  <2>2. f \in Surjection(found, S)
    BY DEF Surjection
  <2> QED
    BY <2>1, <2>2, FS_Surjection
<1>2. Cardinality(S) \in Nat
  BY <1>1, FS_CardinalityType
<1>3. list \in [1..Cardinality(S) -> S]
  BY DEF Snapshots, SetToSeqs
<1>4. S \subseteq Seen
  BY DEF ChainInv, VaultInv, TypeOK, BetsTimed, Slots, Exists, Seen
<1>5. S # {} => Exists(config)
  BY DEF ChainInv, BetsTimed
<1> HIDE DEF S
<1>6. list \in Seq(S)
  BY <1>2, <1>3
<1>7. list # <<>> => S # {}
  BY <1>6
<1> QED
  BY <1>4, <1>5, <1>6, <1>7

(* The bet a tick looks at. *)
LEMMA HeadFact ==
    ASSUME KeeperInv, batch # <<>>
    PROVE  /\ pda \in Slots /\ pda = <<pda[1], pda[2]>>
           /\ pda[1] \in Bettors /\ pda[2] \in Nonces
           /\ account \in Bet /\ WellTimed(account)
           /\ Tail(batch) \in Seq(Seen)
<1>1. Head(batch) \in Seen /\ Tail(batch) \in Seq(Seen)
  BY DEF KeeperInv
<1> QED
  BY <1>1 DEF Seen, pda, account, Slots

-----------------------------------------------------------------------------
(* Every step of the keeper is a step of the program or leaves it alone *)

LEMMA KeeperStepIsNext ==
    ASSUME KeeperInv, KeeperCranks, KeeperNext
    PROVE  [Next]_vars
<1>1. CASE Elsewhere
  BY <1>1 DEF Elsewhere
<1>2. CASE KeeperFailure
  BY <1>2 DEF KeeperFailure, ProofsMissing, ScoresMissing, FetchFails, RequestFails,
              ColdStart, vars
<1>3. CASE StartTick \/ ReadClock \/ EndTick \/ Skip \/ TryFill \/ GetProofs
           \/ CheckPrint \/ TrySettle
  BY <1>3 DEF StartTick, ReadClock, EndTick, Skip, TryFill, GetProofs, CheckPrint,
              TrySettle, Reads, vars
<1>4. CASE SendProvePrint
  <2>1. Head(toProve) \in Feed
    BY <1>4 DEF SendProvePrint, KeeperInv, WorkInv
  <2>2. ProvePrint(Self, Head(toProve)) \/ UNCHANGED vars
    BY <1>4 DEF SendProvePrint
  <2> QED
    BY <2>1, <2>2 DEF KeeperCranks, Next, BetNext
<1>5. CASE SendFill
  <2>1. pda[1] \in Bettors /\ pda[2] \in Nonces
    BY <1>5, HeadFact DEF SendFill, KeeperInv, WorkInv
  <2>2. Fill \/ UNCHANGED vars
    BY <1>5 DEF SendFill
  <2>3. Fill => \E commit_print \in prints, target_print \in prints :
            FillBet(Self, pda[1], pda[2], commit_print, target_print)
    BY DEF Fill, PrintsOf
  <2> QED
    BY <2>1, <2>2, <2>3 DEF KeeperCranks, Next, BetNext
<1>6. CASE TryRefund
  <2>1. pda[1] \in Bettors /\ pda[2] \in Nonces
    BY <1>6, HeadFact DEF TryRefund, KeeperInv, WorkInv
  <2>2. RefundCommit(pda[1], pda[2]) \/ UNCHANGED vars
    BY <1>6 DEF TryRefund
  <2> QED
    BY <2>1, <2>2 DEF Next, BetNext
<1>7. CASE SendSettle
  <2>1. pda[1] \in Bettors /\ pda[2] \in Nonces
    BY <1>7, HeadFact DEF SendSettle, KeeperInv, WorkInv
  <2>2. Settle \/ UNCHANGED vars
    BY <1>7 DEF SendSettle
  <2>3. Settle => \E ev \in scores : SettleBet(Self, pda[1], pda[2], ev)
    BY DEF Settle, Finalised
  <2> QED
    BY <2>1, <2>2, <2>3 DEF KeeperCranks, Next, BetNext
<1> QED
  BY <1>1, <1>2, <1>3, <1>4, <1>5, <1>6, <1>7 DEF KeeperNext, KeeperStep

-----------------------------------------------------------------------------
(* Picking the prints *)

(* The latest of some records up to a time is one of them. *)
LEMMA LatestFact ==
    ASSUME NEW R \in SUBSET Odds, R # {}, NEW hi \in Int, \A r \in R : r.ts <= hi
    PROVE  Latest(R) \in R
<1> DEFINE N == {hi - r.ts : r \in R}
<1>1. N \in SUBSET Nat /\ N # {}
  BY DEF Odds
<1>2. PICK m \in N : \A n \in N : m <= n
  <2> HIDE DEF N
  <2> QED
    BY <1>1, LeastNatural
<1>3. PICK r \in R : m = hi - r.ts
  OBVIOUS
<1>4. ASSUME NEW q \in R
      PROVE  q.ts <= r.ts
  <2>1. m <= hi - q.ts
    BY <1>2
  <2>2. q.ts \in Int /\ r.ts \in Int
    BY DEF Odds
  <2> QED
    BY <1>3, <2>1, <2>2
<1> QED
  BY <1>4 DEF Latest

(* So is the earliest of some records from a time on. *)
LEMMA EarliestFact ==
    ASSUME NEW R \in SUBSET Odds, R # {}, NEW lo \in Int, \A r \in R : lo <= r.ts
    PROVE  Earliest(R) \in R
<1> DEFINE N == {r.ts - lo : r \in R}
<1>1. N \in SUBSET Nat /\ N # {}
  BY DEF Odds
<1>2. PICK m \in N : \A n \in N : m <= n
  <2> HIDE DEF N
  <2> QED
    BY <1>1, LeastNatural
<1>3. PICK r \in R : m = r.ts - lo
  OBVIOUS
<1>4. ASSUME NEW q \in R
      PROVE  q.ts >= r.ts
  <2>1. m <= q.ts - lo
    BY <1>2
  <2>2. q.ts \in Int /\ r.ts \in Int
    BY DEF Odds
  <2> QED
    BY <1>3, <2>1, <2>2
<1> QED
  BY <1>4 DEF Earliest

(* The commit print comes from the commit window; the target print from    *)
(* the target window, or, when that is empty and the grace over, is the    *)
(* commit print.                                                           *)
Pick(bet, picked) ==
    /\ picked.commit \in CommitRecords(bet)
    /\ \/ picked.target \in TargetRecords(bet, picked.commit)
       \/ /\ picked.target = picked.commit
          /\ TargetRecords(bet, picked.commit) = {}
          /\ GraceOver(bet)

LEMMA PickFact ==
    ASSUME NEW bet \in Bet, NEW picked \in pickPrints(bet)
    PROVE  Pick(bet, picked)
<1> DEFINE C == CommitRecords(bet)
           commit == Latest(C)
           T == TargetRecords(bet, commit)
<1>1. C # {}
  BY DEF pickPrints
<1>2. commit \in C
  <2>1. C \in SUBSET Odds /\ \A r \in C : r.ts <= bet.commit_ts_ms
    BY ConstantsAssumption DEF CommitRecords, oddsUpdates
  <2>2. bet.commit_ts_ms \in Int
    BY DEF Bet
  <2> HIDE DEF C
  <2> QED
    BY <1>1, <2>1, <2>2, LatestFact
<1>3. CASE T # {}
  <2>1. Earliest(T) \in T
    <3>1. T \in SUBSET Odds /\ \A r \in T : bet.target_ts_ms <= r.ts
      BY ConstantsAssumption DEF TargetRecords, oddsUpdates
    <3>2. bet.target_ts_ms \in Int
      BY DEF Bet
    <3> HIDE DEF T
    <3> QED
      BY <1>3, <3>1, <3>2, EarliestFact
  <2>2. picked = [commit |-> commit, target |-> Earliest(T)]
    BY <1>1, <1>3 DEF pickPrints
  <2> HIDE DEF C, T, commit
  <2>3. picked.commit = commit /\ picked.target = Earliest(T)
    BY <2>2
  <2> QED
    BY <1>2, <2>1, <2>3 DEF Pick, C, T
<1>4. CASE T = {}
  <2>1. GraceOver(bet) /\ picked = [commit |-> commit, target |-> commit]
    BY <1>1, <1>4 DEF pickPrints
  <2> HIDE DEF C, T, commit
  <2>2. picked.commit = commit /\ picked.target = commit
    BY <2>1
  <2> QED
    BY <1>2, <1>4, <2>1, <2>2 DEF Pick, C, T
<1> QED
  BY <1>3, <1>4

(* Its times, in the keeper's own windows. *)
InKeeperWindows(bet, picked) ==
    /\ picked.commit \in Feed /\ picked.target \in Feed
    /\ bet.commit_ts_ms - COMMIT_LOOKBACK_MS <= picked.commit.ts
    /\ picked.commit.ts <= bet.commit_ts_ms
    /\ \/ picked.target = picked.commit
       \/ /\ picked.commit.ts < picked.target.ts
          /\ picked.target.ts <= bet.target_ts_ms + FILL_TOLERANCE_MS

LEMMA PickInWindows ==
    ASSUME NEW bet \in Bet, NEW picked \in pickPrints(bet)
    PROVE  InKeeperWindows(bet, picked)
  BY PickFact DEF Pick, CommitRecords, TargetRecords, oddsUpdates, InKeeperWindows

(* The windows of the keeper are inside those of any config on offer. *)
LEMMA MirroredFit ==
    ASSUME WindowsMirrored, Exists(config), config \in ConfigChoices,
           NEW bet \in Bet, WellTimed(bet), NEW picked, InKeeperWindows(bet, picked)
    PROVE  InCommitWindow(bet, picked.commit)
           /\ InTargetWindow(bet, picked.commit, picked.target)
<1>1. PICK d \in ConfigChoices : bet.target_ts_ms = bet.commit_ts_ms + d.commit_delay_ms
  BY DEF WellTimed
<1>2. /\ config \in ConfigParams /\ d \in ConfigParams
      /\ picked.commit \in Odds /\ picked.target \in Odds
  BY ConstantsAssumption DEF InKeeperWindows
<1>3. /\ {config.staleness_window_ms, config.fill_tolerance_ms, d.commit_delay_ms,
          bet.commit_ts_ms, bet.target_ts_ms, picked.commit.ts, picked.target.ts,
          MaxTime, MaxI64} \subseteq Int
      /\ COMMIT_LOOKBACK_MS \in Nat /\ FILL_TOLERANCE_MS \in Nat
  BY <1>2, ConstantsAssumption, KeeperAssumption DEF ConfigParams, Bet, Odds
<1>4. /\ COMMIT_LOOKBACK_MS <= config.staleness_window_ms
      /\ FILL_TOLERANCE_MS <= config.fill_tolerance_ms
      /\ d.commit_delay_ms > 0
      /\ MaxTime * 1000 + d.commit_delay_ms + config.fill_tolerance_ms <= MaxI64
      /\ bet.commit_ts_ms <= MaxTime * 1000
  BY DEF WindowsMirrored, WellTimed
<1>5. /\ bet.commit_ts_ms - COMMIT_LOOKBACK_MS <= picked.commit.ts
      /\ picked.commit.ts <= bet.commit_ts_ms
      /\ \/ picked.target.ts = picked.commit.ts
         \/ /\ picked.commit.ts < picked.target.ts
            /\ picked.target.ts <= bet.target_ts_ms + FILL_TOLERANCE_MS
  BY DEF InKeeperWindows
<1>6. InCommitWindow(bet, picked.commit)
  BY <1>3, <1>4, <1>5 DEF InCommitWindow
<1>7. /\ picked.target.ts >= picked.commit.ts
      /\ bet.target_ts_ms + config.fill_tolerance_ms <= MaxI64
      /\ picked.target.ts <= bet.target_ts_ms + config.fill_tolerance_ms
  BY <1>1, <1>3, <1>4, <1>5
<1> QED
  BY <1>6, <1>7 DEF InTargetWindow

(* A fallback means that no pre-match record came before the grace ended:  *)
(* by then all of those are published, and the keeper looked at them.      *)
Lull(bet) ==
    ~\E r \in Feed :
        /\ r.fixture_id = bet.fixture_id
        /\ check_1x2_record(r)
        /\ bet.target_ts_ms <= r.ts
        /\ r.ts < bet.target_ts_ms + FRESH_GRACE_MS

LEMMA FallbackInLull ==
    ASSUME WindowsMirrored, unix_timestamp \in Nat,
           NEW bet \in Bet, WellTimed(bet), NEW picked, Pick(bet, picked),
           picked.commit = picked.target
    PROVE  Lull(bet)
<1> SUFFICES ASSUME NEW r \in Feed, r.fixture_id = bet.fixture_id, check_1x2_record(r),
                    bet.target_ts_ms <= r.ts, r.ts < bet.target_ts_ms + FRESH_GRACE_MS
             PROVE  FALSE
  BY DEF Lull
<1>1. PICK d \in ConfigChoices : bet.target_ts_ms = bet.commit_ts_ms + d.commit_delay_ms
  BY DEF WellTimed
<1>2. /\ {r.ts, picked.commit.ts, bet.commit_ts_ms, bet.target_ts_ms,
          d.commit_delay_ms, now_ms} \subseteq Int
      /\ FRESH_GRACE_MS \in Nat /\ FILL_TOLERANCE_MS \in Nat
      /\ picked.commit.ts <= bet.commit_ts_ms
  <2>1. picked.commit \in Feed /\ picked.commit.ts <= bet.commit_ts_ms
    BY DEF Pick, CommitRecords, oddsUpdates
  <2>2. d \in ConfigParams /\ r \in Odds /\ picked.commit \in Odds
    BY <2>1, ConstantsAssumption
  <2> QED
    BY <2>1, <2>2, KeeperAssumption DEF ConfigParams, Bet, Odds, now_ms
<1>3. d.commit_delay_ms > 0 /\ FRESH_GRACE_MS <= FILL_TOLERANCE_MS
  BY DEF WindowsMirrored
<1>4. picked.commit.ts < r.ts /\ r.ts <= bet.target_ts_ms + FILL_TOLERANCE_MS
  BY <1>1, <1>2, <1>3
<1>5. picked.target \notin TargetRecords(bet, picked.commit)
  BY <1>2 DEF TargetRecords
<1>6. GraceOver(bet) /\ TargetRecords(bet, picked.commit) = {}
  BY <1>5 DEF Pick
<1>7. Published(r)
  BY <1>2, <1>6 DEF GraceOver, Published
<1>8. r \in TargetRecords(bet, picked.commit)
  BY <1>4, <1>7 DEF TargetRecords, oddsUpdates
<1> QED
  BY <1>6, <1>8

-----------------------------------------------------------------------------
(* The keeper's invariant *)

(* The tail of a batch, and what leaves batch and toProve alone, is fine. *)
LEMMA WorkKept ==
    ASSUME KeeperInv, ChainInv', Exists(config) => Exists(config'), known' \subseteq Slots,
           \/ batch' = batch \/ batch' = <<>> \/ (batch # <<>> /\ batch' = Tail(batch)),
           WorkInv'
    PROVE  KeeperInv'
<1>1. batch # <<>> => Tail(batch) \in Seq(Seen)
  BY HeadFact
<1>2. <<>> \in Seq(Seen) /\ batch \in Seq(Seen)
  BY DEF KeeperInv
<1>3. batch' \in Seq(Seen) /\ (batch' # <<>> => batch # <<>>)
  BY <1>1, <1>2
<1> QED
  BY <1>3 DEF KeeperInv

LEMMA KeeperVarsKept ==
    ASSUME KeeperInv, ChainInv', Exists(config) => Exists(config'), UNCHANGED keeperVars
    PROVE  KeeperInv'
<1>1. UNCHANGED <<known, batch, step, toProve>>
  BY DEF keeperVars, tickVars
<1> QED
  BY <1>1, WorkKept DEF KeeperInv, WorkInv

(* The steps of a tick. *)
LEMMA TickKeeps ==
    ASSUME KeeperInv, ChainInv', Exists(config) => Exists(config'),
           KeeperStep \/ KeeperFailure
    PROVE  KeeperInv'
<1>1. /\ known \subseteq Slots /\ toProve \in Seq(Feed) /\ <<>> \in Seq(Feed)
      /\ step = "send" => toProve # <<>>
      /\ step \notin {"idle", "fetched", "next"} => batch # <<>>
  BY DEF KeeperInv, WorkInv
<1>2. CASE StartTick
  <2>1. /\ known' = fetchBets(tickCount') /\ batch' \in Snapshots(known')
        /\ step' = "fetched" /\ toProve' = toProve
    BY <1>2 DEF StartTick
  <2>2. known' \subseteq Slots /\ \A bn \in known' : Exists(bets[bn])
    BY <2>1, FetchFact
  <2>3. batch' \in Seq(Seen) /\ (batch' # <<>> => Exists(config))
    BY <2>1, <2>2, SnapshotFact DEF KeeperInv
  <2> QED
    BY <1>1, <2>1, <2>2, <2>3 DEF KeeperInv, WorkInv
<1>3. CASE \/ ReadClock \/ EndTick \/ Skip \/ GetProofs \/ ProofsMissing
           \/ TrySettle \/ ScoresMissing \/ FetchFails \/ RequestFails \/ ColdStart
  <2>1. /\ known' \subseteq Slots
        /\ \/ batch' = batch \/ batch' = <<>> \/ (batch # <<>> /\ batch' = Tail(batch))
    BY <1>1, <1>3
    DEF ReadClock, EndTick, Skip, GetProofs, ProofsMissing, TrySettle, ScoresMissing,
        FetchFails, RequestFails, ColdStart, Reads, Keeps, Goto, NextBet, Return,
        Unfilled, tickVars
  <2>2. WorkInv'
    BY <1>1, <1>3
    DEF ReadClock, EndTick, Skip, GetProofs, ProofsMissing, TrySettle, ScoresMissing,
        FetchFails, RequestFails, ColdStart, Reads, Keeps, Goto, NextBet, Return,
        Unfilled, tickVars, WorkInv
  <2> QED
    BY <2>1, <2>2, WorkKept
<1>4. CASE TryFill
  <2>1. CASE Unfilled
    BY <1>1, <1>4, <2>1, WorkKept DEF TryFill, Unfilled, Goto, NextBet, Reads, Keeps, WorkInv
  <2>2. CASE \E picked \in pickPrints(account) :
            /\ toProve' = IF picked.commit = picked.target
                          THEN <<picked.commit>>
                          ELSE <<picked.commit, picked.target>>
            /\ step' = "proofs"
            /\ UNCHANGED <<batch, nowMs>>
    <3>1. PICK picked \in pickPrints(account) :
            /\ toProve' = IF picked.commit = picked.target
                          THEN <<picked.commit>>
                          ELSE <<picked.commit, picked.target>>
            /\ step' = "proofs"
            /\ UNCHANGED <<batch, nowMs>>
      BY <2>2
    <3>2. batch # <<>> /\ UNCHANGED known
      BY <1>4 DEF TryFill, Reads, Keeps
    <3>3. picked.commit \in Feed /\ picked.target \in Feed
      BY <3>2, HeadFact, PickInWindows DEF InKeeperWindows
    <3>4. toProve' \in Seq(Feed)
      BY <3>1, <3>3
    <3> QED
      BY <1>1, <3>1, <3>2, <3>4, WorkKept DEF WorkInv
  <2> QED
    BY <1>4, <2>1, <2>2 DEF TryFill
<1>5. CASE CheckPrint
  <2>1. /\ step = "check" /\ UNCHANGED <<known, batch>>
        /\ \/ toProve = <<>> /\ step' = "fill" /\ toProve' = toProve
           \/ toProve # <<>> /\ step' = "check" /\ toProve' = Tail(toProve)
           \/ toProve # <<>> /\ step' = "send" /\ toProve' = toProve
    BY <1>5 DEF CheckPrint, Goto, Reads, Keeps
  <2> QED
    BY <1>1, <2>1, WorkKept DEF WorkInv
<1>6. CASE SendProvePrint
  <2>1. /\ step = "send" /\ UNCHANGED known
        /\ \/ step' = "check" /\ toProve' = Tail(toProve) /\ batch' = batch
           \/ step' = "idle" /\ toProve' = <<>> /\ batch' = <<>>
    BY <1>6 DEF SendProvePrint, Return, Keeps
  <2>2. Tail(toProve) \in Seq(Feed)
    BY <1>1, <2>1
  <2>3. WorkInv'
    BY <1>1, <2>1, <2>2 DEF WorkInv
  <2> QED
    BY <1>1, <2>1, <2>3, WorkKept
<1>7. CASE SendFill \/ TryRefund \/ SendSettle
  <2>1. /\ step \in {"fill", "refund", "settle"} /\ UNCHANGED known
        /\ toProve' = <<>>
        /\ \/ step' = "next" /\ batch' = Tail(batch)
           \/ step' = "idle" /\ batch' = <<>>
    BY <1>7 DEF SendFill, TryRefund, SendSettle, NextBet, Return, Keeps
  <2> QED
    BY <1>1, <2>1, WorkKept DEF WorkInv
<1> QED
  BY <1>2, <1>3, <1>4, <1>5, <1>6, <1>7 DEF KeeperStep, KeeperFailure

LEMMA NextKeeperInv ==
    ASSUME KeeperInv, KeeperCranks, [KeeperNext]_allVars
    PROVE  KeeperInv' /\ [Next]_vars
<1>1. CASE UNCHANGED allVars
  <2>1. UNCHANGED vars /\ UNCHANGED keeperVars
    BY <1>1 DEF allVars
  <2> QED
    BY <2>1, NextChainInv, KeeperVarsKept DEF KeeperInv
<1>2. CASE KeeperNext
  <2>1. [Next]_vars
    BY <1>2, KeeperStepIsNext
  <2>2. ChainInv' /\ (Exists(config) => Exists(config'))
    BY <2>1, NextChainInv DEF KeeperInv
  <2> QED
    BY <1>2, <2>1, <2>2, TickKeeps, KeeperVarsKept DEF KeeperNext, Elsewhere
<1> QED
  BY <1>1, <1>2

LEMMA InitKeeperInv == Init /\ KeeperInit => KeeperInv
  BY InitChainInv DEF KeeperInit, KeeperInv, WorkInv

(* While a tick carries two prints, they were picked for the bet it is at. *)
PickInv ==
    Picked => /\ InKeeperWindows(account, choice)
              /\ choice.commit = choice.target => Lull(account)

LEMMA NextPickInv ==
    ASSUME KeeperInv, WindowsMirrored, PickInv, [KeeperNext]_allVars
    PROVE  PickInv'
<1> SUFFICES ASSUME Picked'
             PROVE  /\ InKeeperWindows(account', choice')
                    /\ choice'.commit = choice'.target => Lull(account')
  BY DEF PickInv, InKeeperWindows, Lull
<1>1. CASE Picked /\ batch' = batch /\ choice' = choice
  BY <1>1 DEF PickInv, account
<1>2. CASE TryFill /\ step' = "proofs"
  <2>1. PICK picked \in pickPrints(account) : choice' = picked /\ batch' = batch
    BY <1>2 DEF TryFill, Unfilled, Goto, NextBet
  <2>2. account \in Bet /\ WellTimed(account) /\ account' = account
    BY <1>2, <2>1, HeadFact DEF TryFill, account
  <2>3. unix_timestamp \in Nat
    BY DEF KeeperInv, ChainInv, VaultInv, TypeOK
  <2> QED
    BY <2>1, <2>2, <2>3, PickFact, PickInWindows, FallbackInLull
<1>3. (Picked /\ batch' = batch /\ choice' = choice) \/ (TryFill /\ step' = "proofs")
  <2>1. step' \in {"proofs", "check", "send", "fill"}
    BY DEF Picked
  <2>2. CASE UNCHANGED keeperVars
    BY <2>1, <2>2 DEF keeperVars, tickVars, Picked
  <2>3. CASE KeeperFailure
    BY <2>1, <2>3 DEF KeeperFailure, ProofsMissing, ScoresMissing, FetchFails,
                      RequestFails, ColdStart, Unfilled, Goto, NextBet, Return,
                      tickVars, Picked
  <2>4. CASE StartTick \/ ReadClock \/ EndTick \/ Skip \/ TrySettle
    BY <2>1, <2>4 DEF StartTick, ReadClock, EndTick, Skip, TrySettle, Goto, NextBet,
                      Return
  <2>5. CASE GetProofs \/ CheckPrint \/ SendProvePrint
    BY <2>1, <2>5 DEF GetProofs, CheckPrint, SendProvePrint, Goto, Return, Picked
  <2>6. CASE SendFill \/ TryRefund \/ SendSettle
    BY <2>1, <2>6 DEF SendFill, TryRefund, SendSettle, NextBet, Return
  <2>7. CASE TryFill
    BY <2>1, <2>7 DEF TryFill, Unfilled, Goto, NextBet
  <2> QED
    BY <2>2, <2>3, <2>4, <2>5, <2>6, <2>7
    DEF KeeperNext, KeeperStep, Elsewhere, allVars
<1> QED
  BY <1>1, <1>2, <1>3

-----------------------------------------------------------------------------
(* Theorems *)

(* Whatever a tick holds when others act, fail or race it, it is a list of *)
(* bets as they once were and of oracle records still to be proven.        *)
THEOREM KeeperInvHolds ==
    ASSUME KeeperCranks
    PROVE  KeeperSpec => []KeeperInv
<1>1. KeeperInv /\ [KeeperNext]_allVars => KeeperInv'
  BY NextKeeperInv
<1> QED
  BY <1>1, InitKeeperInv, PTL DEF KeeperSpec

(* The keeper is one more cranker: whatever it does, the program sees a    *)
(* behaviour of its own specification, so every theorem about the program  *)
(* holds beside the keeper.                                                *)
THEOREM KeeperIsACranker ==
    ASSUME KeeperCranks
    PROVE  KeeperSpec => Spec
<1>1. KeeperInv /\ [KeeperNext]_allVars => [Next]_vars
  BY NextKeeperInv
<1> QED
  BY <1>1, KeeperInvHolds, PTL DEF KeeperSpec, Spec

(* With windows that mirror the config's, what was picked stays what the   *)
(* keeper's windows and the feed's silence justify.                        *)
LEMMA PickInvHolds ==
    ASSUME KeeperCranks, WindowsMirrored
    PROVE  KeeperSpec => []PickInv
<1>1. KeeperInit => PickInv
  BY DEF KeeperInit, PickInv, Picked
<1>2. KeeperInv /\ PickInv /\ [KeeperNext]_allVars => PickInv'
  BY NextPickInv
<1> QED
  BY <1>1, <1>2, KeeperInvHolds, PTL DEF KeeperSpec

(* So the prints a tick carries fit the windows of fill_bet from picking   *)
(* to filling, whatever the admin makes of the config and the world of the *)
(* bet meanwhile.                                                          *)
THEOREM PicksAlwaysFit ==
    ASSUME KeeperCranks, WindowsMirrored
    PROVE  KeeperSpec => []PicksFitWindows
<1>1. KeeperInv /\ PickInv => PicksFitWindows
  <2> SUFFICES ASSUME KeeperInv, PickInv, Picked
               PROVE  /\ InCommitWindow(account, choice.commit)
                      /\ InTargetWindow(account, choice.commit, choice.target)
    BY DEF PicksFitWindows
  <2>1. batch # <<>>
    BY DEF Picked, KeeperInv, WorkInv
  <2> QED
    BY <2>1, HeadFact, MirroredFit DEF PickInv, KeeperInv, ChainInv
<1> QED
  BY <1>1, KeeperInvHolds, PickInvHolds, PTL

(* And it fills at the commit price alone only if the oracle published no  *)
(* pre-match record between the target time and the end of the grace.      *)
THEOREM FallsBackOnlyAfterLull ==
    ASSUME KeeperCranks, WindowsMirrored
    PROVE  KeeperSpec => []FallsBackOnlyInLull
<1>1. PickInv => FallsBackOnlyInLull
  BY DEF PickInv, FallsBackOnlyInLull, Lull
<1> QED
  BY <1>1, PickInvHolds, PTL

=============================================================================
