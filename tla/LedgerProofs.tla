---------------------------- MODULE LedgerProofs ----------------------------
(***************************************************************************)
(* The program implements the ledger of BetLedger: every step of it is one *)
(* step of the ledger or changes nothing a bettor sees.                    *)
(***************************************************************************)
EXTENDS EscrowProofs, BetLedgerRefinement

(* Configs, fees and caps in force are among those that may be chosen.     *)
ParamsChosen ==
    /\ Exists(config) => config \in ConfigChoices
    /\ \A fe \in Frontends :
            Exists(frontends[fe]) => frontends[fe].fee_bps \in FrontendFees
    /\ \A h \in Houses : Exists(houses[h]) => houses[h].params \in HouseChoices

LedgerInv == EscrowInv /\ ParamsChosen

(* The admin may change every parameter but keeper_reward: a slip's cost   *)
(* counts the rewards it was placed with, a refund the current ones.       *)
RewardKept == Exists(config) => config'.keeper_reward = config.keeper_reward

-----------------------------------------------------------------------------
(* The refinement mapping *)

Slip == [terms : [stake : Nat, cost : Nat, most : Nat], prize : Nat, state : BetState]

(* A bet's slip is a slip, and carries the bet's state. *)
LEMMA SlipFact ==
    ASSUME NEW bet \in Bet, config \in ConfigParams
    PROVE  /\ SlipOf(bet) = [terms |-> TermsOf(bet), prize |-> bet.payout,
                             state |-> bet.state]
           /\ SlipOf(bet) \in Slip
           /\ SlipOf(bet) # NoAccount
           /\ SlipOf(bet).state = bet.state
           /\ SlipOf(bet).terms = TermsOf(bet)
           /\ SlipOf(bet).prize = bet.payout
<1>1. Exists(bet)
  BY NoAccountAssumption DEF Exists
<1>2. SlipOf(bet) = [terms |-> TermsOf(bet), prize |-> bet.payout, state |-> bet.state]
  BY <1>1 DEF SlipOf
<1>3. TermsOf(bet) \in [stake : Nat, cost : Nat, most : Nat]
  <2>1. /\ bet.stake \in Nat /\ bet.frontend_fee \in Nat /\ bet.protocol_fee \in Nat
        /\ bet.reserved \in Nat /\ config.keeper_reward \in Nat
    BY ConstantsAssumption DEF Bet, U64, ConfigParams
  <2>2. KeeperEscrow \in Nat
    BY <2>1 DEF KeeperEscrow, KEEPER_CRANKS
  <2> QED
    BY <2>1, <2>2 DEF TermsOf
<1>4. bet.payout \in Nat /\ bet.state \in BetState
  BY DEF Bet
<1>5. SlipOf(bet) \in Slip
  BY <1>2, <1>3, <1>4 DEF Slip
<1>6. SlipOf(bet) # NoAccount
  BY <1>5, NoSlipAssumption DEF Slip
<1> QED
  BY <1>2, <1>5, <1>6

(* When one bet changes, so does its slip, and no other. *)
LEMMA SlipsAfter ==
    ASSUME TypeOK, config' = config, NEW bn \in Slots, NEW b,
           bets' = [bets EXCEPT ![bn] = b]
    PROVE  /\ SlipsNow' = [SlipsNow EXCEPT ![bn] = SlipOf(b)]
           /\ SlipsNow[bn] = SlipOf(bets[bn])
<1>1. \A o \in Slots : bets'[o] = IF o = bn THEN b ELSE bets[o]
  BY DEF TypeOK, Slots
<1>2. \A o \in Slots : SlipOf(bets[o])' = SlipOf(bets'[o])
  BY DEF SlipOf, TermsOf, KeeperEscrow, Exists
<1>3. SlipsNow' = [o \in Slots |-> IF o = bn THEN SlipOf(b) ELSE SlipOf(bets[o])]
  BY <1>1, <1>2 DEF SlipsNow, Slots
<1>4. SlipsNow = [o \in Slots |-> SlipOf(bets[o])]
  BY DEF SlipsNow, Slots
<1> HIDE DEF SlipsNow
<1> QED
  BY <1>3, <1>4

(* Where bets and the reward stay, so do the slips. *)
LEMMA SlipsKept ==
    ASSUME bets' = bets,
           \A bn \in Slots : Exists(bets[bn]) =>
                config'.keeper_reward = config.keeper_reward
    PROVE  SlipsNow' = SlipsNow
<1>1. ASSUME NEW bn \in Slots
      PROVE  SlipOf(bets[bn])' = SlipOf(bets[bn])
  BY DEF SlipOf, TermsOf, KeeperEscrow, Exists
<1> QED
  BY <1>1 DEF SlipsNow, Slots

(* Where the balances of bettors stay, so do their wallets. *)
LEMMA WalletKept ==
    ASSUME \A u \in Bettors : token'[u] = token[u]
    PROVE  WalletNow' = WalletNow
  BY DEF WalletNow

(* A wallet holds a natural number of tokens. *)
LEMMA WalletType ==
    ASSUME TypeOK
    PROVE  /\ WalletNow \in [Bettors -> Nat]
           /\ \A u \in Bettors : WalletNow[u] = token[u]
  BY AccountsFact DEF WalletNow, TypeOK

(* One bettor's balance changes by one amount. *)
LEMMA WalletPaid ==
    ASSUME NEW bettor \in Bettors, NEW amount \in Int,
           \A u \in Bettors : token'[u] = IF u = bettor THEN token[u] + amount ELSE token[u]
    PROVE  Ledger!Paid(bettor, amount)
<1>1. WalletNow' = [u \in Bettors |-> IF u = bettor THEN token[u] + amount ELSE token[u]]
  BY DEF WalletNow
<1>2. WalletNow = [u \in Bettors |-> token[u]]
  BY DEF WalletNow
<1> HIDE DEF WalletNow
<1>3. WalletNow' = [WalletNow EXCEPT ![bettor] = @ + amount]
  BY <1>1, <1>2
<1> QED
  BY <1>3 DEF Ledger!Paid

(* A crank pays its bettor, and the account its cranker names the reward,  *)
(* whether or not that is the wallet of one who bets.                      *)
LEMMA WalletCranked ==
    ASSUME TypeOK, NEW bettor \in Bettors, NEW amount \in Nat, NEW cranker_token \in RewardAccounts,
           NEW wage \in CrankWages, wage \in Nat,
           \A u \in Bettors : token'[u] = token[u] + (IF u = bettor THEN amount ELSE 0)
                                                   + (IF u = cranker_token THEN wage ELSE 0)
    PROVE  Ledger!Cranked(bettor, amount)
<1> DEFINE After(c, w) ==
        [u \in Bettors |-> WalletNow[u] + (IF u = bettor THEN amount ELSE 0)
                                        + (IF u = c THEN w ELSE 0)]
<1>1. WalletNow' = [u \in Bettors |-> token'[u]]
  BY DEF WalletNow
<1>2. \A u \in Bettors : WalletNow[u] = token[u] /\ token[u] \in Nat
  BY WalletType DEF WalletNow
<1>3. 0 \in CrankWages
  BY DEF CrankWages
<1> HIDE DEF WalletNow
<1>4. CASE cranker_token \in Bettors
  <2>1. WalletNow' = After(cranker_token, wage)
    BY <1>1, <1>2
  <2> QED
    BY <1>4, <2>1 DEF Ledger!Cranked
<1>5. CASE cranker_token \notin Bettors
  <2>1. WalletNow' = After(bettor, 0)
    BY <1>1, <1>2, <1>5
  <2> QED
    BY <1>3, <2>1 DEF Ledger!Cranked
<1> QED
  BY <1>4, <1>5

-----------------------------------------------------------------------------
(* One lemma per instruction that a bettor sees *)

LedgerMoves == Ledger!LedgerNext

(* commit_bet places a slip at one of the terms on offer. *)
LEMMA CommitPlaces ==
    ASSUME TypeOK, ParamsChosen, NEW order \in Orders, CommitBet(order)
    PROVE  LedgerMoves
<1> DEFINE bn == <<order.bettor, order.nonce>>
           p == houses[order.house].params
           reservation == reserved(order.stake, p.odds_cap)
           fee_bps == frontends[order.frontend].fee_bps
           frontend_fee == TruncatedFee(order.stake, fee_bps)
           protocol_fee == TruncatedFee(order.stake, config.protocol_fee_bps)
           escrow_total == order.stake + frontend_fee + protocol_fee + KeeperEscrow
           bet == NewBet(order, reservation, frontend_fee, protocol_fee)
           terms == TermsOf(bet)
<1>1. /\ Exists(config) /\ Exists(frontends[order.frontend])
      /\ Exists(houses[order.house])
      /\ ~Exists(bets[bn])
      /\ escrow_total \in U64
      /\ token[order.bettor] >= escrow_total
      /\ token' = Moved(token, order.bettor, Escrow, escrow_total)
      /\ bets' = [bets EXCEPT ![bn] = bet]
      /\ UNCHANGED <<config, frontends>>
  BY DEF CommitBet, CanCommit, Reservation, FrontendFeeOf, ProtocolFeeOf, EscrowTotal, IsBet
<1>2. /\ bn \in Slots /\ order.bettor \in Bettors /\ order.nonce \in Nonces
      /\ order.house \in Houses /\ order.frontend \in Frontends
  BY ConstantsAssumption DEF Order, Slots
<1>3. bet \in Bet
  <2>1. bets'[bn] = bet
    BY <1>1, <1>2 DEF TypeOK, Slots
  <2> HIDE DEF bet
  <2> QED
    BY <2>1, CommitBetTypes
<1>4. /\ terms = [stake |-> order.stake, cost |-> escrow_total, most |-> reservation]
      /\ bet.payout = 0 /\ bet.state = "Pending"
  BY DEF NewBet, TermsOf
<1>5. config \in ConfigChoices /\ fee_bps \in FrontendFees /\ p \in HouseChoices
  BY <1>1, <1>2 DEF ParamsChosen
<1>6. terms \in OfferedTerms
  <2>1. KeeperEscrow = KEEPER_CRANKS * config.keeper_reward
    <3>1. config.keeper_reward \in Nat
      BY <1>5, ConstantsAssumption DEF ConfigParams
    <3> QED
      BY <3>1 DEF KeeperEscrow, KEEPER_CRANKS
  <2>2. terms = [stake |-> order.stake,
                 cost |-> order.stake + TruncatedFee(order.stake, fee_bps)
                             + TruncatedFee(order.stake, config.protocol_fee_bps)
                             + KEEPER_CRANKS * config.keeper_reward,
                 most |-> reserved(order.stake, p.odds_cap)]
    BY <1>4, <2>1
  <2> HIDE DEF terms, fee_bps, p
  <2> QED
    BY <1>5, <2>2 DEF OfferedTerms
<1>7. /\ SlipOf(bet) = [terms |-> terms, prize |-> 0, state |-> "Pending"]
      /\ SlipsNow[bn] = NoAccount
      /\ SlipsNow' = [SlipsNow EXCEPT ![bn] = SlipOf(bet)]
  <2>1. config \in ConfigParams
    BY <1>1 DEF TypeOK, Exists
  <2>2. SlipOf(bet) = [terms |-> terms, prize |-> bet.payout, state |-> bet.state]
    <3> HIDE DEF bet
    <3> QED
      BY <1>3, <2>1, SlipFact
  <2> HIDE DEF terms, bet
  <2>3. SlipsNow' = [SlipsNow EXCEPT ![bn] = SlipOf(bet)] /\ SlipsNow[bn] = SlipOf(bets[bn])
    BY <1>1, <1>2, SlipsAfter
  <2> QED
    BY <1>1, <1>4, <2>2, <2>3 DEF SlipOf
<1>8. escrow_total \in Nat /\ terms.cost = escrow_total
  BY <1>1, <1>4, ConstantsAssumption DEF U64
<1> HIDE DEF bet, terms, escrow_total
<1>9. Ledger!Paid(order.bettor, -terms.cost)
  <2>1. \A u \in Bettors : token[u] \in Nat /\ u \in TokenAccounts /\ u # Escrow
    BY AccountsFact DEF TypeOK
  <2>2. \A u \in Bettors : token'[u] = IF u = order.bettor THEN token[u] + (-terms.cost)
                                                           ELSE token[u]
    BY <1>1, <1>2, <1>8, <2>1 DEF Moved, TypeOK
  <2>3. -terms.cost \in Int
    BY <1>8
  <2> HIDE DEF bn
  <2> QED
    BY <1>2, <2>2, <2>3, WalletPaid
<1>10. WalletNow[order.bettor] >= terms.cost
  BY <1>1, <1>2, <1>8, WalletType
<1>11. Ledger!Place(order.bettor, order.nonce, terms)
  BY <1>7, <1>9, <1>10 DEF Ledger!Place
<1> QED
  BY <1>2, <1>6, <1>11 DEF LedgerMoves, Ledger!LedgerNext

(* A bet that is there is a slip of the ledger, in the bet's state. *)
LEMMA SlipOfBet ==
    ASSUME TypeOK, BetsAccounted, NEW bettor \in Bettors, NEW nonce \in Nonces,
           IsBet(bettor, nonce)
    PROVE  LET bet == bets[<<bettor, nonce>>]
           IN  /\ <<bettor, nonce>> \in Slots
               /\ bet \in Bet
               /\ config \in ConfigParams
               /\ SlipsNow[<<bettor, nonce>>] = SlipOf(bet)
               /\ \A state : bet.state = state => Ledger!Is(<<bettor, nonce>>, state)
<1> DEFINE bn == <<bettor, nonce>>
           bet == bets[bn]
<1>1. bn \in Slots /\ bet \in Bet /\ Exists(bet)
  BY BetFact DEF Slots, IsBet
<1>2. config \in ConfigParams
  BY <1>1 DEF BetsAccounted, TypeOK, Exists
<1>3. SlipsNow[bn] = SlipOf(bet)
  BY <1>1 DEF SlipsNow, Slots
<1>4. SlipOf(bet) # NoAccount /\ SlipOf(bet).state = bet.state
  <2> HIDE DEF bet
  <2> QED
    BY <1>1, <1>2, SlipFact
<1> QED
  BY <1>1, <1>2, <1>3, <1>4 DEF Ledger!Is

(* fill_bet pays nobody who bets but whom its cranker names. *)
LEMMA FillWallets ==
    ASSUME token \in [TokenAccounts -> Nat], config \in ConfigParams,
           NEW bet \in Bet, NEW cranker_token \in RewardAccounts,
           NEW u \in Bettors
    PROVE  FillPayments(bet, cranker_token)[u] =
                token[u] + 0 + (IF u = cranker_token THEN config.keeper_reward ELSE 0)
<1> DEFINE staked == Moved(token, Escrow, bet.house, bet.stake)
           frontend_paid == Moved(staked, Escrow, bet.frontend, bet.frontend_fee)
           protocol_paid == Moved(frontend_paid, Escrow, Treasury, bet.protocol_fee)
<1>1. /\ u \in TokenAccounts /\ u # Escrow /\ u # Treasury
      /\ u # bet.house /\ u # bet.frontend
      /\ cranker_token \in TokenAccounts /\ token[u] \in Nat /\ config.keeper_reward \in Nat
  BY AccountsFact, ConstantsAssumption DEF Bet, ConfigParams
<1>2. staked[u] = token[u] /\ DOMAIN staked = TokenAccounts
  BY <1>1 DEF Moved
<1> HIDE DEF staked
<1>3. frontend_paid[u] = token[u] /\ DOMAIN frontend_paid = TokenAccounts
  BY <1>1, <1>2 DEF Moved
<1> HIDE DEF frontend_paid
<1>4. protocol_paid[u] = token[u] /\ DOMAIN protocol_paid = TokenAccounts
  BY <1>1, <1>3 DEF Moved
<1>5. FillPayments(bet, cranker_token) =
        Moved(protocol_paid, Escrow, cranker_token, config.keeper_reward)
  BY DEF FillPayments, frontend_paid, staked
<1> HIDE DEF protocol_paid
<1> QED
  BY <1>1, <1>4, <1>5 DEF Moved

(* The reward is a wage the ledger knows. *)
LEMMA RewardIsWage ==
    ASSUME ParamsChosen, Exists(config)
    PROVE  config.keeper_reward \in CrankWages /\ config.keeper_reward \in Nat
  BY ConstantsAssumption DEF ParamsChosen, CrankWages, ConfigParams

(* fill_bet fills a slip, at a prize its terms allow. *)
LEMMA FillFills ==
    ASSUME TypeOK, BetsAccounted, ParamsChosen, NEW cranker_token \in RewardAccounts,
           NEW bettor \in Bettors, NEW nonce \in Nonces,
           NEW commit_print \in prints, NEW target_print \in prints,
           FillBet(cranker_token, bettor, nonce, commit_print, target_print)
    PROVE  LedgerMoves
<1> DEFINE bn == <<bettor, nonce>>
           bet == bets[bn]
           odds == FillOddsFor(bet, commit_print, target_print)
           pays == payout(bet.stake, odds)
           active == [bet EXCEPT !.fill_odds = odds,
                                 !.fill_ts_ms = target_print.ts,
                                 !.payout = pays,
                                 !.keeper_rewards_remaining = @ - 1,
                                 !.state = "Active"]
<1>1. /\ IsBet(bettor, nonce) /\ bet.state = "Pending"
      /\ Exists(config)
      /\ pays <= bet.reserved
      /\ token' = FillPayments(bet, cranker_token)
      /\ bets' = [bets EXCEPT ![bn] = active]
      /\ config' = config
  BY DEF FillBet, CanFill, InState, Loaded
<1>2. /\ bn \in Slots /\ bet \in Bet /\ config \in ConfigParams
      /\ SlipsNow[bn] = SlipOf(bet)
      /\ Ledger!Is(bn, "Pending")
  BY <1>1, SlipOfBet
<1>3. active \in Bet
  <2>1. bets'[bn] = active
    BY <1>1, <1>2 DEF TypeOK, Slots
  <2> HIDE DEF active
  <2> QED
    BY <1>2, <2>1, FillBetTypes
<1> HIDE DEF bet, odds, pays
<1>4. /\ TermsOf(active) = TermsOf(bet) /\ active.payout = pays /\ active.state = "Active"
  BY <1>2 DEF Bet, TermsOf
<1>5. /\ pays \in Nat /\ bet.reserved \in Nat
      /\ TermsOf(bet).most = bet.reserved
  <2>1. active.payout \in Nat
    BY <1>3 DEF Bet
  <2> QED
    BY <1>2, <1>4, <2>1, ConstantsAssumption DEF Bet, U64, TermsOf
<1> HIDE DEF active
<1>6. SlipsNow' = [SlipsNow EXCEPT ![bn] = SlipOf(active)]
  BY <1>1, <1>2, SlipsAfter
<1>7. /\ SlipOf(bet) = [terms |-> TermsOf(bet), prize |-> bet.payout, state |-> bet.state]
      /\ SlipOf(active) = [terms |-> TermsOf(bet), prize |-> pays, state |-> "Active"]
  BY <1>2, <1>3, <1>4, SlipFact
<1>8. SlipOf(active) = [SlipOf(bet) EXCEPT !.prize = pays, !.state = "Active"]
  <2> DEFINE before == SlipOf(bet)
             after == SlipOf(active)
             terms == TermsOf(bet)
             prize == bet.payout
             state == bet.state
  <2>1. /\ before = [terms |-> terms, prize |-> prize, state |-> state]
        /\ after = [terms |-> terms, prize |-> pays, state |-> "Active"]
    BY <1>7
  <2> HIDE DEF before, after, terms, prize, state
  <2> DEFINE slip == [before EXCEPT !.prize = pays, !.state = "Active"]
  <2>2. slip \in [terms : {terms}, prize : {pays}, state : {"Active"}]
    BY <2>1
  <2> HIDE DEF slip
  <2>3. slip = after
    BY <2>1, <2>2
  <2> QED
    BY <2>3 DEF slip, before, after
<1>9. pays \in 0..SlipsNow[bn].terms.most
  BY <1>1, <1>2, <1>5, <1>7
<1>10. Ledger!Cranked(bettor, 0)
  <2>1. token \in [TokenAccounts -> Nat]
    BY DEF TypeOK
  <2>2. \A u \in Bettors : token'[u] = token[u] + 0
                                + (IF u = cranker_token THEN config.keeper_reward ELSE 0)
    BY <1>1, <1>2, <2>1, FillWallets
  <2>3. config.keeper_reward \in CrankWages /\ config.keeper_reward \in Nat
    BY <1>1, RewardIsWage
  <2>4. ASSUME NEW amount \in Nat, amount = 0
        PROVE  Ledger!Cranked(bettor, amount)
    <3>1. \A u \in Bettors :
            token'[u] = token[u] + (IF u = bettor THEN amount ELSE 0)
                                 + (IF u = cranker_token THEN config.keeper_reward ELSE 0)
      BY <2>2, <2>4
    <3> QED
      BY <2>3, <3>1, WalletCranked
  <2> QED
    BY <2>4
<1>11. Ledger!Fill(bettor, nonce)
  <2>1. SlipsNow' = [SlipsNow EXCEPT ![bn] = [SlipsNow[bn] EXCEPT !.prize = pays,
                                                                 !.state = "Active"]]
    BY <1>2, <1>6, <1>8
  <2> QED
    BY <1>2, <1>9, <1>10, <2>1 DEF Ledger!Fill
<1> QED
  BY <1>11 DEF LedgerMoves, Ledger!LedgerNext

(* The slip of a bet that only changes state changes state. *)
LEMMA SlipBecomes ==
    ASSUME TypeOK, config' = config, config \in ConfigParams, NEW bn \in Slots,
           bets[bn] \in Bet, NEW b \in Bet, NEW state,
           bets' = [bets EXCEPT ![bn] = b],
           b.stake = bets[bn].stake, b.frontend_fee = bets[bn].frontend_fee,
           b.protocol_fee = bets[bn].protocol_fee, b.reserved = bets[bn].reserved,
           b.payout = bets[bn].payout, b.state = state
    PROVE  Ledger!Becomes(bn, state)
<1>1. /\ SlipsNow' = [SlipsNow EXCEPT ![bn] = SlipOf(b)]
      /\ SlipsNow[bn] = SlipOf(bets[bn])
  BY SlipsAfter
<1>2. TermsOf(b) = TermsOf(bets[bn])
  BY DEF TermsOf
<1>3. /\ SlipOf(b) = [terms |-> TermsOf(b), prize |-> b.payout, state |-> b.state]
      /\ SlipOf(bets[bn]) = [terms |-> TermsOf(bets[bn]), prize |-> bets[bn].payout,
                             state |-> bets[bn].state]
  BY SlipFact
<1>4. SlipOf(b) = [SlipOf(bets[bn]) EXCEPT !.state = state]
  BY <1>2, <1>3
<1>5. SlipsNow' = [SlipsNow EXCEPT ![bn] = [SlipsNow[bn] EXCEPT !.state = state]]
  BY <1>1, <1>4
<1> QED
  BY <1>5 DEF Ledger!Becomes

(* settle_bet and void_bet end a slip, pay its bettor and send the reward. *)
LEMMA ReleaseEnds ==
    ASSUME TypeOK, BetsAccounted, ParamsChosen, NEW cranker_token \in RewardAccounts,
           NEW bettor \in Bettors, NEW nonce \in Nonces,
           InState(bettor, nonce, "Active"), NEW paid \in Nat, NEW state \in Terminal,
           ReleaseAndReward(cranker_token, bettor, nonce, paid, state)
    PROVE  /\ Ledger!Is(<<bettor, nonce>>, "Active")
           /\ Ledger!Becomes(<<bettor, nonce>>, state)
           /\ Ledger!Cranked(bettor, paid)
<1> DEFINE bn == <<bettor, nonce>>
           bet == bets[bn]
           h == bet.house
           ended == [bet EXCEPT !.keeper_rewards_remaining = @ - 1, !.state = state]
<1>1. /\ IsBet(bettor, nonce) /\ bet.state = "Active"
      /\ Exists(config)
      /\ token' = Moved(Moved(token, h, bettor, paid),
                        Escrow, cranker_token, config.keeper_reward)
      /\ bets' = [bets EXCEPT ![bn] = ended]
      /\ config' = config
  BY DEF ReleaseAndReward, ReleasePayments, InState, Loaded
<1>2. /\ bn \in Slots /\ bet \in Bet /\ config \in ConfigParams
      /\ Ledger!Is(bn, "Active")
  BY <1>1, SlipOfBet
<1>3. ended \in Bet
  <2>1. bets'[bn] = ended
    BY <1>1, <1>2 DEF TypeOK, Slots
  <2>2. state \in BetState
    BY DEF Terminal, BetState
  <2> HIDE DEF ended
  <2> QED
    BY <1>1, <1>2, <2>1, <2>2, ReleaseTypes
<1>4. Ledger!Becomes(bn, state)
  <2>1. /\ ended.stake = bet.stake /\ ended.frontend_fee = bet.frontend_fee
        /\ ended.protocol_fee = bet.protocol_fee /\ ended.reserved = bet.reserved
        /\ ended.payout = bet.payout /\ ended.state = state
    BY <1>2 DEF Bet
  <2> HIDE DEF ended, bn
  <2> QED
    BY <1>1, <1>2, <1>3, <2>1, SlipBecomes DEF bet
<1>5. Ledger!Cranked(bettor, paid)
  <2>1. /\ h \in TokenAccounts /\ h \notin Users /\ Escrow \notin Users /\ Escrow # h
        /\ cranker_token \in TokenAccounts /\ bettor \in Users
    BY <1>2, AccountsFact DEF Bet
  <2>2. token \in [TokenAccounts -> Nat] /\ config.keeper_reward \in Nat
    BY <1>2 DEF TypeOK, ConfigParams
  <2>3. \A u \in Bettors : u \in Users /\ u \in TokenAccounts /\ token[u] \in Nat
    BY <2>2, AccountsFact
  <2> HIDE DEF h, bet
  <2>4. \A u \in Bettors : token'[u] = token[u] + (IF u = bettor THEN paid ELSE 0)
                                + (IF u = cranker_token THEN config.keeper_reward ELSE 0)
    BY <1>1, <2>1, <2>2, <2>3 DEF Moved
  <2> QED
    BY <1>1, <2>4, RewardIsWage, WalletCranked
<1> QED
  BY <1>2, <1>4, <1>5

(* settle_bet wins or loses a slip. *)
LEMMA SettleEnds ==
    ASSUME TypeOK, BetsAccounted, ParamsChosen, NEW cranker_token \in RewardAccounts,
           NEW bettor \in Bettors, NEW nonce \in Nonces, NEW ev,
           SettleBet(cranker_token, bettor, nonce, ev)
    PROVE  LedgerMoves
<1> DEFINE bet == bets[<<bettor, nonce>>]
<1>1. InState(bettor, nonce, "Active")
  BY DEF SettleBet
<1>2. /\ <<bettor, nonce>> \in Slots /\ bet \in Bet /\ config \in ConfigParams
      /\ SlipsNow[<<bettor, nonce>>] = SlipOf(bet)
  BY <1>1, SlipOfBet DEF InState
<1>3. bet.payout \in Nat
  BY <1>2 DEF Bet
<1>4. CASE ResultOf(ev) = bet.outcome
  <2>1. ReleaseAndReward(cranker_token, bettor, nonce, bet.payout, "Won")
    BY <1>4 DEF SettleBet
  <2>2. "Won" \in Terminal
    BY DEF Terminal
  <2>3. SlipsNow[<<bettor, nonce>>].prize = bet.payout
    <3> HIDE DEF bet
    <3> QED
      BY <1>2, SlipFact
  <2> HIDE DEF bet
  <2>4. /\ Ledger!Is(<<bettor, nonce>>, "Active")
        /\ Ledger!Becomes(<<bettor, nonce>>, "Won")
        /\ Ledger!Cranked(bettor, bet.payout)
    BY <1>1, <1>3, <2>1, <2>2, ReleaseEnds
  <2>5. Ledger!Win(bettor, nonce)
    BY <2>3, <2>4 DEF Ledger!Win
  <2> QED
    BY <2>5 DEF LedgerMoves, Ledger!LedgerNext
<1>5. CASE ResultOf(ev) # bet.outcome
  <2>1. ReleaseAndReward(cranker_token, bettor, nonce, 0, "Lost")
    BY <1>5 DEF SettleBet
  <2>2. "Lost" \in Terminal /\ 0 \in Nat
    BY DEF Terminal
  <2>3. /\ Ledger!Is(<<bettor, nonce>>, "Active")
        /\ Ledger!Becomes(<<bettor, nonce>>, "Lost")
        /\ Ledger!Cranked(bettor, 0)
    BY <1>1, <2>1, <2>2, ReleaseEnds
  <2>4. Ledger!Lose(bettor, nonce)
    BY <2>3 DEF Ledger!Lose
  <2> QED
    BY <2>4 DEF LedgerMoves, Ledger!LedgerNext
<1> QED
  BY <1>4, <1>5

(* void_bet gives the stake back. *)
LEMMA VoidEnds ==
    ASSUME TypeOK, BetsAccounted, ParamsChosen, NEW cranker_token \in RewardAccounts,
           NEW bettor \in Bettors, NEW nonce \in Nonces,
           VoidBet(cranker_token, bettor, nonce)
    PROVE  LedgerMoves
<1> DEFINE bet == bets[<<bettor, nonce>>]
<1>1. /\ InState(bettor, nonce, "Active")
      /\ ReleaseAndReward(cranker_token, bettor, nonce, bet.stake, "Voided")
  BY DEF VoidBet
<1>2. /\ bet \in Bet /\ config \in ConfigParams
      /\ SlipsNow[<<bettor, nonce>>] = SlipOf(bet)
  BY <1>1, SlipOfBet DEF InState
<1>3. bet.stake \in Nat /\ "Voided" \in Terminal
  BY <1>2, ConstantsAssumption DEF Bet, U64, Terminal
<1> HIDE DEF bet
<1>4. SlipsNow[<<bettor, nonce>>].terms.stake = bet.stake
  <2>1. SlipOf(bet).terms = TermsOf(bet)
    BY <1>2, SlipFact
  <2> QED
    BY <1>2, <2>1 DEF TermsOf
<1>5. /\ Ledger!Is(<<bettor, nonce>>, "Active")
      /\ Ledger!Becomes(<<bettor, nonce>>, "Voided")
      /\ Ledger!Cranked(bettor, bet.stake)
  BY <1>1, <1>3, ReleaseEnds
<1>6. Ledger!Void(bettor, nonce)
  BY <1>4, <1>5 DEF Ledger!Void
<1> QED
  BY <1>6 DEF LedgerMoves, Ledger!LedgerNext

(* refund_commit gives the whole cost back. *)
LEMMA RefundRefunds ==
    ASSUME TypeOK, BetsAccounted, NEW bettor \in Bettors, NEW nonce \in Nonces,
           RefundCommit(bettor, nonce)
    PROVE  LedgerMoves
<1> DEFINE bn == <<bettor, nonce>>
           bet == bets[bn]
           refund == RefundOf(bet)
           ended == [bet EXCEPT !.state = "Refunded"]
<1>1. /\ IsBet(bettor, nonce) /\ bet.state = "Pending"
      /\ refund \in U64
      /\ token' = Moved(token, Escrow, bettor, refund)
      /\ bets' = [bets EXCEPT ![bn] = ended]
      /\ config' = config
  BY DEF RefundCommit, CanRefund, InState
<1>2. /\ bn \in Slots /\ bet \in Bet /\ config \in ConfigParams
      /\ SlipsNow[bn] = SlipOf(bet)
      /\ Ledger!Is(bn, "Pending")
  BY <1>1, SlipOfBet
<1>3. ended \in Bet
  BY <1>2 DEF Bet, BetState
<1>4. bet.keeper_rewards_remaining = KEEPER_CRANKS
  BY <1>1, <1>2 DEF BetsAccounted, IsBet
<1>5. Ledger!Becomes(bn, "Refunded")
  <2>1. /\ ended.stake = bet.stake /\ ended.frontend_fee = bet.frontend_fee
        /\ ended.protocol_fee = bet.protocol_fee /\ ended.reserved = bet.reserved
        /\ ended.payout = bet.payout /\ ended.state = "Refunded"
    BY <1>2 DEF Bet
  <2> HIDE DEF ended, bn
  <2> QED
    BY <1>1, <1>2, <1>3, <2>1, SlipBecomes DEF bet
<1> HIDE DEF bet
<1>6. SlipsNow[bn].terms.cost = refund
  <2>1. SlipsNow[bn].terms = TermsOf(bet)
    BY <1>2, SlipFact
  <2> QED
    BY <1>4, <2>1 DEF TermsOf, RefundOf, KeeperEscrow
<1> HIDE DEF refund
<1>7. Ledger!Paid(bettor, refund)
  <2>1. refund \in Int
    BY <1>1, ConstantsAssumption DEF U64
  <2>2. \A u \in Bettors : u \in TokenAccounts /\ u # Escrow
    BY AccountsFact
  <2>3. \A u \in Bettors : token'[u] = IF u = bettor THEN token[u] + refund ELSE token[u]
    BY <1>1, <2>2 DEF Moved, TypeOK
  <2> QED
    BY <2>1, <2>3, WalletPaid
<1>8. Ledger!Refund(bettor, nonce)
  BY <1>2, <1>5, <1>6, <1>7 DEF Ledger!Refund
<1> QED
  BY <1>8 DEF LedgerMoves, Ledger!LedgerNext

(* close_bet strikes an ended slip off. *)
LEMMA CloseCloses ==
    ASSUME TypeOK, BetsAccounted, NEW bettor \in Bettors, NEW nonce \in Nonces,
           CloseBet(bettor, nonce)
    PROVE  LedgerMoves
<1> DEFINE bn == <<bettor, nonce>>
<1>1. /\ IsBet(bettor, nonce) /\ bets[bn].state \in Terminal
      /\ bets' = [bets EXCEPT ![bn] = NoAccount]
      /\ config' = config /\ token' = token
  BY DEF CloseBet
<1>2. bn \in Slots /\ Ledger!Is(bn, bets[bn].state)
  BY <1>1, SlipOfBet
<1>3. bets[bn].state \in Ledger!Ended
  BY <1>1 DEF Terminal, Ledger!Ended
<1>4. SlipsNow' = [SlipsNow EXCEPT ![bn] = NoAccount]
  <2>1. SlipOf(NoAccount) = NoAccount
    BY DEF SlipOf, Exists
  <2> HIDE DEF bn
  <2>2. SlipsNow' = [SlipsNow EXCEPT ![bn] = SlipOf(NoAccount)]
    BY <1>1, <1>2, SlipsAfter
  <2> QED
    BY <2>1, <2>2
<1>5. WalletNow' = WalletNow
  BY <1>1, WalletKept
<1>6. Ledger!Close(bettor, nonce)
  BY <1>2, <1>3, <1>4, <1>5 DEF Ledger!Close
<1> QED
  BY <1>6 DEF LedgerMoves, Ledger!LedgerNext

(* What a bettor deposits into a house is a dealing of the ledger. *)
LEMMA DepositDeals ==
    ASSUME TypeOK, NEW call \in Deposits, Deposit(call)
    PROVE  LedgerMoves \/ UNCHANGED Ledger!ledgerVars
<1>1. /\ token[call.depositor] >= call.amount
      /\ token' = Moved(token, call.depositor, call.house, call.amount)
      /\ bets' = bets /\ config' = config
  BY DEF Deposit
<1>2. call.depositor \in Users /\ call.house \in Houses /\ call.amount \in Nat
  BY ConstantsAssumption DEF DepositCall
<1>3. SlipsNow' = SlipsNow
  BY <1>1, SlipsKept
<1>4. \A u \in Bettors : u \in TokenAccounts /\ u # call.house /\ token[u] \in Nat
  BY <1>2, AccountsFact DEF TypeOK
<1>5. \A u \in Bettors : token'[u] = IF u = call.depositor THEN token[u] + (-call.amount)
                                                           ELSE token[u]
  BY <1>1, <1>2, <1>4 DEF Moved, TypeOK
<1>6. CASE call.depositor \in Bettors
  <2> DEFINE dealing == [bettor |-> call.depositor, amount |-> -call.amount]
  <2>1. dealing \in BettorDealings
    BY DEF BettorDealings
  <2>2. -call.amount \in Int /\ WalletNow[call.depositor] + (-call.amount) >= 0
    BY <1>1, <1>2, <1>4, <1>6, WalletType
  <2>3. Ledger!Paid(call.depositor, -call.amount)
    BY <1>5, <1>6, <2>2, WalletPaid
  <2>4. Ledger!Deal(dealing)
    BY <1>3, <1>6, <2>2, <2>3 DEF Ledger!Deal
  <2> HIDE DEF dealing
  <2> QED
    BY <2>1, <2>4 DEF LedgerMoves, Ledger!LedgerNext
<1>7. CASE call.depositor \notin Bettors
  BY <1>3, <1>5, <1>7, WalletKept DEF Ledger!ledgerVars
<1> QED
  BY <1>6, <1>7

(* So is what an owner withdraws to a bettor. *)
LEMMA WithdrawDeals ==
    ASSUME TypeOK, NEW call \in Withdrawals, Withdraw(call)
    PROVE  LedgerMoves \/ UNCHANGED Ledger!ledgerVars
<1>1. /\ token' = Moved(token, call.house, call.destination, call.amount)
      /\ bets' = bets /\ config' = config
  BY DEF Withdraw, WithdrawPayment
<1>2. call.house \in Houses /\ call.destination \in TokenAccounts /\ call.amount \in Nat
  BY ConstantsAssumption DEF WithdrawCall
<1>3. SlipsNow' = SlipsNow
  BY <1>1, SlipsKept
<1>4. \A u \in Bettors : u \in TokenAccounts /\ u # call.house /\ token[u] \in Nat
  BY <1>2, AccountsFact DEF TypeOK
<1>5. \A u \in Bettors : token'[u] = IF u = call.destination THEN token[u] + call.amount
                                                             ELSE token[u]
  BY <1>1, <1>2, <1>4 DEF Moved, TypeOK
<1>6. CASE call.destination \in Bettors
  <2> DEFINE dealing == [bettor |-> call.destination, amount |-> call.amount]
  <2>1. dealing \in BettorDealings
    BY DEF BettorDealings
  <2>2. call.amount \in Int /\ WalletNow[call.destination] + call.amount >= 0
    BY <1>2, <1>4, <1>6, WalletType
  <2>3. Ledger!Paid(call.destination, call.amount)
    BY <1>5, <1>6, <2>2, WalletPaid
  <2>4. Ledger!Deal(dealing)
    BY <1>3, <1>6, <2>2, <2>3 DEF Ledger!Deal
  <2> HIDE DEF dealing
  <2> QED
    BY <2>1, <2>4 DEF LedgerMoves, Ledger!LedgerNext
<1>7. CASE call.destination \notin Bettors
  BY <1>3, <1>5, <1>7, WalletKept DEF Ledger!ledgerVars
<1> QED
  BY <1>6, <1>7

-----------------------------------------------------------------------------
(* Every instruction *)

(* What leaves bets, tokens and the config alone leaves the ledger alone.  *)
LEMMA LedgerUntouched ==
    ASSUME UNCHANGED <<bets, token, config>>
    PROVE  UNCHANGED Ledger!ledgerVars
  BY SlipsKept, WalletKept DEF Ledger!ledgerVars

(* So do the admin's instructions, as long as the reward is kept. *)
LEMMA AdminLedger ==
    ASSUME BetsAccounted, AdminNext, RewardKept
    PROVE  UNCHANGED Ledger!ledgerVars
<1>1. ASSUME NEW p \in ConfigChoices, InitConfig(p) \/ UpdateConfig(p)
      PROVE  UNCHANGED Ledger!ledgerVars
  <2>1. UNCHANGED <<bets, token>>
    BY <1>1 DEF InitConfig, UpdateConfig
  <2>2. \A bn \in Slots : Exists(bets[bn]) => config'.keeper_reward = config.keeper_reward
    BY DEF BetsAccounted, RewardKept
  <2> QED
    BY <2>1, <2>2, SlipsKept, WalletKept DEF Ledger!ledgerVars
<1>2. ASSUME NEW fe \in Frontends, NEW fee_bps \in FrontendFees,
             RegisterFrontend(fe, fee_bps)
      PROVE  UNCHANGED Ledger!ledgerVars
  BY <1>2, LedgerUntouched DEF RegisterFrontend
<1> QED
  BY <1>1, <1>2 DEF AdminNext

(* An owner's are dealings at most. *)
LEMMA HouseLedger ==
    ASSUME TypeOK, HouseNext
    PROVE  LedgerMoves \/ UNCHANGED Ledger!ledgerVars
<1>1. ASSUME NEW h \in Houses,
             \/ \E p \in HouseChoices : CreateHouse(h, p) \/ UpdateHouseParams(h, p)
             \/ \E paused \in PauseChoices : SetPaused(h, paused)
             \/ \E f \in FilterChoices : SetHouseFilters(h, f)
             \/ \E f \in Fixtures : CloseExposure(h, f)
      PROVE  UNCHANGED Ledger!ledgerVars
  BY <1>1, LedgerUntouched
  DEF CreateHouse, UpdateHouseParams, SetPaused, SetHouseFilters, CloseExposure
<1> QED
  BY <1>1, DepositDeals, WithdrawDeals DEF HouseNext

(* The life of a bet is the life of its slip. *)
LEMMA BetLedgerStep ==
    ASSUME TypeOK, BetsAccounted, ParamsChosen, BetNext
    PROVE  LedgerMoves \/ UNCHANGED Ledger!ledgerVars
<1>1. ASSUME NEW order \in Orders, CommitBet(order)
      PROVE  LedgerMoves
  BY <1>1, CommitPlaces
<1>2. ASSUME NEW cranker \in Crankers, NEW odds \in Feed, ProvePrint(cranker, odds)
      PROVE  UNCHANGED Ledger!ledgerVars
  BY <1>2, LedgerUntouched DEF ProvePrint
<1>3. ASSUME NEW payer \in Crankers, NEW print \in prints, ClosePrint(payer, print)
      PROVE  UNCHANGED Ledger!ledgerVars
  BY <1>3, LedgerUntouched DEF ClosePrint
<1>4. ASSUME NEW cranker_token \in RewardAccounts, NEW bettor \in Bettors, NEW nonce \in Nonces,
             NEW commit_print \in prints, NEW target_print \in prints,
             FillBet(cranker_token, bettor, nonce, commit_print, target_print)
      PROVE  LedgerMoves
  BY <1>4, FillFills
<1>5. ASSUME NEW cranker_token \in RewardAccounts, NEW bettor \in Bettors, NEW nonce \in Nonces,
             NEW ev \in scores, SettleBet(cranker_token, bettor, nonce, ev)
      PROVE  LedgerMoves
  BY <1>5, SettleEnds
<1>6. ASSUME NEW cranker_token \in RewardAccounts, NEW bettor \in Bettors, NEW nonce \in Nonces,
             VoidBet(cranker_token, bettor, nonce)
      PROVE  LedgerMoves
  BY <1>6, VoidEnds
<1>7. ASSUME NEW bettor \in Bettors, NEW nonce \in Nonces, RefundCommit(bettor, nonce)
      PROVE  LedgerMoves
  BY <1>7, RefundRefunds
<1>8. ASSUME NEW bettor \in Bettors, NEW nonce \in Nonces, CloseBet(bettor, nonce)
      PROVE  LedgerMoves
  BY <1>8, CloseCloses
<1> QED
  BY <1>1, <1>2, <1>3, <1>4, <1>5, <1>6, <1>7, <1>8 DEF BetNext

(* Every step that keeps the reward is a step of the ledger or a stutter.  *)
LEMMA StepRefines ==
    ASSUME LedgerInv, [Next]_vars, [RewardKept]_vars
    PROVE  [Ledger!LedgerNext]_(Ledger!ledgerVars)
<1>1. TypeOK /\ BetsAccounted /\ ParamsChosen
  BY DEF LedgerInv, EscrowInv, VaultInv
<1>2. CASE UNCHANGED vars
  BY <1>2, LedgerUntouched DEF vars
<1>3. CASE AdminNext
  <2>1. CASE RewardKept
    BY <1>1, <1>3, <2>1, AdminLedger
  <2>2. CASE UNCHANGED vars
    BY <2>2, LedgerUntouched DEF vars
  <2> QED
    BY <2>1, <2>2
<1>4. CASE HouseNext
  BY <1>1, <1>4, HouseLedger DEF LedgerMoves
<1>5. CASE BetNext
  BY <1>1, <1>5, BetLedgerStep DEF LedgerMoves
<1>6. CASE WorldNext
  BY <1>6, LedgerUntouched DEF WorldNext, Tick, PublishScore
<1> QED
  BY <1>2, <1>3, <1>4, <1>5, <1>6 DEF Next

(* On the empty chain there are no slips. *)
LEMMA InitRefines == Init => Ledger!LedgerInit
<1> SUFFICES ASSUME Init
             PROVE  Ledger!LedgerInit
  OBVIOUS
<1>1. \A bn \in Slots : SlipOf(bets[bn]) = NoAccount
  BY DEF Init, SlipOf, Exists, Slots
<1>2. SlipsNow = [bn \in Slots |-> NoAccount]
  BY <1>1 DEF SlipsNow, Slots
<1>3. WalletNow \in [Bettors -> Nat]
  BY InitVaultInv, WalletType DEF VaultInv
<1> QED
  BY <1>2, <1>3 DEF Ledger!LedgerInit, Slots

-----------------------------------------------------------------------------
(* The parameters in force *)

(* Where config, frontends and the houses' params stay, so does the choice.*)
LEMMA ParamsKept ==
    ASSUME ParamsChosen, UNCHANGED <<config, frontends>>,
           \A h \in Houses : Exists(houses'[h]) =>
                Exists(houses[h]) /\ houses'[h].params = houses[h].params
    PROVE  ParamsChosen'
  BY DEF ParamsChosen, Exists

(* A resync changes a house's total, not its params. *)
LEMMA ResyncParams ==
    ASSUME TypeOK, ParamsChosen, UNCHANGED <<config, frontends>>,
           NEW h \in Houses, NEW f, NEW e, Exists(houses[h]), ResyncLocks(h, f, e)
    PROVE  ParamsChosen'
<1>1. PICK total : houses' = [houses EXCEPT ![h].total_locked = total]
  BY DEF ResyncLocks
<1>2. houses[h] \in House
  BY DEF TypeOK, Exists
<1>3. /\ houses'[h].params = houses[h].params
      /\ \A g \in Houses : g # h => houses'[g] = houses[g]
  BY <1>1, <1>2 DEF TypeOK, House
<1>4. \A g \in Houses : Exists(houses'[g]) =>
            Exists(houses[g]) /\ houses'[g].params = houses[g].params
  BY <1>3
<1> QED
  BY <1>4, ParamsKept

(* An owner may choose params, and keeps them otherwise. *)
LEMMA HouseParamsChosen ==
    ASSUME TypeOK, ParamsChosen, HouseNext
    PROVE  ParamsChosen'
<1>1. ASSUME NEW h \in Houses, NEW p \in HouseChoices, CreateHouse(h, p)
      PROVE  ParamsChosen'
  BY <1>1 DEF CreateHouse, ParamsChosen, TypeOK, Exists
<1>2. ASSUME NEW h \in Houses, NEW p \in HouseChoices, UpdateHouseParams(h, p)
      PROVE  ParamsChosen'
  <2>1. houses[h] \in House /\ houses' = [houses EXCEPT ![h].params = p]
    BY <1>2 DEF UpdateHouseParams, TypeOK, Exists
  <2>2. /\ houses'[h].params = p
        /\ \A g \in Houses : g # h => houses'[g] = houses[g]
    BY <2>1 DEF TypeOK, House
  <2> QED
    BY <1>2, <2>2 DEF UpdateHouseParams, ParamsChosen, Exists
<1>3. ASSUME NEW h \in Houses, NEW paused \in PauseChoices, SetPaused(h, paused)
      PROVE  ParamsChosen'
  <2>1. /\ houses[h] \in House /\ Exists(houses[h])
        /\ houses' = [houses EXCEPT ![h].paused = paused]
    BY <1>3 DEF SetPaused, TypeOK, Exists
  <2>2. /\ houses'[h].params = houses[h].params
        /\ \A g \in Houses : g # h => houses'[g] = houses[g]
    BY <2>1 DEF TypeOK, House
  <2>3. \A g \in Houses : Exists(houses'[g]) =>
            Exists(houses[g]) /\ houses'[g].params = houses[g].params
    BY <2>1, <2>2
  <2> QED
    BY <1>3, <2>3, ParamsKept DEF SetPaused
<1>4. ASSUME NEW h \in Houses, NEW f,
             SetHouseFilters(h, f) \/ CloseExposure(h, f)
      PROVE  ParamsChosen'
  BY <1>4, ParamsKept DEF SetHouseFilters, CloseExposure
<1>5. ASSUME NEW call, Deposit(call) \/ Withdraw(call)
      PROVE  ParamsChosen'
  BY <1>5, ParamsKept DEF Deposit, Withdraw
<1> QED
  BY <1>1, <1>2, <1>3, <1>4, <1>5 DEF HouseNext

(* The life of a bet leaves them alone. *)
LEMMA BetParamsChosen ==
    ASSUME TypeOK, ParamsChosen, BetNext
    PROVE  ParamsChosen'
<1>1. ASSUME NEW order \in Orders, CommitBet(order)
      PROVE  ParamsChosen'
  <2>1. order.house \in Houses
    BY ConstantsAssumption DEF Order
  <2>2. PICK e : ResyncLocks(order.house, order.fixture_id, e)
    BY <1>1 DEF CommitBet
  <2> QED
    BY <1>1, <2>1, <2>2, ResyncParams DEF CommitBet, CanCommit
<1>2. ASSUME NEW c, NEW r, ProvePrint(c, r) \/ ClosePrint(c, r)
      PROVE  ParamsChosen'
  BY <1>2, ParamsKept DEF ProvePrint, ClosePrint
<1>3. ASSUME NEW cranker_token \in RewardAccounts, NEW bettor \in Bettors, NEW nonce \in Nonces,
             NEW commit_print \in prints, NEW target_print \in prints,
             FillBet(cranker_token, bettor, nonce, commit_print, target_print)
      PROVE  ParamsChosen'
  <2> DEFINE bet == bets[<<bettor, nonce>>]
  <2>1. PICK e : ResyncLocks(bet.house, bet.fixture_id, e)
    BY <1>3 DEF FillBet
  <2>2. bet.house \in Houses /\ Exists(houses[bet.house]) /\ UNCHANGED <<config, frontends>>
    BY <1>3, BetFact DEF FillBet, CanFill, InState, Loaded, Bet
  <2> QED
    BY <2>1, <2>2, ResyncParams
<1>4. ASSUME NEW cranker_token \in RewardAccounts, NEW bettor \in Bettors, NEW nonce \in Nonces,
             \/ \E ev \in scores : SettleBet(cranker_token, bettor, nonce, ev)
             \/ VoidBet(cranker_token, bettor, nonce)
      PROVE  ParamsChosen'
  <2> DEFINE bet == bets[<<bettor, nonce>>]
  <2>1. PICK paid \in Nat, state \in Terminal :
            /\ InState(bettor, nonce, "Active")
            /\ ReleaseAndReward(cranker_token, bettor, nonce, paid, state)
    BY <1>4, ReleasesEndBets
  <2>2. PICK e : ResyncLocks(bet.house, bet.fixture_id, e)
    BY <2>1 DEF ReleaseAndReward
  <2>3. bet.house \in Houses /\ Exists(houses[bet.house]) /\ UNCHANGED <<config, frontends>>
    BY <2>1, BetFact DEF ReleaseAndReward, InState, Loaded, Bet
  <2> QED
    BY <2>2, <2>3, ResyncParams
<1>5. ASSUME NEW bettor \in Bettors, NEW nonce \in Nonces, RefundCommit(bettor, nonce)
      PROVE  ParamsChosen'
  <2> DEFINE bet == bets[<<bettor, nonce>>]
  <2>1. PICK e : ResyncLocks(bet.house, bet.fixture_id, e)
    BY <1>5 DEF RefundCommit
  <2>2. bet.house \in Houses /\ Exists(houses[bet.house]) /\ UNCHANGED <<config, frontends>>
    BY <1>5, BetFact DEF RefundCommit, CanRefund, InState, Loaded, Bet
  <2> QED
    BY <2>1, <2>2, ResyncParams
<1>6. ASSUME NEW bettor, NEW nonce, CloseBet(bettor, nonce)
      PROVE  ParamsChosen'
  BY <1>6, ParamsKept DEF CloseBet
<1> QED
  BY <1>1, <1>2, <1>3, <1>4, <1>5, <1>6 DEF BetNext

(* Every step keeps the invariant of the refinement. *)
LEMMA NextLedgerInv ==
    ASSUME LedgerInv, [Next]_vars
    PROVE  LedgerInv'
<1>1. EscrowInv' /\ TypeOK /\ ParamsChosen
  BY NextEscrow DEF LedgerInv, EscrowInv, VaultInv
<1>2. CASE AdminNext
  <2>1. ASSUME NEW p \in ConfigChoices, InitConfig(p) \/ UpdateConfig(p)
        PROVE  ParamsChosen'
    BY <1>1, <2>1 DEF InitConfig, UpdateConfig, ParamsChosen, Exists
  <2>2. ASSUME NEW fe \in Frontends, NEW fee_bps \in FrontendFees,
               RegisterFrontend(fe, fee_bps)
        PROVE  ParamsChosen'
    BY <1>1, <2>2 DEF RegisterFrontend, ParamsChosen, TypeOK, Exists
  <2> QED
    BY <1>1, <1>2, <2>1, <2>2 DEF AdminNext, LedgerInv
<1>3. CASE WorldNext
  BY <1>1, <1>3, ParamsKept DEF WorldNext, Tick, PublishScore, LedgerInv
<1>4. CASE UNCHANGED vars
  BY <1>1, <1>4, ParamsKept DEF vars, LedgerInv
<1> QED
  BY <1>1, <1>2, <1>3, <1>4, HouseParamsChosen, BetParamsChosen DEF Next, LedgerInv

-----------------------------------------------------------------------------
(* Theorems *)

(* In every reachable state bets are accounted for and all parameters in   *)
(* force are among those on offer.                                         *)
THEOREM LedgerInvHolds == Spec => []LedgerInv
<1>1. Init => LedgerInv
  BY InitEscrowInv DEF Init, LedgerInv, ParamsChosen, Exists
<1>2. LedgerInv /\ [Next]_vars => LedgerInv'
  BY NextLedgerInv
<1> QED
  BY <1>1, <1>2, PTL DEF Spec

(* The program implements the ledger of bets: as long as the admin keeps   *)
(* the keeper reward, every slip costs its bettor its full price once and  *)
(* ends in one of four ways with the payment that belongs to it, whoever   *)
(* bets, cranks, keeps houses or withdraws, in whatever order.             *)
THEOREM ProgramImplementsLedger ==
    Spec /\ [][RewardKept]_vars => ImplementsLedger
<1>1. LedgerInv /\ [Next]_vars /\ [RewardKept]_vars =>
        [Ledger!LedgerNext]_(Ledger!ledgerVars)
  BY StepRefines
<1> QED
  BY <1>1, InitRefines, LedgerInvHolds, PTL DEF Spec, ImplementsLedger, Ledger!LedgerSpec

=============================================================================
