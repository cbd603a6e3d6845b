-------------------------- MODULE BethehouseProofs --------------------------
(***************************************************************************)
(* Theorems about the program for every set of users, houses, fixtures and *)
(* orders and every configuration.                                         *)
(***************************************************************************)
EXTENDS BethehouseProperties, ArithmeticProofs

(* A lock fits in 64 bits when the liabilities do. *)
LEMMA LockFact ==
    ASSUME NEW L \in [Outcomes -> U64], NEW c \in Nat
    PROVE  locked(L, c) \in U64
<1> USE ConstantsAssumption
<1>1. L \in [Outcomes -> Nat]
  BY DEF U64
<1>2. PICK o \in Outcomes : L[o] = Heaviest(L)
  BY <1>1, HeaviestIs
<1>3. Heaviest(L) \in U64
  BY <1>2
<1> QED
  BY <1>3 DEF locked, SatSub, U64

(* Fees fit in 64 bits, whatever the configured rate. *)
LEMMA FeeFact ==
    ASSUME NEW s \in Nat, NEW b \in Nat
    PROVE  TruncatedFee(s, b) \in U64
<1> USE ConstantsAssumption
<1>1. s * b \in Nat
  BY TimesFact
<1>2. (s * b) \div BPS \in Nat
  BY <1>1, DivFact DEF BPS
<1> QED
  BY <1>2 DEF TruncatedFee, FeeOf, U64

(* Moving tokens that are there leaves every balance a natural number.     *)
LEMMA MovedFact ==
    ASSUME NEW bal \in [TokenAccounts -> Nat], NEW from \in TokenAccounts,
           NEW to \in TokenAccounts, NEW n \in Nat, n <= bal[from]
    PROVE  /\ Moved(bal, from, to, n) \in [TokenAccounts -> Nat]
           /\ from # to => Moved(bal, from, to, n)[from] = bal[from] - n
           /\ \A a \in TokenAccounts : a # from => Moved(bal, from, to, n)[a] >= bal[a]
           /\ \A a \in TokenAccounts :
                a \notin {from, to} => Moved(bal, from, to, n)[a] = bal[a]
  BY DEF Moved

(* Whose account an account is: all are token accounts, and the escrow is  *)
(* nobody else's.                                                          *)
LEMMA AccountsFact ==
    /\ Users \subseteq TokenAccounts
    /\ Houses \subseteq TokenAccounts
    /\ Frontends \subseteq TokenAccounts
    /\ Escrow \in TokenAccounts /\ Treasury \in TokenAccounts
    /\ Escrow \notin Users \cup Houses \cup Frontends \cup {Treasury}
    /\ Users \cap Houses = {} /\ Houses \cap Frontends = {}
    /\ Bettors \subseteq Users
    /\ Crankers \subseteq Users
    /\ RewardAccounts \subseteq TokenAccounts
  BY ConstantsAssumption DEF TokenAccounts

(* Books are of their type, there or not. *)
LEMMA BookType ==
    ASSUME TypeOK, NEW h \in Houses, NEW f \in Fixtures
    PROVE  /\ BookOf(h, f) \in FixtureExposure
           /\ BookOf(h, f).locked \in Nat
           /\ BookOf(h, f).stakes_collected \in Nat
           /\ BookOf(h, f).open_bets \in Nat
           /\ \A o \in Outcomes : BookOf(h, f).liability[o] \in Nat
<1>1. NewExposure \in FixtureExposure
  BY ConstantsAssumption DEF NewExposure, FixtureExposure, U64
<1>2. BookOf(h, f) \in FixtureExposure
  BY <1>1 DEF BookOf, Exists, TypeOK
<1> QED
  BY <1>2, ConstantsAssumption DEF FixtureExposure, U64

(* A resync leaves houses and books of their types, puts the book's lock   *)
(* right, raises the house's total only if that lock rose, and touches     *)
(* nothing else.                                                           *)
LEMMA ResyncFact ==
    ASSUME houses \in [Houses -> House \cup {NoAccount}],
           exposures \in [Houses \X Fixtures -> FixtureExposure \cup {NoAccount}],
           NEW h \in Houses, NEW f \in Fixtures, Exists(houses[h]),
           NEW e \in FixtureExposure,
           Resynced(h, e) \in U64, ResyncLocks(h, f, e)
    PROVE  /\ houses' \in [Houses -> House \cup {NoAccount}]
           /\ exposures' \in [Houses \X Fixtures -> FixtureExposure \cup {NoAccount}]
           /\ exposures'[<<h, f>>] \in FixtureExposure
           /\ locked(e.liability, e.stakes_collected) <= e.locked
                    => houses'[h].total_locked <= houses[h].total_locked
           /\ \A g \in Houses : g # h => houses'[g] = houses[g]
<1> DEFINE lock == locked(e.liability, e.stakes_collected)
           total == houses[h].total_locked + lock - e.locked
<1>1. /\ total \in U64
      /\ houses' = [houses EXCEPT ![h].total_locked = total]
      /\ exposures' = [exposures EXCEPT ![<<h, f>>] = [e EXCEPT !.locked = lock]]
  BY DEF ResyncLocks, Resynced
<1>2. lock \in U64
  <2>1. e.liability \in [Outcomes -> U64] /\ e.stakes_collected \in Nat
    BY DEF FixtureExposure, U64
  <2> QED
    BY <2>1, LockFact
<1> HIDE DEF lock
<1>3. houses[h] \in House
  BY DEF Exists
<1>4. [e EXCEPT !.locked = lock] \in FixtureExposure
  BY <1>2 DEF FixtureExposure
<1> HIDE DEF total
<1>5. [houses[h] EXCEPT !.total_locked = total] \in House
  BY <1>1, <1>3 DEF House
<1>6. /\ houses' \in [Houses -> House \cup {NoAccount}]
      /\ houses'[h].total_locked = total
      /\ \A g \in Houses : g # h => houses'[g] = houses[g]
  <2>1. houses' = [houses EXCEPT ![h] = [houses[h] EXCEPT !.total_locked = total]]
    BY <1>1
  <2>2. [houses[h] EXCEPT !.total_locked = total].total_locked = total
    BY <1>3 DEF House
  <2> QED
    BY <1>5, <2>1, <2>2
<1>7. /\ exposures' \in [Houses \X Fixtures -> FixtureExposure \cup {NoAccount}]
      /\ exposures'[<<h, f>>] \in FixtureExposure
  BY <1>1, <1>4
<1>8. lock <= e.locked => total <= houses[h].total_locked
  <2>1. e.locked \in Nat /\ houses[h].total_locked \in Nat /\ lock \in Nat
    BY <1>2, <1>3, ConstantsAssumption DEF FixtureExposure, House, U64
  <2> QED
    BY <2>1 DEF total
<1> QED
  BY <1>6, <1>7, <1>8 DEF lock

(* The total a resync leaves is the one that was checked. *)
LEMMA ResyncTotal ==
    ASSUME TypeOK, NEW h \in Houses, NEW f, NEW e, Exists(houses[h]), ResyncLocks(h, f, e)
    PROVE  houses'[h].total_locked = Resynced(h, e)
<1> DEFINE total == Resynced(h, e)
<1>1. houses' = [houses EXCEPT ![h].total_locked = total]
  BY DEF ResyncLocks
<1>2. houses[h] \in House
  BY DEF TypeOK, Exists
<1> HIDE DEF total
<1>3. houses'[h].total_locked = total
  BY <1>1, <1>2 DEF TypeOK, House
<1> QED
  BY <1>3 DEF total

(* So a resync keeps all locks in sync. *)
LEMMA ResyncKeepsSync ==
    ASSUME LocksInSync,
           exposures \in [Houses \X Fixtures -> FixtureExposure \cup {NoAccount}],
           NEW h \in Houses, NEW f \in Fixtures,
           NEW e \in FixtureExposure,
           ResyncLocks(h, f, e)
    PROVE  LocksInSync'
<1> DEFINE lock == locked(e.liability, e.stakes_collected)
<1>1. exposures' = [exposures EXCEPT ![<<h, f>>] = [e EXCEPT !.locked = lock]]
  BY DEF ResyncLocks
<1> HIDE DEF lock
<1>2. SUFFICES ASSUME NEW g \in Houses, NEW k \in Fixtures,
                      Exists(exposures[<<g, k>>])'
               PROVE  (exposures[<<g, k>>].locked = locked(exposures[<<g, k>>].liability,
                                                   exposures[<<g, k>>].stakes_collected))'
  BY DEF LocksInSync
<1>3. CASE g = h /\ k = f
  <2>1. /\ [e EXCEPT !.locked = lock].locked = lock
        /\ [e EXCEPT !.locked = lock].liability = e.liability
        /\ [e EXCEPT !.locked = lock].stakes_collected = e.stakes_collected
    BY DEF FixtureExposure
  <2>2. exposures'[<<g, k>>] = [e EXCEPT !.locked = lock]
    BY <1>1, <1>3
  <2> QED
    BY <2>1, <2>2 DEF lock
<1>4. CASE <<g, k>> # <<h, f>>
  <2>1. exposures'[<<g, k>>] = exposures[<<g, k>>]
    BY <1>1, <1>4
  <2> QED
    BY <1>2, <2>1 DEF LocksInSync, Exists
<1> QED
  BY <1>3, <1>4

(* A bet that is there is of type Bet, and the accounts loaded with it are *)
(* of theirs.                                                              *)
LEMMA BetFact ==
    ASSUME TypeOK, NEW bettor \in Bettors, NEW nonce \in Nonces, IsBet(bettor, nonce)
    PROVE  /\ bets[<<bettor, nonce>>] \in Bet
           /\ Loaded(bets[<<bettor, nonce>>]) =>
                /\ config \in ConfigParams
                /\ houses[bets[<<bettor, nonce>>].house] \in House
                /\ exposures[<<bets[<<bettor, nonce>>].house,
                               bets[<<bettor, nonce>>].fixture_id>>] \in FixtureExposure
<1> DEFINE bet == bets[<<bettor, nonce>>]
<1>1. bet \in Bet
  BY DEF TypeOK, IsBet, Exists
<1>2. bet.house \in Houses /\ bet.fixture_id \in Fixtures
  BY <1>1 DEF Bet
<1> HIDE DEF bet
<1>3. Loaded(bet) =>
        /\ config \in ConfigParams
        /\ houses[bet.house] \in House
        /\ exposures[<<bet.house, bet.fixture_id>>] \in FixtureExposure
  BY <1>2 DEF TypeOK, Loaded, Exists
<1> QED
  BY <1>1, <1>3 DEF bet

(* What the escrow pays is taken from it and from no house.                *)
LEMMA EscrowPays ==
    ASSUME NEW bal \in [TokenAccounts -> Nat], NEW to \in TokenAccounts, to # Escrow,
           NEW n \in Nat, n <= bal[Escrow]
    PROVE  /\ Moved(bal, Escrow, to, n) \in [TokenAccounts -> Nat]
           /\ Moved(bal, Escrow, to, n)[Escrow] = bal[Escrow] - n
           /\ \A h \in Houses : Moved(bal, Escrow, to, n)[h] >= bal[h]
<1>1. Escrow \in TokenAccounts /\ Escrow \notin Houses /\ Houses \subseteq TokenAccounts
  BY AccountsFact
<1>2. Moved(bal, Escrow, to, n) \in [TokenAccounts -> Nat]
  BY <1>1, MovedFact
<1>3. Moved(bal, Escrow, to, n)[Escrow] = bal[Escrow] - n
  BY <1>1 DEF Moved
<1>4. \A h \in Houses : Moved(bal, Escrow, to, n)[h] >= bal[h]
  BY <1>1 DEF Moved
<1> QED
  BY <1>2, <1>3, <1>4

(* What a reward takes out of the escrow: nothing if it is paid to itself. *)
RewardLeaving(cranker_token) ==
    IF cranker_token = Escrow THEN 0 ELSE config.keeper_reward

(* So for whichever account the cranker names.                             *)
LEMMA EscrowRewards ==
    ASSUME NEW bal \in [TokenAccounts -> Nat], NEW cranker_token \in RewardAccounts,
           config.keeper_reward \in Nat, config.keeper_reward <= bal[Escrow]
    PROVE  LET after == Moved(bal, Escrow, cranker_token, config.keeper_reward)
           IN  /\ after \in [TokenAccounts -> Nat]
               /\ after[Escrow] = bal[Escrow] - RewardLeaving(cranker_token)
               /\ \A h \in Houses : after[h] >= bal[h]
<1>1. cranker_token \in TokenAccounts /\ Escrow \in TokenAccounts
  BY AccountsFact
<1>2. CASE cranker_token # Escrow
  BY <1>1, <1>2, EscrowPays DEF RewardLeaving
<1>3. CASE cranker_token = Escrow
  <2>1. bal[Escrow] \in Nat
    BY <1>1
  <2> DEFINE n == config.keeper_reward
             taken == [bal EXCEPT ![Escrow] = bal[Escrow] - n]
  <2>2. n \in Nat /\ bal[Escrow] - n + n = bal[Escrow]
    BY <2>1
  <2>3. taken[Escrow] = bal[Escrow] - n /\ [taken EXCEPT ![Escrow] = bal[Escrow]] = bal
    BY <1>1
  <2>4. Moved(bal, Escrow, cranker_token, n) = bal
    BY <1>3, <2>2, <2>3 DEF Moved
  <2>5. \A h \in Houses : bal[h] \in Nat
    BY AccountsFact
  <2> QED
    BY <1>3, <2>1, <2>4, <2>5 DEF RewardLeaving
<1> QED
  BY <1>2, <1>3

(* The payments of a fill come out of the escrow, and no house loses by    *)
(* them.                                                                   *)
LEMMA FillPaymentsFact ==
    ASSUME token \in [TokenAccounts -> Nat], config \in ConfigParams,
           NEW bet \in Bet, NEW cranker_token \in RewardAccounts,
           token[Escrow] >= bet.stake + bet.frontend_fee + bet.protocol_fee
                            + config.keeper_reward
    PROVE  /\ FillPayments(bet, cranker_token) \in [TokenAccounts -> Nat]
           /\ FillPayments(bet, cranker_token)[Escrow] =
                token[Escrow] - (bet.stake + bet.frontend_fee + bet.protocol_fee
                                 + RewardLeaving(cranker_token))
           /\ \A h \in Houses : FillPayments(bet, cranker_token)[h] >= token[h]
<1> DEFINE reward == config.keeper_reward
           staked == Moved(token, Escrow, bet.house, bet.stake)
           frontend_paid == Moved(staked, Escrow, bet.frontend, bet.frontend_fee)
           protocol_paid == Moved(frontend_paid, Escrow, Treasury, bet.protocol_fee)
           rewarded == Moved(protocol_paid, Escrow, cranker_token, reward)
<1>1. /\ bet.stake \in Nat /\ bet.frontend_fee \in Nat /\ bet.protocol_fee \in Nat
      /\ bet.house \in Houses /\ bet.frontend \in Frontends
      /\ reward \in Nat
  BY ConstantsAssumption DEF Bet, U64, ConfigParams
<1>2. /\ Escrow \in TokenAccounts
      /\ bet.house \in TokenAccounts /\ bet.frontend \in TokenAccounts
      /\ Treasury \in TokenAccounts
      /\ Escrow # bet.house /\ Escrow # bet.frontend
      /\ Escrow # Treasury
      /\ Escrow \notin Houses /\ Houses \subseteq TokenAccounts
  BY <1>1, AccountsFact
<1>3. token[Escrow] \in Nat
  BY <1>2
<1>4. token[Escrow] >= bet.stake + bet.frontend_fee + bet.protocol_fee + reward
  OBVIOUS
<1> HIDE DEF reward, staked, frontend_paid, protocol_paid, rewarded
<1>5. /\ staked \in [TokenAccounts -> Nat]
      /\ staked[Escrow] = token[Escrow] - bet.stake
      /\ \A h \in Houses : staked[h] >= token[h]
  <2>1. bet.stake <= token[Escrow]
    BY <1>1, <1>3, <1>4
  <2> QED
    BY <1>1, <1>2, <2>1, EscrowPays DEF staked
<1>6. /\ frontend_paid \in [TokenAccounts -> Nat]
      /\ frontend_paid[Escrow] = token[Escrow] - bet.stake - bet.frontend_fee
      /\ \A h \in Houses : frontend_paid[h] >= token[h]
  <2>1. bet.frontend_fee <= staked[Escrow]
    BY <1>1, <1>3, <1>4, <1>5
  <2>2. /\ frontend_paid \in [TokenAccounts -> Nat]
        /\ frontend_paid[Escrow] = staked[Escrow] - bet.frontend_fee
        /\ \A h \in Houses : frontend_paid[h] >= staked[h]
    BY <1>1, <1>2, <1>5, <2>1, EscrowPays DEF frontend_paid
  <2> QED
    BY <1>1, <1>2, <1>3, <1>5, <2>2
<1>7. /\ protocol_paid \in [TokenAccounts -> Nat]
      /\ protocol_paid[Escrow] =
            token[Escrow] - bet.stake - bet.frontend_fee - bet.protocol_fee
      /\ \A h \in Houses : protocol_paid[h] >= token[h]
  <2>1. bet.protocol_fee <= frontend_paid[Escrow]
    BY <1>1, <1>3, <1>4, <1>6
  <2>2. /\ protocol_paid \in [TokenAccounts -> Nat]
        /\ protocol_paid[Escrow] = frontend_paid[Escrow] - bet.protocol_fee
        /\ \A h \in Houses : protocol_paid[h] >= frontend_paid[h]
    BY <1>1, <1>2, <1>6, <2>1, EscrowPays DEF protocol_paid
  <2> QED
    BY <1>1, <1>2, <1>3, <1>6, <2>2
<1>8. /\ rewarded \in [TokenAccounts -> Nat]
      /\ rewarded[Escrow] =
            token[Escrow] - (bet.stake + bet.frontend_fee + bet.protocol_fee
                             + RewardLeaving(cranker_token))
      /\ \A h \in Houses : rewarded[h] >= token[h]
  <2>1. reward <= protocol_paid[Escrow]
    BY <1>1, <1>3, <1>4, <1>7
  <2>2. /\ rewarded \in [TokenAccounts -> Nat]
        /\ rewarded[Escrow] = protocol_paid[Escrow] - RewardLeaving(cranker_token)
        /\ \A h \in Houses : rewarded[h] >= protocol_paid[h]
    BY <1>1, <1>7, <2>1, EscrowRewards DEF rewarded, reward
  <2>3. RewardLeaving(cranker_token) \in Nat
    BY <1>1 DEF RewardLeaving, reward
  <2> QED
    BY <1>1, <1>2, <1>3, <1>7, <2>2, <2>3
<1>9. FillPayments(bet, cranker_token) = rewarded
  BY DEF FillPayments, rewarded, protocol_paid, frontend_paid, staked, reward
<1> QED
  BY <1>8, <1>9 DEF reward

(* And the bet's house gains the stake, or with the reward even more.      *)
LEMMA FillPaysHouse ==
    ASSUME token \in [TokenAccounts -> Nat], config \in ConfigParams,
           NEW bet \in Bet, NEW cranker_token \in RewardAccounts,
           token[Escrow] >= bet.stake + bet.frontend_fee + bet.protocol_fee
                            + config.keeper_reward
    PROVE  FillPayments(bet, cranker_token)[bet.house] >= token[bet.house] + bet.stake
<1> DEFINE reward == config.keeper_reward
           staked == Moved(token, Escrow, bet.house, bet.stake)
           frontend_paid == Moved(staked, Escrow, bet.frontend, bet.frontend_fee)
           protocol_paid == Moved(frontend_paid, Escrow, Treasury, bet.protocol_fee)
<1>1. /\ bet.house \in TokenAccounts /\ bet.frontend \in TokenAccounts
      /\ Treasury \in TokenAccounts /\ cranker_token \in TokenAccounts
      /\ bet.house \notin {Escrow, Treasury, bet.frontend}
      /\ Escrow \in TokenAccounts
      /\ bet.stake \in Nat /\ reward \in Nat
  BY ConstantsAssumption DEF Bet, U64, TokenAccounts, ConfigParams
<1>2. DOMAIN token = TokenAccounts /\ token[bet.house] \in Nat
  BY <1>1
<1>3. DOMAIN staked = TokenAccounts /\ staked[bet.house] = token[bet.house] + bet.stake
  BY <1>1, <1>2 DEF Moved
<1> HIDE DEF staked
<1>4. DOMAIN frontend_paid = TokenAccounts /\ frontend_paid[bet.house] = staked[bet.house]
  BY <1>1, <1>3 DEF Moved
<1> HIDE DEF frontend_paid
<1>5. DOMAIN protocol_paid = TokenAccounts /\ protocol_paid[bet.house] = staked[bet.house]
  BY <1>1, <1>4 DEF Moved
<1> HIDE DEF protocol_paid
<1>6. \/ Moved(protocol_paid, Escrow, cranker_token, reward)[bet.house] = staked[bet.house]
      \/ Moved(protocol_paid, Escrow, cranker_token, reward)[bet.house] =
            staked[bet.house] + reward
  BY <1>1, <1>5 DEF Moved
<1>7. FillPayments(bet, cranker_token) = Moved(protocol_paid, Escrow, cranker_token, reward)
  BY DEF FillPayments, protocol_paid, frontend_paid, staked
<1> QED
  BY <1>1, <1>2, <1>3, <1>6, <1>7

-----------------------------------------------------------------------------
(* One lemma per instruction that moves a book: types are kept, and every  *)
(* other house keeps its total and its tokens.                             *)

OthersKept(h) ==
    \A g \in Houses : g # h => houses'[g] = houses[g] /\ token'[g] >= token[g]

(* commit_bet reserves and escrows. *)
LEMMA CommitBetTypes ==
    ASSUME TypeOK, NEW order \in Orders, CommitBet(order)
    PROVE  /\ TypeOK'
           /\ OthersKept(order.house)
           /\ token'[order.house] = token[order.house]
           /\ LocksInSync => LocksInSync'
           /\ bets'[<<order.bettor, order.nonce>>] \in Bet
           /\ exposures'[<<order.house, order.fixture_id>>] \in FixtureExposure
<1> DEFINE h == order.house
           f == order.fixture_id
           o == order.outcome
           b == order.bettor
           house == houses[h]
           book == BookOf(h, f)
           reservation == reserved(order.stake, house.params.odds_cap)
           frontend_fee == TruncatedFee(order.stake, frontends[order.frontend].fee_bps)
           protocol_fee == TruncatedFee(order.stake, config.protocol_fee_bps)
           escrow_total == order.stake + frontend_fee + protocol_fee + KeeperEscrow
           e == [book EXCEPT !.liability[o] = @ + reservation, !.open_bets = @ + 1]
           bet == NewBet(order, reservation, frontend_fee, protocol_fee)
<1>1. /\ h \in Houses /\ f \in Fixtures /\ o \in Outcomes /\ b \in Bettors
      /\ order.stake \in U64 /\ order.frontend \in Frontends
      /\ order.nonce \in Nonces /\ order.start_time_ms \in Int
  BY ConstantsAssumption DEF Order
<1>2. /\ Exists(config) /\ Exists(house) /\ Exists(frontends[order.frontend])
      /\ book.liability[o] + reservation \in U64
      /\ Resynced(h, e) \in U64 /\ ResyncLocks(h, f, e)
      /\ escrow_total \in U64
      /\ token[b] >= escrow_total
      /\ token' = Moved(token, b, Escrow, escrow_total)
      /\ bets' = [bets EXCEPT ![<<b, order.nonce>>] = bet]
      /\ UNCHANGED <<config, frontends, filters, prints, unix_timestamp, scores>>
  BY DEF CommitBet, CanCommit, CommittedBook, Reservation, FrontendFeeOf, ProtocolFeeOf,
         EscrowTotal
<1>3. house \in House /\ config \in ConfigParams /\ frontends[order.frontend].fee_bps \in Nat
  BY <1>1, <1>2 DEF TypeOK, Exists
<1>4. book \in FixtureExposure
  <2>1. NewExposure \in FixtureExposure
    BY ConstantsAssumption DEF NewExposure, FixtureExposure, U64
  <2> QED
    BY <1>1, <2>1 DEF BookOf, Exists, TypeOK
<1>5. reservation \in Nat
  <2>1. order.stake \in Nat /\ house.params.odds_cap \in Nat
    BY <1>1, <1>3 DEF House, HouseParams, U64
  <2> QED
    BY <2>1, AtOddsFact DEF reserved
<1>6. frontend_fee \in U64 /\ protocol_fee \in U64
  <2>1. order.stake \in Nat /\ config.protocol_fee_bps \in Nat
    BY <1>1, <1>3 DEF ConfigParams, U64
  <2> QED
    BY <1>3, <2>1, FeeFact
<1> HIDE DEF reservation, frontend_fee, protocol_fee, book, house
<1>7. reservation \in U64
  <2>1. book.liability[o] \in Nat
    BY <1>1, <1>4, ConstantsAssumption DEF FixtureExposure, U64
  <2> QED
    BY <1>2, <1>5, <2>1, ConstantsAssumption DEF U64
<1>8. e \in FixtureExposure
  <2>1. [book.liability EXCEPT ![o] = @ + reservation] \in [Outcomes -> U64]
    BY <1>1, <1>2, <1>4 DEF FixtureExposure
  <2>2. book.open_bets + 1 \in Nat
    BY <1>4 DEF FixtureExposure
  <2> QED
    BY <1>4, <2>1, <2>2 DEF FixtureExposure
<1> HIDE DEF e
<1>9. bet \in Bet
  <2>1. now_ms \in Int /\ now_ms + config.commit_delay_ms \in Int
    BY <1>3 DEF TypeOK, now_ms, ConfigParams
  <2>2. /\ KEEPER_CRANKS \in Nat /\ 0 \in Int /\ 0 \in Nat
        /\ "Pending" \in BetState
    BY DEF KEEPER_CRANKS, BetState
  <2> QED
    BY <1>1, <1>6, <1>7, <2>1, <2>2 DEF NewBet, Bet
<1> HIDE DEF bet
<1>10. /\ bets' \in [Bettors \X Nonces -> Bet \cup {NoAccount}]
       /\ bets'[<<b, order.nonce>>] \in Bet
  BY <1>1, <1>2, <1>9 DEF TypeOK
<1> HIDE DEF escrow_total
<1>11. /\ token' \in [TokenAccounts -> Nat]
       /\ \A g \in Houses : token'[g] = token[g]
  <2>1. /\ b \in TokenAccounts /\ Escrow \in TokenAccounts /\ b # Escrow
        /\ \A g \in Houses : g \in TokenAccounts /\ g \notin {b, Escrow}
    BY <1>1, AccountsFact
  <2>2. escrow_total \in Nat /\ escrow_total <= token[b] /\ token \in [TokenAccounts -> Nat]
    BY <1>2, <2>1 DEF U64, TypeOK
  <2> QED
    BY <1>2, <2>1, <2>2, MovedFact
<1>12. /\ houses' \in [Houses -> House \cup {NoAccount}]
       /\ exposures' \in [Houses \X Fixtures -> FixtureExposure \cup {NoAccount}]
       /\ exposures'[<<h, f>>] \in FixtureExposure
       /\ \A g \in Houses : g # h => houses'[g] = houses[g]
  BY <1>1, <1>2, <1>8, ResyncFact DEF TypeOK, house
<1>13. TypeOK'
  BY <1>2, <1>10, <1>11, <1>12 DEF TypeOK
<1>14. OthersKept(h) /\ token'[h] = token[h]
  <2>1. \A g \in Houses : token[g] \in Nat
    BY AccountsFact DEF TypeOK
  <2> QED
    BY <1>1, <1>11, <1>12, <2>1 DEF OthersKept
<1>15. LocksInSync => LocksInSync'
  <2>1. exposures \in [Houses \X Fixtures -> FixtureExposure \cup {NoAccount}]
    BY DEF TypeOK
  <2> QED
    BY <1>1, <1>2, <1>8, <2>1, ResyncKeepsSync
<1> QED
  BY <1>10, <1>12, <1>13, <1>14, <1>15

(* fill_bet pays out of the escrow and trues the reservation down. *)
LEMMA FillBetTypes ==
    ASSUME TypeOK, NEW cranker_token \in RewardAccounts,
           NEW bettor \in Bettors, NEW nonce \in Nonces,
           NEW commit_print \in prints, NEW target_print \in prints,
           FillBet(cranker_token, bettor, nonce, commit_print, target_print)
    PROVE  /\ TypeOK'
           /\ OthersKept(bets[<<bettor, nonce>>].house)
           /\ LocksInSync => LocksInSync'
           /\ bets'[<<bettor, nonce>>] \in Bet
           /\ exposures'[<<bets[<<bettor, nonce>>].house,
                           bets[<<bettor, nonce>>].fixture_id>>] \in FixtureExposure
           /\ LET bet == bets[<<bettor, nonce>>]
                  o == bet.outcome
                  odds == FillOddsFor(bet, commit_print, target_print)
              IN  odds <= commit_print.prices[o] /\ odds <= target_print.prices[o]
<1> DEFINE bet == bets[<<bettor, nonce>>]
           h == bet.house
           f == bet.fixture_id
           o == bet.outcome
           book == exposures[<<h, f>>]
           odds == FillOddsFor(bet, commit_print, target_print)
           pays == payout(bet.stake, odds)
           e == FilledBook(book, bet, pays)
           active == [bet EXCEPT !.fill_odds = odds,
                                 !.fill_ts_ms = target_print.ts,
                                 !.payout = pays,
                                 !.keeper_rewards_remaining = @ - 1,
                                 !.state = "Active"]
<1>1. /\ IsBet(bettor, nonce) /\ Loaded(bet)
      /\ bet.reserved <= book.liability[o]
      /\ pays <= bet.reserved
      /\ token[Escrow] >= bet.stake + bet.frontend_fee + bet.protocol_fee
                          + config.keeper_reward
      /\ token' = FillPayments(bet, cranker_token)
      /\ book.stakes_collected + bet.stake \in U64
      /\ Resynced(h, e) \in U64 /\ ResyncLocks(h, f, e)
      /\ bet.keeper_rewards_remaining >= 1
      /\ bets' = [bets EXCEPT ![<<bettor, nonce>>] = active]
      /\ UNCHANGED <<config, frontends, filters, prints, unix_timestamp, scores>>
  BY DEF FillBet, CanFill, InState
<1>2. /\ bet \in Bet /\ config \in ConfigParams
      /\ houses[h] \in House /\ book \in FixtureExposure
  BY <1>1, BetFact
<1> HIDE DEF bet
<1>3. /\ h \in Houses /\ f \in Fixtures /\ o \in Outcomes
      /\ bet.stake \in Nat /\ bet.reserved \in Nat /\ bet.keeper_rewards_remaining \in Nat
  BY <1>2, ConstantsAssumption DEF Bet, U64
<1> HIDE DEF book
<1>4. /\ commit_print.prices[o] \in Nat /\ target_print.prices[o] \in Nat
      /\ target_print.ts \in Int
  BY <1>3 DEF TypeOK, ProvenPrint
<1>5. /\ odds \in Nat
      /\ odds <= commit_print.prices[o] /\ odds <= target_print.prices[o]
  <2> DEFINE params == houses[h].params
             L == [book.liability EXCEPT ![o] = @ - bet.reserved]
             skew == skew_bps(params.skew_coeff_bps, L, o, params.max_risk_per_fixture)
  <2>1. L \in [Outcomes -> Nat]
    <3>1. book.liability \in [Outcomes -> Nat]
      BY <1>2, ConstantsAssumption DEF FixtureExposure, U64
    <3> QED
      BY <1>1, <1>3, <3>1
  <2>2. /\ params.skew_coeff_bps \in Nat /\ params.max_risk_per_fixture \in Nat
        /\ params.spread_bps \in Nat /\ params.odds_cap \in Nat
    BY <1>2 DEF House, HouseParams
  <2>3. skew \in Nat
    BY <1>3, <2>1, <2>2, SkewFact
  <2>4. odds = fill_odds(commit_print.prices[o], target_print.prices[o],
                         params.spread_bps, skew, params.odds_cap)
    BY DEF FillOddsFor, SkewFor, book
  <2> HIDE DEF odds, skew, L, params
  <2> QED
    BY <1>4, <2>2, <2>3, <2>4, FillOddsFact
<1> HIDE DEF odds
<1>6. pays \in Nat
  BY <1>3, <1>5, AtOddsFact DEF payout
<1> HIDE DEF pays
<1>7. e \in FixtureExposure
  <2>1. book.liability \in [Outcomes -> U64] /\ book.liability[o] \in Nat
    BY <1>2, <1>3, ConstantsAssumption DEF FixtureExposure, U64
  <2>2. book.liability[o] - (bet.reserved - pays) \in U64
    BY <1>1, <1>2, <1>3, <1>6, <2>1, ConstantsAssumption DEF U64
  <2>3. [book.liability EXCEPT ![o] = @ - (bet.reserved - pays)] \in [Outcomes -> U64]
    BY <2>1, <2>2
  <2> QED
    BY <1>1, <1>2, <2>3 DEF FilledBook, FixtureExposure
<1> HIDE DEF e
<1>8. active \in Bet
  <2>1. bet.keeper_rewards_remaining - 1 \in Nat /\ "Active" \in BetState
    BY <1>1, <1>3 DEF BetState
  <2> QED
    BY <1>2, <1>4, <1>5, <1>6, <2>1 DEF Bet
<1> HIDE DEF active
<1>9. /\ bets' \in [Bettors \X Nonces -> Bet \cup {NoAccount}]
      /\ bets'[<<bettor, nonce>>] \in Bet
  BY <1>1, <1>8 DEF TypeOK
<1>10. /\ token' \in [TokenAccounts -> Nat]
       /\ \A g \in Houses : token'[g] >= token[g]
  BY <1>1, <1>2, FillPaymentsFact DEF TypeOK
<1>11. /\ houses' \in [Houses -> House \cup {NoAccount}]
       /\ exposures' \in [Houses \X Fixtures -> FixtureExposure \cup {NoAccount}]
       /\ exposures'[<<h, f>>] \in FixtureExposure
       /\ \A g \in Houses : g # h => houses'[g] = houses[g]
  BY <1>1, <1>3, <1>7, ResyncFact DEF TypeOK, Loaded
<1>12. TypeOK'
  BY <1>1, <1>9, <1>10, <1>11 DEF TypeOK
<1>13. LocksInSync => LocksInSync'
  <2>1. exposures \in [Houses \X Fixtures -> FixtureExposure \cup {NoAccount}]
    BY DEF TypeOK
  <2> QED
    BY <1>1, <1>3, <1>7, <2>1, ResyncKeepsSync
<1> QED
  BY <1>5, <1>9, <1>10, <1>11, <1>12, <1>13 DEF OthersKept, odds, bet

(* What settle_bet and void_bet share: the house pays, the escrow rewards  *)
(* the cranker, and the bet leaves the book.                               *)
LEMMA ReleaseTypes ==
    ASSUME TypeOK, NEW cranker_token \in RewardAccounts,
           NEW bettor \in Bettors, NEW nonce \in Nonces,
           IsBet(bettor, nonce), NEW paid \in Nat, NEW state \in BetState,
           ReleaseAndReward(cranker_token, bettor, nonce, paid, state)
    PROVE  /\ TypeOK'
           /\ OthersKept(bets[<<bettor, nonce>>].house)
           /\ LocksInSync => LocksInSync'
           /\ bets'[<<bettor, nonce>>] \in Bet
           /\ exposures'[<<bets[<<bettor, nonce>>].house,
                           bets[<<bettor, nonce>>].fixture_id>>] \in FixtureExposure
<1> DEFINE bet == bets[<<bettor, nonce>>]
           h == bet.house
           f == bet.fixture_id
           o == bet.outcome
           book == exposures[<<h, f>>]
           reward == config.keeper_reward
           e == ReleasedBook(book, bet)
           ended == [bet EXCEPT !.keeper_rewards_remaining = @ - 1, !.state = state]
           settled == Moved(token, h, bettor, paid)
<1>1. /\ Loaded(bet)
      /\ token[h] >= paid
      /\ token[Escrow] >= reward
      /\ token' = Moved(settled, Escrow, cranker_token, reward)
      /\ bet.payout <= book.liability[o]
      /\ bet.stake <= book.stakes_collected
      /\ Resynced(h, e) \in U64 /\ ResyncLocks(h, f, e)
      /\ book.open_bets >= 1
      /\ bet.keeper_rewards_remaining >= 1
      /\ bets' = [bets EXCEPT ![<<bettor, nonce>>] = ended]
      /\ UNCHANGED <<config, frontends, filters, prints, unix_timestamp, scores>>
  BY DEF ReleaseAndReward, ReleasePayments
<1>2. /\ bet \in Bet /\ config \in ConfigParams
      /\ houses[h] \in House /\ book \in FixtureExposure
  BY <1>1, BetFact
<1> HIDE DEF bet
<1>3. /\ h \in Houses /\ f \in Fixtures /\ o \in Outcomes
      /\ bet.stake \in Nat /\ bet.payout \in Nat /\ bet.keeper_rewards_remaining \in Nat
      /\ reward \in Nat
  BY <1>2, ConstantsAssumption DEF Bet, U64, ConfigParams
<1> HIDE DEF book, reward
<1>4. e \in FixtureExposure
  <2>1. /\ book.liability \in [Outcomes -> U64] /\ book.liability[o] \in 0..MaxU64
        /\ book.stakes_collected \in 0..MaxU64 /\ book.open_bets \in Nat
    BY <1>2, <1>3 DEF FixtureExposure, U64
  <2>2. /\ book.liability[o] - bet.payout \in U64
        /\ book.stakes_collected - bet.stake \in U64
        /\ book.open_bets - 1 \in Nat
    BY <1>1, <1>3, <2>1, ConstantsAssumption DEF U64
  <2>3. [book.liability EXCEPT ![o] = @ - bet.payout] \in [Outcomes -> U64]
    BY <2>1, <2>2
  <2> QED
    BY <1>2, <2>2, <2>3 DEF ReleasedBook, FixtureExposure
<1> HIDE DEF e
<1>5. ended \in Bet
  <2>1. bet.keeper_rewards_remaining - 1 \in Nat
    BY <1>1, <1>3
  <2> QED
    BY <1>2, <2>1 DEF Bet
<1> HIDE DEF ended
<1>6. /\ bets' \in [Bettors \X Nonces -> Bet \cup {NoAccount}]
      /\ bets'[<<bettor, nonce>>] \in Bet
  BY <1>1, <1>5 DEF TypeOK
<1>7. /\ settled \in [TokenAccounts -> Nat] /\ settled[Escrow] = token[Escrow]
      /\ \A g \in Houses : g # h => settled[g] >= token[g]
  <2>1. /\ h \in TokenAccounts /\ bettor \in TokenAccounts /\ Escrow \in TokenAccounts
        /\ Escrow \notin {h, bettor} /\ Houses \subseteq TokenAccounts
        /\ token \in [TokenAccounts -> Nat]
    BY <1>3, AccountsFact DEF TypeOK
  <2> QED
    BY <1>1, <2>1, MovedFact
<1> HIDE DEF settled
<1>8. /\ token' \in [TokenAccounts -> Nat]
      /\ \A g \in Houses : token'[g] >= settled[g]
  BY <1>1, <1>3, <1>7, EscrowRewards DEF reward
<1>9. /\ houses' \in [Houses -> House \cup {NoAccount}]
      /\ exposures' \in [Houses \X Fixtures -> FixtureExposure \cup {NoAccount}]
      /\ exposures'[<<h, f>>] \in FixtureExposure
      /\ \A g \in Houses : g # h => houses'[g] = houses[g]
  BY <1>1, <1>3, <1>4, ResyncFact DEF TypeOK, Loaded
<1>10. TypeOK'
  BY <1>1, <1>6, <1>8, <1>9 DEF TypeOK
<1>11. OthersKept(h)
  <2>1. \A g \in Houses : token[g] \in Nat /\ settled[g] \in Nat /\ token'[g] \in Nat
    BY <1>7, <1>8, AccountsFact DEF TypeOK
  <2> QED
    BY <1>7, <1>8, <1>9, <2>1 DEF OthersKept
<1>12. LocksInSync => LocksInSync'
  <2>1. exposures \in [Houses \X Fixtures -> FixtureExposure \cup {NoAccount}]
    BY DEF TypeOK
  <2> QED
    BY <1>1, <1>3, <1>4, <2>1, ResyncKeepsSync
<1> QED
  BY <1>6, <1>9, <1>10, <1>11, <1>12 DEF bet

(* refund_commit pays from the escrow alone and, while locks are in sync,  *)
(* never raises the house's total.                                         *)
LEMMA RefundCommitTypes ==
    ASSUME TypeOK, NEW bettor \in Bettors, NEW nonce \in Nonces,
           RefundCommit(bettor, nonce)
    PROVE  /\ TypeOK'
           /\ OthersKept(bets[<<bettor, nonce>>].house)
           /\ LocksInSync => LocksInSync'
           /\ bets'[<<bettor, nonce>>] \in Bet
           /\ exposures'[<<bets[<<bettor, nonce>>].house,
                           bets[<<bettor, nonce>>].fixture_id>>] \in FixtureExposure
           /\ LET h == bets[<<bettor, nonce>>].house
              IN  /\ token'[h] >= token[h]
                  /\ LocksInSync => houses'[h].total_locked <= houses[h].total_locked
<1> DEFINE bet == bets[<<bettor, nonce>>]
           h == bet.house
           f == bet.fixture_id
           o == bet.outcome
           book == exposures[<<h, f>>]
           e == UnreservedBook(book, bet)
           refund == RefundOf(bet)
<1>1. /\ IsBet(bettor, nonce) /\ Loaded(bet)
      /\ refund \in U64
      /\ token[Escrow] >= refund
      /\ token' = Moved(token, Escrow, bettor, refund)
      /\ bet.reserved <= book.liability[o]
      /\ Resynced(h, e) \in U64 /\ ResyncLocks(h, f, e)
      /\ book.open_bets >= 1
      /\ bets' = [bets EXCEPT ![<<bettor, nonce>>].state = "Refunded"]
      /\ UNCHANGED <<config, frontends, filters, prints, unix_timestamp, scores>>
  BY DEF RefundCommit, CanRefund, InState
<1>2. /\ bet \in Bet /\ houses[h] \in House /\ book \in FixtureExposure
  BY <1>1, BetFact
<1>3. bets' = [bets EXCEPT ![<<bettor, nonce>>] = [bet EXCEPT !.state = "Refunded"]]
  BY <1>1
<1> HIDE DEF bet, refund
<1>4. /\ h \in Houses /\ f \in Fixtures /\ o \in Outcomes /\ bet.reserved \in Nat
  BY <1>2, ConstantsAssumption DEF Bet, U64
<1> HIDE DEF book
<1>5. /\ book.liability \in [Outcomes -> Nat] /\ book.stakes_collected \in Nat
      /\ book.locked \in Nat
  BY <1>2, ConstantsAssumption DEF FixtureExposure, U64
<1>6. /\ e \in FixtureExposure
      /\ e.liability \in [Outcomes -> Nat]
      /\ \A p \in Outcomes : e.liability[p] <= book.liability[p]
      /\ e.stakes_collected = book.stakes_collected /\ e.locked = book.locked
  <2> DEFINE L == [book.liability EXCEPT ![o] = @ - bet.reserved]
  <2>1. /\ book.liability \in [Outcomes -> U64] /\ book.liability[o] \in 0..MaxU64
        /\ book.open_bets \in Nat
    BY <1>2, <1>4 DEF FixtureExposure, U64
  <2>2. /\ book.liability[o] - bet.reserved \in U64
        /\ book.open_bets - 1 \in Nat
    BY <1>1, <1>4, <2>1, ConstantsAssumption DEF U64
  <2>3. /\ L \in [Outcomes -> U64] /\ L \in [Outcomes -> Nat]
        /\ \A p \in Outcomes : L[p] <= book.liability[p]
    BY <1>4, <1>5, <2>1, <2>2, ConstantsAssumption DEF U64
  <2>4. /\ e.liability = L /\ e.stakes_collected = book.stakes_collected
        /\ e.locked = book.locked /\ e \in FixtureExposure
    <3> HIDE DEF L
    <3>1. e = [book EXCEPT !.liability = L, !.open_bets = @ - 1]
      BY DEF UnreservedBook, L
    <3> HIDE DEF e
    <3> QED
      BY <1>2, <2>2, <2>3, <3>1 DEF FixtureExposure
  <2> QED
    BY <2>3, <2>4
<1> HIDE DEF e
<1>7. /\ bets' \in [Bettors \X Nonces -> Bet \cup {NoAccount}]
      /\ bets'[<<bettor, nonce>>] \in Bet
  <2>1. [bet EXCEPT !.state = "Refunded"] \in Bet
    BY <1>2 DEF Bet, BetState
  <2> QED
    BY <1>3, <2>1 DEF TypeOK
<1>8. /\ token' \in [TokenAccounts -> Nat]
      /\ \A g \in Houses : token'[g] >= token[g]
  <2>1. /\ bettor \in TokenAccounts /\ Escrow # bettor /\ token \in [TokenAccounts -> Nat]
        /\ refund \in Nat
    BY <1>1, AccountsFact, ConstantsAssumption DEF TypeOK, U64
  <2> QED
    BY <1>1, <2>1, EscrowPays
<1>9. /\ houses' \in [Houses -> House \cup {NoAccount}]
      /\ exposures' \in [Houses \X Fixtures -> FixtureExposure \cup {NoAccount}]
      /\ exposures'[<<h, f>>] \in FixtureExposure
      /\ locked(e.liability, e.stakes_collected) <= e.locked
            => houses'[h].total_locked <= houses[h].total_locked
      /\ \A g \in Houses : g # h => houses'[g] = houses[g]
  <2>1. /\ houses \in [Houses -> House \cup {NoAccount}]
        /\ exposures \in [Houses \X Fixtures -> FixtureExposure \cup {NoAccount}]
        /\ Exists(houses[h]) /\ Resynced(h, e) \in U64 /\ ResyncLocks(h, f, e)
        /\ h \in Houses /\ f \in Fixtures /\ e \in FixtureExposure
    BY <1>1, <1>4, <1>6 DEF TypeOK, Loaded
  <2> HIDE DEF h, f
  <2> QED
    BY <2>1, ResyncFact
<1>10. TypeOK'
  BY <1>1, <1>7, <1>8, <1>9 DEF TypeOK
<1>11. OthersKept(h) /\ token'[h] >= token[h]
  BY <1>4, <1>8, <1>9 DEF OthersKept
<1>12. LocksInSync => houses'[h].total_locked <= houses[h].total_locked
  <2> SUFFICES ASSUME LocksInSync
               PROVE  houses'[h].total_locked <= houses[h].total_locked
    OBVIOUS
  <2> DEFINE lock == locked(e.liability, e.stakes_collected)
  <2>1. book.locked = locked(book.liability, book.stakes_collected)
    BY <1>1, <1>4 DEF LocksInSync, Loaded, book
  <2>2. lock <= e.locked
    BY <1>5, <1>6, <2>1, LockMonotone
  <2> QED
    BY <1>9, <2>2
<1>13. LocksInSync => LocksInSync'
  <2>1. exposures \in [Houses \X Fixtures -> FixtureExposure \cup {NoAccount}]
    BY DEF TypeOK
  <2> QED
    BY <1>1, <1>4, <1>6, <2>1, ResyncKeepsSync
<1> QED
  BY <1>7, <1>9, <1>10, <1>11, <1>12, <1>13 DEF bet

-----------------------------------------------------------------------------
(* The inductive invariant: VaultCoversLocks alone is not inductive, since *)
(* refund_commit changes a lock without looking at the vault.              *)
VaultInv == TypeOK /\ LocksInSync /\ VaultCoversLocks

(* A vault that covers its house's total keeps doing so when both stay.    *)
LEMMA CoversKept ==
    ASSUME TypeOK, TypeOK', VaultCoversLocks, NEW h \in Houses, OthersKept(h),
           Exists(houses'[h]) => token'[h] >= houses'[h].total_locked
    PROVE  VaultCoversLocks'
<1> SUFFICES ASSUME NEW g \in Houses, Exists(houses'[g])
             PROVE  token'[g] >= houses'[g].total_locked
  BY DEF VaultCoversLocks
<1>1. CASE g = h
  BY <1>1
<1>2. CASE g # h
  <2>1. houses'[g] = houses[g] /\ token'[g] >= token[g]
    BY <1>2 DEF OthersKept
  <2>2. token[g] >= houses[g].total_locked
    BY <2>1 DEF VaultCoversLocks
  <2>3. token[g] \in Nat /\ token'[g] \in Nat
    BY AccountsFact DEF TypeOK
  <2>4. houses[g].total_locked \in Nat
    BY <2>1, ConstantsAssumption DEF TypeOK, Exists, House, U64
  <2> QED
    BY <2>1, <2>2, <2>3, <2>4
<1> QED
  BY <1>1, <1>2

(* An instruction that leaves houses, books and tokens alone keeps the     *)
(* locks and their cover.                                                  *)
LEMMA UntouchedKept ==
    ASSUME LocksInSync, VaultCoversLocks, UNCHANGED <<houses, exposures, token>>
    PROVE  LocksInSync' /\ VaultCoversLocks'
  BY DEF LocksInSync, VaultCoversLocks, Exists

(* The empty chain satisfies the invariant. *)
LEMMA InitVaultInv == Init => VaultInv
<1> SUFFICES ASSUME Init
             PROVE  VaultInv
  OBVIOUS
<1>1. token \in [TokenAccounts -> Nat]
  <2>1. \A u \in Users : InitialWallet[u] \in Nat
    BY ConstantsAssumption
  <2> QED
    BY <2>1 DEF Init
<1>2. TypeOK
  BY <1>1 DEF Init, TypeOK
<1>3. LocksInSync
  BY DEF Init, LocksInSync, Exists
<1>4. VaultCoversLocks
  BY DEF Init, VaultCoversLocks, Exists
<1> QED
  BY <1>2, <1>3, <1>4 DEF VaultInv

(* Admin and registry instructions keep the invariant. *)
LEMMA AdminStep ==
    ASSUME VaultInv, AdminNext
    PROVE  VaultInv'
<1>1. ASSUME NEW p \in ConfigChoices, InitConfig(p) \/ UpdateConfig(p)
      PROVE  VaultInv'
  <2>1. TypeOK'
    BY <1>1, ConstantsAssumption DEF VaultInv, TypeOK, InitConfig, UpdateConfig
  <2>2. UNCHANGED <<houses, exposures, token>>
    BY <1>1 DEF InitConfig, UpdateConfig
  <2> QED
    BY <2>1, <2>2, UntouchedKept DEF VaultInv
<1>2. ASSUME NEW fe \in Frontends, NEW fee_bps \in FrontendFees,
             RegisterFrontend(fe, fee_bps)
      PROVE  VaultInv'
  <2>1. TypeOK'
    <3>1. [fee_bps |-> fee_bps] \in [fee_bps : Nat]
      BY ConstantsAssumption
    <3> QED
      BY <1>2, <3>1 DEF VaultInv, TypeOK, RegisterFrontend
  <2>2. UNCHANGED <<houses, exposures, token>>
    BY <1>2 DEF RegisterFrontend
  <2> QED
    BY <2>1, <2>2, UntouchedKept DEF VaultInv
<1> QED
  BY <1>1, <1>2 DEF AdminNext

(* The clock and the oracle keep the invariant. *)
LEMMA WorldStep ==
    ASSUME VaultInv, WorldNext
    PROVE  VaultInv'
<1>1. CASE Tick
  <2>1. TypeOK'
    BY <1>1 DEF VaultInv, TypeOK, Tick
  <2>2. UNCHANGED <<houses, exposures, token>>
    BY <1>1 DEF Tick
  <2> QED
    BY <2>1, <2>2, UntouchedKept DEF VaultInv
<1>2. ASSUME NEW ev \in ScoreEvents, PublishScore(ev)
      PROVE  VaultInv'
  <2>1. TypeOK'
    BY <1>2, ConstantsAssumption DEF VaultInv, TypeOK, PublishScore
  <2>2. UNCHANGED <<houses, exposures, token>>
    BY <1>2 DEF PublishScore
  <2> QED
    BY <2>1, <2>2, UntouchedKept DEF VaultInv
<1> QED
  BY <1>1, <1>2 DEF WorldNext

(* A house's owner keeps the invariant: by what leaves its total alone, ... *)
LEMMA HouseKept ==
    ASSUME VaultInv, NEW h \in Houses, Exists(houses[h]), NEW house \in House,
           house.total_locked = houses[h].total_locked,
           houses' = [houses EXCEPT ![h] = house],
           UNCHANGED <<config, frontends, filters, exposures, prints, bets, token,
                       unix_timestamp, scores>>
    PROVE  VaultInv'
<1> USE DEF VaultInv
<1>1. TypeOK'
  BY DEF TypeOK
<1>2. LocksInSync'
  BY DEF LocksInSync, Exists
<1>3. OthersKept(h) /\ token'[h] >= houses'[h].total_locked
  <2>1. \A g \in Houses : token[g] \in Nat
    BY AccountsFact DEF TypeOK
  <2> QED
    BY <2>1 DEF TypeOK, OthersKept, VaultCoversLocks
<1> QED
  BY <1>1, <1>2, <1>3, CoversKept

(* ... new parameters, ... *)
LEMMA ParamsStep ==
    ASSUME VaultInv, NEW h \in Houses, NEW p \in HouseParams, UpdateHouseParams(h, p)
    PROVE  VaultInv'
<1> USE DEF VaultInv
<1> DEFINE house == [houses[h] EXCEPT !.params = p]
<1>1. house \in House /\ house.total_locked = houses[h].total_locked
  BY ConstantsAssumption DEF UpdateHouseParams, TypeOK, Exists, House
<1>2. houses' = [houses EXCEPT ![h] = house]
  BY DEF UpdateHouseParams
<1> QED
  BY HouseKept, <1>1, <1>2 DEF UpdateHouseParams

(* ... a pause, ... *)
LEMMA PauseStep ==
    ASSUME VaultInv, NEW h \in Houses, NEW paused \in BOOLEAN, SetPaused(h, paused)
    PROVE  VaultInv'
<1> USE DEF VaultInv
<1> DEFINE house == [houses[h] EXCEPT !.paused = paused]
<1>1. house \in House /\ house.total_locked = houses[h].total_locked
  BY ConstantsAssumption DEF SetPaused, TypeOK, Exists, House
<1>2. houses' = [houses EXCEPT ![h] = house]
  BY DEF SetPaused
<1> QED
  BY HouseKept, <1>1, <1>2 DEF SetPaused

(* ... a policy, ... *)
LEMMA FiltersStep ==
    ASSUME VaultInv, NEW h \in Houses, NEW f \in HouseFilters, SetHouseFilters(h, f)
    PROVE  VaultInv'
<1> USE DEF VaultInv
<1>1. TypeOK'
  BY ConstantsAssumption DEF TypeOK, SetHouseFilters
<1>2. UNCHANGED <<houses, exposures, token>>
  BY DEF SetHouseFilters
<1> QED
  BY <1>1, <1>2, UntouchedKept

(* ... a deposit, ... *)
LEMMA DepositStep ==
    ASSUME VaultInv, NEW call \in DepositCall, Deposit(call)
    PROVE  VaultInv'
<1> USE DEF VaultInv
<1>1. /\ call.depositor \in Users /\ call.house \in Houses /\ call.amount \in Nat
  BY ConstantsAssumption DEF DepositCall
<1>2. /\ token' \in [TokenAccounts -> Nat]
      /\ \A g \in Houses : token'[g] >= token[g]
  <2>1. /\ call.depositor \in TokenAccounts /\ call.house \in TokenAccounts
        /\ call.amount <= token[call.depositor]
        /\ token' = Moved(token, call.depositor, call.house, call.amount)
        /\ \A g \in Houses : g \in TokenAccounts /\ g # call.depositor
        /\ token \in [TokenAccounts -> Nat]
    BY <1>1, AccountsFact DEF Deposit, TypeOK
  <2> QED
    BY <1>1, <2>1, MovedFact
<1>3. TypeOK'
  BY <1>2 DEF TypeOK, Deposit
<1>4. LocksInSync'
  BY DEF LocksInSync, Deposit, Exists
<1>5. /\ OthersKept(call.house)
      /\ Exists(houses'[call.house]) =>
              token'[call.house] >= houses'[call.house].total_locked
  <2>1. token[call.house] \in Nat /\ token'[call.house] \in Nat
    BY <1>1, <1>3, AccountsFact DEF TypeOK
  <2>2. houses[call.house].total_locked \in Nat
    BY <1>1, ConstantsAssumption DEF Deposit, TypeOK, Exists, House, U64
  <2>3. token[call.house] >= houses[call.house].total_locked /\ houses' = houses
    BY <1>1 DEF Deposit, VaultCoversLocks
  <2> QED
    BY <1>1, <1>2, <2>1, <2>2, <2>3 DEF OthersKept
<1> QED
  BY <1>1, <1>3, <1>4, <1>5, CoversKept

(* ... and a withdrawal. *)
LEMMA WithdrawStep ==
    ASSUME VaultInv, NEW call \in WithdrawCall, Withdraw(call)
    PROVE  VaultInv'
<1> USE DEF VaultInv
<1>1. /\ call.house \in Houses /\ call.destination \in TokenAccounts
      /\ call.amount \in Nat
  BY ConstantsAssumption DEF WithdrawCall
<1>2. /\ token' \in [TokenAccounts -> Nat]
      /\ \A g \in Houses : g # call.house => token'[g] >= token[g]
  <2>1. call.amount <= token[call.house] /\ call.house \in TokenAccounts
    <3>1. token[call.house] \in Nat /\ call.house \in TokenAccounts
      BY <1>1, AccountsFact DEF TypeOK
    <3>2. houses[call.house].total_locked \in Nat
      BY <1>1, ConstantsAssumption DEF Withdraw, CanWithdraw, TypeOK, Exists, House, U64
    <3>3. call.amount <= SatSub(token[call.house], houses[call.house].total_locked)
      BY DEF Withdraw, CanWithdraw, FreeCollateral
    <3> QED
      BY <1>1, <3>1, <3>2, <3>3 DEF SatSub
  <2>2. /\ token' = Moved(token, call.house, call.destination, call.amount)
        /\ token \in [TokenAccounts -> Nat] /\ Houses \subseteq TokenAccounts
    BY AccountsFact DEF Withdraw, WithdrawPayment, TypeOK
  <2> QED
    BY <1>1, <2>1, <2>2, MovedFact
<1>3. TypeOK'
  BY <1>2 DEF TypeOK, Withdraw
<1>4. LocksInSync'
  BY DEF LocksInSync, Withdraw, Exists
<1>5. OthersKept(call.house) /\ token'[call.house] >= houses'[call.house].total_locked
  BY <1>2 DEF OthersKept, Withdraw, CanWithdraw, VaultCovers
<1> QED
  BY <1>1, <1>3, <1>4, <1>5, CoversKept

(* What a house's owner does keeps the invariant. *)
LEMMA HouseStep ==
    ASSUME VaultInv, HouseNext
    PROVE  VaultInv'
<1> USE DEF VaultInv
<1>1. ASSUME NEW h \in Houses, NEW p \in HouseChoices, CreateHouse(h, p)
      PROVE  VaultInv'
  <2>1. [params |-> p, total_locked |-> 0, paused |-> FALSE] \in House
    BY ConstantsAssumption DEF House, U64
  <2>2. TypeOK'
    BY <1>1, <2>1 DEF TypeOK, CreateHouse
  <2>3. LocksInSync'
    BY <1>1 DEF LocksInSync, CreateHouse, Exists
  <2>4. OthersKept(h) /\ token'[h] >= houses'[h].total_locked
    <3>1. houses' = [houses EXCEPT ![h] =
            [params |-> p, total_locked |-> 0, paused |-> FALSE]] /\ token' = token
      BY <1>1 DEF CreateHouse
    <3>2. \A g \in Houses : token[g] \in Nat
      BY AccountsFact DEF TypeOK
    <3> QED
      BY <3>1, <3>2 DEF TypeOK, OthersKept
  <2> QED
    BY <2>2, <2>3, <2>4, CoversKept
<1>2. ASSUME NEW h \in Houses, NEW f \in Fixtures, CloseExposure(h, f)
      PROVE  VaultInv'
  <2>1. TypeOK'
    BY <1>2 DEF TypeOK, CloseExposure
  <2>2. LocksInSync'
    BY <1>2 DEF LocksInSync, CloseExposure, Exists, TypeOK
  <2>3. VaultCoversLocks'
    BY <1>2 DEF VaultCoversLocks, CloseExposure, Exists
  <2> QED
    BY <2>1, <2>2, <2>3
<1>3. ASSUME NEW h \in Houses,
             \/ \E p \in HouseChoices : UpdateHouseParams(h, p)
             \/ \E paused \in PauseChoices : SetPaused(h, paused)
             \/ \E f \in FilterChoices : SetHouseFilters(h, f)
      PROVE  VaultInv'
  BY <1>3, ConstantsAssumption, ParamsStep, PauseStep, FiltersStep
<1>4. ASSUME \/ \E call \in Deposits : Deposit(call)
             \/ \E call \in Withdrawals : Withdraw(call)
      PROVE  VaultInv'
  BY <1>4, ConstantsAssumption, DepositStep, WithdrawStep
<1> QED
  BY <1>1, <1>2, <1>3, <1>4 DEF HouseNext

(* Every step in the life of a bet keeps the invariant. *)
LEMMA BetStep ==
    ASSUME VaultInv, BetNext
    PROVE  VaultInv'
<1> USE DEF VaultInv
<1>1. ASSUME NEW order \in Orders, CommitBet(order)
      PROVE  VaultInv'
  <2>1. TypeOK' /\ OthersKept(order.house) /\ token'[order.house] = token[order.house]
    BY <1>1, CommitBetTypes
  <2>2. LocksInSync'
    BY <1>1, CommitBetTypes
  <2>3. order.house \in Houses
    BY ConstantsAssumption DEF Order
  <2>4. token[order.house] >= houses'[order.house].total_locked
    <3> DEFINE h == order.house
               e == CommittedBook(order)
    <3>1. /\ Exists(houses[h]) /\ ResyncLocks(h, order.fixture_id, e)
          /\ token[h] >= Resynced(h, e)
      BY <1>1 DEF CommitBet, CanCommit, WithinRisk
    <3> HIDE DEF h, e
    <3> QED
      BY <2>3, <3>1, ResyncTotal DEF h
  <2>5. token'[order.house] >= houses'[order.house].total_locked
    BY <2>1, <2>4
  <2> QED
    BY <2>1, <2>2, <2>3, <2>5, CoversKept
<1>2. ASSUME NEW cranker \in Crankers, NEW odds \in Feed, ProvePrint(cranker, odds)
      PROVE  VaultInv'
  <2> DEFINE print == [fixture_id |-> odds.fixture_id, ts |-> odds.ts,
                       prices |-> odds.prices, payer |-> cranker]
  <2>1. print \in ProvenPrint
    <3>1. odds \in Odds /\ cranker \in Users
      BY ConstantsAssumption, AccountsFact
    <3>2. odds.prices \in [Outcomes -> Nat]
      <4>1. odds.prices \in [Outcomes -> Int]
        BY <3>1 DEF Odds
      <4>2. \A o \in Outcomes : odds.prices[o] > 0
        BY <1>2 DEF ProvePrint, AllPriced
      <4>3. \A o \in Outcomes : odds.prices[o] \in Nat
        BY <4>1, <4>2
      <4> QED
        BY <4>1, <4>3
    <3> QED
      BY <3>1, <3>2 DEF Odds, ProvenPrint
  <2>2. TypeOK'
    <3>1. prints' = prints \cup {print}
      BY <1>2 DEF ProvePrint
    <3> HIDE DEF print
    <3> QED
      BY <1>2, <2>1, <3>1 DEF TypeOK, ProvePrint
  <2>3. UNCHANGED <<houses, exposures, token>>
    BY <1>2 DEF ProvePrint
  <2> QED
    BY <2>2, <2>3, UntouchedKept
<1>3. ASSUME NEW payer \in Crankers, NEW print \in prints, ClosePrint(payer, print)
      PROVE  VaultInv'
  <2>1. TypeOK'
    BY <1>3 DEF TypeOK, ClosePrint
  <2>2. UNCHANGED <<houses, exposures, token>>
    BY <1>3 DEF ClosePrint
  <2> QED
    BY <2>1, <2>2, UntouchedKept
<1>4. ASSUME NEW cranker_token \in RewardAccounts, NEW bettor \in Bettors, NEW nonce \in Nonces,
             NEW commit_print \in prints, NEW target_print \in prints,
             FillBet(cranker_token, bettor, nonce, commit_print, target_print)
      PROVE  VaultInv'
  <2> DEFINE h == bets[<<bettor, nonce>>].house
  <2>1. TypeOK' /\ OthersKept(h)
    BY <1>4, FillBetTypes
  <2>2. LocksInSync'
    BY <1>4, FillBetTypes
  <2>3. h \in Houses
    BY <1>4, BetFact DEF FillBet, CanFill, InState, Bet
  <2>4. token'[h] >= houses'[h].total_locked
    <3> DEFINE bet == bets[<<bettor, nonce>>]
               f == bet.fixture_id
               e == FilledBook(exposures[<<h, f>>], bet,
                               payout(bet.stake, FillOddsFor(bet, commit_print, target_print)))
    <3>1. /\ Exists(houses[h]) /\ ResyncLocks(h, f, e)
          /\ token'[h] >= Resynced(h, e)
      BY <1>4 DEF FillBet, CanFill, Loaded, VaultCovers
    <3> HIDE DEF h, f, e
    <3> QED
      BY <2>3, <3>1, ResyncTotal
  <2> QED
    BY <2>1, <2>2, <2>3, <2>4, CoversKept
<1>5. ASSUME NEW cranker_token \in RewardAccounts, NEW bettor \in Bettors, NEW nonce \in Nonces,
             IsBet(bettor, nonce), NEW paid \in Nat, NEW state \in BetState,
             ReleaseAndReward(cranker_token, bettor, nonce, paid, state)
      PROVE  VaultInv'
  <2> DEFINE h == bets[<<bettor, nonce>>].house
  <2>1. TypeOK' /\ OthersKept(h)
    BY <1>5, ReleaseTypes
  <2>2. LocksInSync'
    BY <1>5, ReleaseTypes
  <2>3. h \in Houses
    BY <1>5, BetFact DEF Bet
  <2>4. token'[h] >= houses'[h].total_locked
    <3> DEFINE bet == bets[<<bettor, nonce>>]
               f == bet.fixture_id
               e == ReleasedBook(exposures[<<h, f>>], bet)
    <3>1. /\ Exists(houses[h]) /\ ResyncLocks(h, f, e)
          /\ token'[h] >= Resynced(h, e)
      BY <1>5 DEF ReleaseAndReward, Loaded, VaultCovers
    <3> HIDE DEF h, f, e
    <3> QED
      BY <2>3, <3>1, ResyncTotal
  <2> QED
    BY <2>1, <2>2, <2>3, <2>4, CoversKept
<1>6. ASSUME NEW cranker_token \in RewardAccounts, NEW bettor \in Bettors, NEW nonce \in Nonces,
             NEW ev \in scores, SettleBet(cranker_token, bettor, nonce, ev)
      PROVE  VaultInv'
  <2>1. IsBet(bettor, nonce)
    BY <1>6 DEF SettleBet, InState
  <2>2. bets[<<bettor, nonce>>].payout \in Nat /\ 0 \in Nat
    BY <2>1, BetFact DEF Bet
  <2>3. "Won" \in BetState /\ "Lost" \in BetState
    BY DEF BetState
  <2>4. PICK paid \in Nat, state \in BetState :
            ReleaseAndReward(cranker_token, bettor, nonce, paid, state)
    <3>1. CASE ResultOf(ev) = bets[<<bettor, nonce>>].outcome
      BY <1>6, <2>2, <2>3, <3>1 DEF SettleBet
    <3>2. CASE ResultOf(ev) # bets[<<bettor, nonce>>].outcome
      BY <1>6, <2>2, <2>3, <3>2 DEF SettleBet
    <3> QED
      BY <3>1, <3>2
  <2> QED
    BY <1>5, <2>1, <2>4
<1>7. ASSUME NEW cranker_token \in RewardAccounts, NEW bettor \in Bettors, NEW nonce \in Nonces,
             VoidBet(cranker_token, bettor, nonce)
      PROVE  VaultInv'
  <2>1. IsBet(bettor, nonce)
    BY <1>7 DEF VoidBet, InState
  <2>2. bets[<<bettor, nonce>>].stake \in Nat
    <3>1. bets[<<bettor, nonce>>].stake \in U64
      BY <2>1, BetFact DEF Bet
    <3> QED
      BY <3>1, ConstantsAssumption DEF U64
  <2>3. "Voided" \in BetState
    BY DEF BetState
  <2>4. ReleaseAndReward(cranker_token, bettor, nonce, bets[<<bettor, nonce>>].stake, "Voided")
    BY <1>7 DEF VoidBet
  <2> QED
    BY <1>5, <2>1, <2>2, <2>3, <2>4
<1>8. ASSUME NEW bettor \in Bettors, NEW nonce \in Nonces, RefundCommit(bettor, nonce)
      PROVE  VaultInv'
  <2> DEFINE h == bets[<<bettor, nonce>>].house
  <2>1. /\ TypeOK' /\ OthersKept(h) /\ token'[h] >= token[h]
        /\ LocksInSync => houses'[h].total_locked <= houses[h].total_locked
    BY <1>8, RefundCommitTypes
  <2>2. LocksInSync'
    BY <1>8, RefundCommitTypes
  <2>3. IsBet(bettor, nonce) /\ Exists(houses[h])
    BY <1>8 DEF RefundCommit, CanRefund, InState, Loaded
  <2>4. h \in Houses
    BY <2>3, BetFact DEF Bet
  <2>5. Exists(houses'[h]) => token'[h] >= houses'[h].total_locked
    <3> SUFFICES ASSUME Exists(houses'[h])
                 PROVE  token'[h] >= houses'[h].total_locked
      OBVIOUS
    <3> HIDE DEF h
    <3>1. /\ token[h] \in Nat /\ token'[h] \in Nat
      BY <2>1, <2>4, AccountsFact DEF TypeOK
    <3>2. houses[h] \in House /\ houses'[h] \in House
      BY <2>1, <2>3, <2>4 DEF TypeOK, Exists
    <3>3. houses[h].total_locked \in Nat /\ houses'[h].total_locked \in Nat
      BY <3>2, ConstantsAssumption DEF House, U64
    <3>4. token[h] >= houses[h].total_locked
      BY <2>3, <2>4 DEF VaultCoversLocks
    <3> QED
      BY <2>1, <3>1, <3>3, <3>4
  <2> QED
    BY <2>1, <2>2, <2>4, <2>5, CoversKept
<1>9. ASSUME NEW bettor \in Bettors, NEW nonce \in Nonces, CloseBet(bettor, nonce)
      PROVE  VaultInv'
  <2>1. TypeOK'
    BY <1>9 DEF TypeOK, CloseBet
  <2>2. UNCHANGED <<houses, exposures, token>>
    BY <1>9 DEF CloseBet
  <2> QED
    BY <2>1, <2>2, UntouchedKept
<1> QED
  BY <1>1, <1>2, <1>3, <1>4, <1>6, <1>7, <1>8, <1>9 DEF BetNext

(* No step, and no stutter, breaks the invariant. *)
LEMMA NextVaultInv == VaultInv /\ [Next]_vars => VaultInv'
<1> SUFFICES ASSUME VaultInv, [Next]_vars
             PROVE  VaultInv'
  OBVIOUS
<1>1. CASE UNCHANGED vars
  <2>1. TypeOK'
    BY <1>1 DEF vars, VaultInv, TypeOK
  <2> QED
    BY <1>1, <2>1, UntouchedKept DEF vars, VaultInv
<1> QED
  BY <1>1, AdminStep, HouseStep, BetStep, WorldStep DEF Next

(* The strengthening holds in every reachable state. *)
THEOREM VaultInvHolds == Spec => []VaultInv
  BY InitVaultInv, NextVaultInv, PTL DEF Spec

(* Accounts keep their types: in particular no balance, lock, book total   *)
(* or counter of an instruction that goes through ever leaves its range.   *)
THEOREM TypesHold == Spec => []TypeOK
<1>1. VaultInv => TypeOK
  BY DEF VaultInv
<1> QED
  BY <1>1, VaultInvHolds, PTL

(* Whatever configuration, orders and parameter changes there are, a       *)
(* house's vault holds what its books lock: no instruction, the unchecked  *)
(* refund_commit included, takes it below.                                 *)
THEOREM VaultAlwaysCoversLocks == Spec => []VaultCoversLocks
<1>1. VaultInv => VaultCoversLocks
  BY DEF VaultInv
<1> QED
  BY <1>1, VaultInvHolds, PTL

-----------------------------------------------------------------------------
(* What a bet was filled and settled at, for every feed, every sequence of *)
(* scores and every order of cranks.                                       *)

(* How a step changes one bet and no other. *)
OnlyBet(bn, bet) == bets' = [bets EXCEPT ![bn] = bet]

-----------------------------------------------------------------------------
(* Fills *)

(* Every print account repeats an oracle record of the pre-match 1X2       *)
(* market, with all outcomes priced: prove_print is the only way to make   *)
(* one.                                                                    *)
PrintsFromFeed ==
    \A print \in prints : \E odds \in Feed :
        /\ SamePrint(print, odds)
        /\ print.prices = odds.prices
        /\ check_1x2_record(odds)

FillInv == PrintsFromFeed /\ FillsAreProven

ProvenBet(bet) ==
    /\ \E commit_odds, target_odds \in Feed : Justifies(commit_odds, target_odds, bet)
    /\ bet.payout <= bet.reserved

(* The property, with a name for what it says of one bet. *)
LEMMA FillsByBet ==
    FillsAreProven <=> \A bn \in Bettors \X Nonces :
        Exists(bets[bn]) /\ Filled(bets[bn]) => ProvenBet(bets[bn])
  BY DEF FillsAreProven, ProvenBet

(* A step that changes one bet keeps the fills proven if the new bet is    *)
(* either not filled or proven.                                            *)
LEMMA OneFillKept ==
    ASSUME TypeOK, FillsAreProven, NEW bn \in Bettors \X Nonces, NEW bet,
           OnlyBet(bn, bet),
           Exists(bet) /\ Filled(bet) => ProvenBet(bet)
    PROVE  FillsAreProven'
<1>1. SUFFICES ASSUME NEW k \in Bettors \X Nonces, Exists(bets'[k]), Filled(bets'[k])
               PROVE  ProvenBet(bets'[k])
  BY DEF FillsAreProven, ProvenBet
<1>2. bets'[k] = IF k = bn THEN bet ELSE bets[k]
  BY DEF OnlyBet, TypeOK
<1> QED
  BY <1>1, <1>2, FillsByBet

(* The fill at two proven prints is justified by the records behind them.  *)
LEMMA FillJustified ==
    ASSUME TypeOK, PrintsFromFeed, NEW cranker_token \in RewardAccounts, NEW bettor \in Bettors,
           NEW nonce \in Nonces, NEW commit_print \in prints, NEW target_print \in prints,
           FillBet(cranker_token, bettor, nonce, commit_print, target_print)
    PROVE  \E bet : OnlyBet(<<bettor, nonce>>, bet) /\ ProvenBet(bet)
<1> DEFINE bet == bets[<<bettor, nonce>>]
           o == bet.outcome
           odds == FillOddsFor(bet, commit_print, target_print)
           pays == payout(bet.stake, odds)
           active == [bet EXCEPT !.fill_odds = odds,
                                 !.fill_ts_ms = target_print.ts,
                                 !.payout = pays,
                                 !.keeper_rewards_remaining = @ - 1,
                                 !.state = "Active"]
<1>1. /\ IsBet(bettor, nonce)
      /\ Qualify(bet, commit_print, target_print)
      /\ pays <= bet.reserved
      /\ OnlyBet(<<bettor, nonce>>, active)
  BY DEF FillBet, CanFill, InState, OnlyBet
<1>2. odds <= commit_print.prices[o] /\ odds <= target_print.prices[o]
  BY FillBetTypes
<1>3. bet \in Bet
  BY <1>1, BetFact
<1> HIDE DEF bet, odds, pays
<1>4. PICK commit_odds \in Feed :
        /\ SamePrint(commit_print, commit_odds)
        /\ commit_print.prices = commit_odds.prices
        /\ check_1x2_record(commit_odds)
  BY DEF PrintsFromFeed
<1>5. PICK target_odds \in Feed :
        /\ SamePrint(target_print, target_odds)
        /\ target_print.prices = target_odds.prices
        /\ check_1x2_record(target_odds)
  BY DEF PrintsFromFeed
<1>6. /\ active.fill_odds = odds /\ active.fill_ts_ms = target_print.ts
      /\ active.payout = pays /\ active.reserved = bet.reserved
      /\ active.outcome = o /\ active.fixture_id = bet.fixture_id
      /\ active.start_time_ms = bet.start_time_ms
      /\ active.commit_ts_ms = bet.commit_ts_ms
  BY <1>3 DEF Bet
<1> HIDE DEF active
<1>7. /\ commit_odds.fixture_id = bet.fixture_id /\ target_odds.fixture_id = bet.fixture_id
      /\ commit_odds.ts < bet.start_time_ms /\ target_odds.ts < bet.start_time_ms
      /\ commit_odds.ts <= bet.commit_ts_ms /\ commit_odds.ts <= target_odds.ts
  <2>1. /\ commit_odds.ts \in Int /\ target_odds.ts \in Int
        /\ bet.start_time_ms \in Int /\ bet.commit_ts_ms \in Int
    BY <1>3, ConstantsAssumption DEF Bet, Odds
  <2> QED
    BY <1>1, <1>4, <1>5, <2>1
       DEF Qualify, InCommitWindow, InTargetWindow, PreMatch, SamePrint
<1>8. /\ odds <= commit_odds.prices[o] /\ odds <= target_odds.prices[o]
      /\ active.fill_ts_ms = target_odds.ts
  BY <1>2, <1>4, <1>5, <1>6 DEF SamePrint
<1>9. /\ commit_odds.market = "1X2" /\ ~commit_odds.in_running
      /\ target_odds.market = "1X2" /\ ~target_odds.in_running
  BY <1>4, <1>5 DEF check_1x2_record
<1>10. Justifies(commit_odds, target_odds, active)
  BY <1>6, <1>7, <1>8, <1>9 DEF Justifies
<1>11. ProvenBet(active)
  BY <1>1, <1>6, <1>10 DEF ProvenBet
<1> QED
  BY <1>1, <1>11

(* Ending a filled bet keeps the terms it was filled at. *)
LEMMA EndedProven ==
    ASSUME NEW bet \in Bet, ProvenBet(bet), NEW left, NEW state
    PROVE  ProvenBet([bet EXCEPT !.keeper_rewards_remaining = left, !.state = state])
<1> DEFINE ended == [bet EXCEPT !.keeper_rewards_remaining = left, !.state = state]
<1>1. /\ ended.fill_odds = bet.fill_odds /\ ended.fill_ts_ms = bet.fill_ts_ms
      /\ ended.payout = bet.payout /\ ended.reserved = bet.reserved
      /\ ended.outcome = bet.outcome /\ ended.fixture_id = bet.fixture_id
      /\ ended.start_time_ms = bet.start_time_ms
      /\ ended.commit_ts_ms = bet.commit_ts_ms
  BY DEF Bet
<1> HIDE DEF ended
<1>2. ProvenBet(ended)
  BY <1>1 DEF ProvenBet, Justifies
<1> QED
  BY <1>2 DEF ended

(* No step makes a print the feed does not have. *)
LEMMA PrintsKept ==
    ASSUME PrintsFromFeed, [Next]_vars
    PROVE  PrintsFromFeed'
<1>1. CASE UNCHANGED prints
  BY <1>1 DEF PrintsFromFeed
<1>2. ASSUME NEW cranker \in Crankers, NEW odds \in Feed, ProvePrint(cranker, odds)
      PROVE  PrintsFromFeed'
  <2> DEFINE print == [fixture_id |-> odds.fixture_id, ts |-> odds.ts,
                       prices |-> odds.prices, payer |-> cranker]
  <2>1. prints' = prints \cup {print} /\ check_1x2_record(odds)
    BY <1>2 DEF ProvePrint
  <2>2. SamePrint(print, odds) /\ print.prices = odds.prices
    BY DEF SamePrint
  <2> HIDE DEF print
  <2> QED
    BY <2>1, <2>2 DEF PrintsFromFeed
<1>3. ASSUME NEW payer \in Crankers, NEW print \in prints, ClosePrint(payer, print)
      PROVE  PrintsFromFeed'
  BY <1>3 DEF PrintsFromFeed, ClosePrint
<1>4. CASE AdminNext
  BY <1>1, <1>4 DEF AdminNext, InitConfig, UpdateConfig, RegisterFrontend
<1>5. CASE HouseNext
  BY <1>1, <1>5 DEF HouseNext, CreateHouse, UpdateHouseParams, SetPaused,
                    SetHouseFilters, CloseExposure, Deposit, Withdraw
<1>6. CASE BetNext
  <2>1. ASSUME NEW order \in Orders, CommitBet(order)
        PROVE  UNCHANGED prints
    BY <2>1 DEF CommitBet
  <2>2. ASSUME NEW cranker_token \in RewardAccounts, NEW bettor \in Bettors, NEW nonce \in Nonces,
               NEW commit_print \in prints, NEW target_print \in prints,
               FillBet(cranker_token, bettor, nonce, commit_print, target_print)
        PROVE  UNCHANGED prints
    BY <2>2 DEF FillBet
  <2>3. ASSUME NEW cranker_token, NEW bettor, NEW nonce, NEW paid, NEW state,
               ReleaseAndReward(cranker_token, bettor, nonce, paid, state)
        PROVE  UNCHANGED prints
    BY <2>3 DEF ReleaseAndReward
  <2>4. ASSUME NEW cranker_token \in RewardAccounts, NEW bettor \in Bettors, NEW nonce \in Nonces,
               NEW ev \in scores, SettleBet(cranker_token, bettor, nonce, ev)
        PROVE  UNCHANGED prints
    BY <2>3, <2>4 DEF SettleBet
  <2>5. ASSUME NEW cranker_token \in RewardAccounts, NEW bettor \in Bettors, NEW nonce \in Nonces,
               VoidBet(cranker_token, bettor, nonce)
        PROVE  UNCHANGED prints
    BY <2>3, <2>5 DEF VoidBet
  <2>6. ASSUME NEW bettor \in Bettors, NEW nonce \in Nonces,
               RefundCommit(bettor, nonce) \/ CloseBet(bettor, nonce)
        PROVE  UNCHANGED prints
    BY <2>6 DEF RefundCommit, CloseBet
  <2> QED
    BY <1>1, <1>2, <1>3, <1>6, <2>1, <2>2, <2>4, <2>5, <2>6 DEF BetNext
<1>7. CASE WorldNext
  BY <1>1, <1>7 DEF WorldNext, Tick, PublishScore
<1> QED
  BY <1>1, <1>4, <1>5, <1>6, <1>7 DEF Next, vars

(* What BetNext, the only part of Next that touches bets, does to them. *)
LEMMA BetsChange ==
    ASSUME [Next]_vars
    PROVE  \/ UNCHANGED bets
           \/ \E order \in Orders : CommitBet(order)
           \/ \E bettor \in Bettors, nonce \in Nonces :
                \/ \E cranker_token \in RewardAccounts :
                    \/ \E commit_print \in prints, target_print \in prints :
                            FillBet(cranker_token, bettor, nonce, commit_print, target_print)
                    \/ \E ev \in scores : SettleBet(cranker_token, bettor, nonce, ev)
                    \/ VoidBet(cranker_token, bettor, nonce)
                \/ RefundCommit(bettor, nonce)
                \/ CloseBet(bettor, nonce)
<1>1. CASE AdminNext
  BY <1>1 DEF AdminNext, InitConfig, UpdateConfig, RegisterFrontend
<1>2. CASE HouseNext
  BY <1>2 DEF HouseNext, CreateHouse, UpdateHouseParams, SetPaused,
              SetHouseFilters, CloseExposure, Deposit, Withdraw
<1>3. CASE BetNext
  BY <1>3 DEF BetNext, ProvePrint, ClosePrint
<1>4. CASE WorldNext
  BY <1>4 DEF WorldNext, Tick, PublishScore
<1> QED
  BY <1>1, <1>2, <1>3, <1>4 DEF Next, vars

(* Committing makes a pending bet, and no other change to the bets. *)
LEMMA CommitMakesPending ==
    ASSUME NEW order \in Orders, CommitBet(order)
    PROVE  \E bet : /\ OnlyBet(<<order.bettor, order.nonce>>, bet)
                   /\ bet.state = "Pending"
                   /\ <<order.bettor, order.nonce>> \in Bettors \X Nonces
<1> DEFINE reservation == reserved(order.stake, houses[order.house].params.odds_cap)
           frontend_fee == TruncatedFee(order.stake, frontends[order.frontend].fee_bps)
           protocol_fee == TruncatedFee(order.stake, config.protocol_fee_bps)
           bet == NewBet(order, reservation, frontend_fee, protocol_fee)
<1>1. OnlyBet(<<order.bettor, order.nonce>>, bet)
  BY DEF CommitBet, Reservation, FrontendFeeOf, ProtocolFeeOf, OnlyBet
<1>2. bet.state = "Pending"
  BY DEF NewBet
<1>3. order.bettor \in Bettors /\ order.nonce \in Nonces
  BY ConstantsAssumption DEF Order
<1> QED
  BY <1>1, <1>2, <1>3

(* Settling and voiding end an active bet, and no other. *)
LEMMA ReleaseEndsOne ==
    ASSUME NEW cranker_token, NEW bettor, NEW nonce, NEW paid, NEW state,
           ReleaseAndReward(cranker_token, bettor, nonce, paid, state)
    PROVE  \E left : OnlyBet(<<bettor, nonce>>,
                [bets[<<bettor, nonce>>] EXCEPT !.keeper_rewards_remaining = left,
                                                !.state = state])
  BY DEF ReleaseAndReward, OnlyBet

(* No step breaks the invariant about fills. *)
LEMMA NextFillInv ==
    ASSUME TypeOK, FillInv, [Next]_vars
    PROVE  FillInv'
<1>1. PrintsFromFeed /\ FillsAreProven
  BY DEF FillInv
<1>2. ASSUME UNCHANGED bets
      PROVE  FillsAreProven'
  <2>1. SUFFICES ASSUME NEW bn \in Bettors \X Nonces, Exists(bets'[bn]), Filled(bets'[bn])
                 PROVE  ProvenBet(bets'[bn])
    BY DEF FillsAreProven, ProvenBet
  <2> QED
    BY <1>1, <1>2, <2>1, FillsByBet
<1>3. ASSUME NEW order \in Orders, CommitBet(order)
      PROVE  FillsAreProven'
  BY <1>1, <1>3, CommitMakesPending, OneFillKept DEF Filled
<1>4. ASSUME NEW cranker_token \in RewardAccounts, NEW bettor \in Bettors, NEW nonce \in Nonces,
             NEW commit_print \in prints, NEW target_print \in prints,
             FillBet(cranker_token, bettor, nonce, commit_print, target_print)
      PROVE  FillsAreProven'
  BY <1>1, <1>4, FillJustified, OneFillKept
<1>5. ASSUME NEW cranker_token \in RewardAccounts, NEW bettor \in Bettors, NEW nonce \in Nonces,
             InState(bettor, nonce, "Active"), NEW paid, NEW state,
             ReleaseAndReward(cranker_token, bettor, nonce, paid, state)
      PROVE  FillsAreProven'
  <2> DEFINE bn == <<bettor, nonce>>
  <2>1. bn \in Bettors \X Nonces /\ IsBet(bettor, nonce) /\ bets[bn].state = "Active"
    BY <1>5 DEF InState
  <2>2. bets[bn] \in Bet
    BY <2>1, BetFact
  <2>3. ProvenBet(bets[bn])
    BY <1>1, <2>1, FillsByBet DEF Filled, IsBet
  <2>4. PICK left : OnlyBet(bn,
            [bets[bn] EXCEPT !.keeper_rewards_remaining = left, !.state = state])
    BY <1>5, ReleaseEndsOne
  <2>5. ProvenBet([bets[bn] EXCEPT !.keeper_rewards_remaining = left, !.state = state])
    BY <2>2, <2>3, EndedProven
  <2> HIDE DEF bn
  <2> QED
    BY <1>1, <2>1, <2>4, <2>5, OneFillKept
<1>6. ASSUME NEW bettor \in Bettors, NEW nonce \in Nonces, RefundCommit(bettor, nonce)
      PROVE  FillsAreProven'
  <2> DEFINE bn == <<bettor, nonce>>
             bet == [bets[bn] EXCEPT !.state = "Refunded"]
  <2>1. bn \in Bettors \X Nonces /\ OnlyBet(bn, bet)
    BY <1>6 DEF RefundCommit, OnlyBet
  <2>2. bet.state = "Refunded"
    BY <1>6, BetFact DEF RefundCommit, CanRefund, InState, Bet
  <2> HIDE DEF bet, bn
  <2> QED
    BY <1>1, <2>1, <2>2, OneFillKept DEF Filled
<1>7. ASSUME NEW bettor \in Bettors, NEW nonce \in Nonces, CloseBet(bettor, nonce)
      PROVE  FillsAreProven'
  <2>1. <<bettor, nonce>> \in Bettors \X Nonces /\ OnlyBet(<<bettor, nonce>>, NoAccount)
    BY <1>7 DEF CloseBet, OnlyBet
  <2> QED
    BY <1>1, <2>1, OneFillKept DEF Exists
<1>8. ASSUME NEW cranker_token \in RewardAccounts, NEW bettor \in Bettors, NEW nonce \in Nonces,
             NEW ev \in scores, SettleBet(cranker_token, bettor, nonce, ev)
      PROVE  FillsAreProven'
  BY <1>5, <1>8 DEF SettleBet
<1>9. ASSUME NEW cranker_token \in RewardAccounts, NEW bettor \in Bettors, NEW nonce \in Nonces,
             VoidBet(cranker_token, bettor, nonce)
      PROVE  FillsAreProven'
  BY <1>5, <1>9 DEF VoidBet
<1>10. FillsAreProven'
  BY <1>2, <1>3, <1>4, <1>6, <1>7, <1>8, <1>9, BetsChange
<1> QED
  BY <1>1, <1>10, PrintsKept DEF FillInv

(* However keepers choose, prove and close prints, and however the house   *)
(* changes its parameters meanwhile, every filled bet has two pre-match    *)
(* 1X2 records of the oracle behind it, odds no better than either, and a  *)
(* payout its reservation covers.                                          *)
THEOREM FillsAlwaysProven == Spec => []FillsAreProven
<1>1. Init => FillInv
  BY DEF Init, FillInv, PrintsFromFeed, FillsAreProven, Exists
<1>2. TypeOK /\ FillInv /\ [Next]_vars => FillInv'
  BY NextFillInv
<1>3. FillInv => FillsAreProven
  BY DEF FillInv
<1> QED
  BY <1>1, <1>2, <1>3, TypesHold, PTL DEF Spec

-----------------------------------------------------------------------------
(* Settlement *)

IsFinal(ev, f) == ev.fixture_id = f /\ ev.period = PERIOD_GAME_FINALISED

(* The oracle finalises a fixture once. *)
OneFinal ==
    \A f \in Fixtures : \A e1, e2 \in scores : IsFinal(e1, f) /\ IsFinal(e2, f) => e1 = e2

SettledInv == OneFinal /\ SettledByResult

ByResult(bet) ==
    /\ \E ev \in scores : IsFinal(ev, bet.fixture_id)
    /\ \A ev \in scores : IsFinal(ev, bet.fixture_id) =>
            (bet.state = "Won" <=> ResultOf(ev) = bet.outcome)

(* The property, with a name for what it says of one bet. *)
LEMMA SettledByBet ==
    SettledByResult <=> \A bn \in Bettors \X Nonces :
        Exists(bets[bn]) /\ bets[bn].state \in {"Won", "Lost"} => ByResult(bets[bn])
  BY DEF SettledByResult, ByResult, FinalOf, IsFinal

(* A step that changes one bet and no score keeps settlements right if the *)
(* new bet is either not won or lost, or rightly so.                       *)
LEMMA OneResultKept ==
    ASSUME TypeOK, SettledInv, NEW bn \in Bettors \X Nonces, NEW bet,
           OnlyBet(bn, bet), UNCHANGED scores,
           Exists(bet) /\ bet.state \in {"Won", "Lost"} => ByResult(bet)
    PROVE  SettledInv'
<1>1. OneFinal'
  BY DEF SettledInv, OneFinal
<1>2. \A k \in Bettors \X Nonces :
        Exists(bets'[k]) /\ bets'[k].state \in {"Won", "Lost"} => ByResult(bets'[k])
  <2> SUFFICES ASSUME NEW k \in Bettors \X Nonces,
                      Exists(bets'[k]), bets'[k].state \in {"Won", "Lost"}
               PROVE  ByResult(bets'[k])
    OBVIOUS
  <2>1. bets'[k] = IF k = bn THEN bet ELSE bets[k]
    BY DEF OnlyBet, TypeOK
  <2> QED
    BY <2>1, SettledByBet DEF SettledInv
<1>3. SettledByResult'
  BY <1>2 DEF SettledByResult, ByResult, FinalOf, IsFinal
<1> QED
  BY <1>1, <1>3 DEF SettledInv

(* A settlement by a final record of the bet's fixture is by the result:   *)
(* there is no other final record.                                         *)
LEMMA SettlementByResult ==
    ASSUME TypeOK, OneFinal, NEW bettor \in Bettors, NEW nonce \in Nonces,
           NEW cranker_token \in RewardAccounts, NEW ev \in scores,
           SettleBet(cranker_token, bettor, nonce, ev)
    PROVE  \E bet : /\ OnlyBet(<<bettor, nonce>>, bet) /\ UNCHANGED scores
                   /\ ByResult(bet)
<1> DEFINE bet == bets[<<bettor, nonce>>]
           won == ResultOf(ev) = bet.outcome
           paid == IF won THEN bet.payout ELSE 0
           state == IF won THEN "Won" ELSE "Lost"
           settled(left) == [bet EXCEPT !.keeper_rewards_remaining = left, !.state = state]
<1>1. /\ IsBet(bettor, nonce) /\ IsFinal(ev, bet.fixture_id)
      /\ ReleaseAndReward(cranker_token, bettor, nonce, paid, state)
  BY DEF SettleBet, InState, FinalStats, IsFinal
<1> HIDE DEF paid
<1>2. PICK left : OnlyBet(<<bettor, nonce>>, settled(left)) /\ UNCHANGED scores
  BY <1>1 DEF ReleaseAndReward, OnlyBet
<1>3. bet \in Bet
  BY <1>1, BetFact
<1> HIDE DEF bet
<1>4. /\ settled(left).state = state /\ settled(left).outcome = bet.outcome
      /\ settled(left).fixture_id = bet.fixture_id
      /\ bet.fixture_id \in Fixtures
  BY <1>3 DEF Bet
<1> HIDE DEF settled
<1>5. \A e \in scores : IsFinal(e, bet.fixture_id) => e = ev
  BY <1>1, <1>4 DEF OneFinal
<1>6. state = "Won" <=> ResultOf(ev) = bet.outcome
  OBVIOUS
<1>7. ByResult(settled(left))
  BY <1>1, <1>4, <1>5, <1>6 DEF ByResult
<1> QED
  BY <1>2, <1>7

(* No score published later finalises a finalised fixture again. *)
LEMMA ScoresKept ==
    ASSUME TypeOK, SettledInv, NEW ev \in ScoreEvents, PublishScore(ev)
    PROVE  SettledInv'
<1>1. /\ scores' = scores \cup {ev} /\ UNCHANGED bets
      /\ \A e \in scores :
            e.fixture_id = ev.fixture_id => e.period # PERIOD_GAME_FINALISED
  BY DEF PublishScore
<1>2. OneFinal'
  BY <1>1 DEF SettledInv, OneFinal, IsFinal
<1>3. ASSUME NEW bn \in Bettors \X Nonces, Exists(bets[bn]),
             bets[bn].state \in {"Won", "Lost"}
      PROVE  /\ \E e \in scores' : IsFinal(e, bets[bn].fixture_id)
             /\ \A e \in scores' : IsFinal(e, bets[bn].fixture_id) =>
                    (bets[bn].state = "Won" <=> ResultOf(e) = bets[bn].outcome)
  <2>1. ByResult(bets[bn])
    BY <1>3, SettledByBet DEF SettledInv
  <2>2. ~IsFinal(ev, bets[bn].fixture_id)
    BY <1>1, <2>1 DEF ByResult, IsFinal
  <2> QED
    BY <1>1, <2>1, <2>2 DEF ByResult
<1>4. SettledByResult'
  BY <1>1, <1>3 DEF SettledByResult, FinalOf, IsFinal
<1> QED
  BY <1>2, <1>4 DEF SettledInv

(* No step breaks the invariant about settlements. *)
LEMMA NextSettledInv ==
    ASSUME TypeOK, SettledInv, [Next]_vars
    PROVE  SettledInv'
<1>1. ASSUME UNCHANGED bets, UNCHANGED scores
      PROVE  SettledInv'
  BY <1>1 DEF SettledInv, OneFinal, SettledByResult, FinalOf
<1>2. ASSUME NEW order \in Orders, CommitBet(order)
      PROVE  SettledInv'
  <2>1. UNCHANGED scores
    BY <1>2 DEF CommitBet
  <2>2. PICK bet : /\ OnlyBet(<<order.bettor, order.nonce>>, bet)
                   /\ bet.state = "Pending"
                   /\ <<order.bettor, order.nonce>> \in Bettors \X Nonces
    BY <1>2, CommitMakesPending
  <2> QED
    BY <2>1, <2>2, OneResultKept
<1>3. ASSUME NEW cranker_token \in RewardAccounts, NEW bettor \in Bettors, NEW nonce \in Nonces,
             NEW commit_print \in prints, NEW target_print \in prints,
             FillBet(cranker_token, bettor, nonce, commit_print, target_print)
      PROVE  SettledInv'
  <2> DEFINE bn == <<bettor, nonce>>
             active == [bets[bn] EXCEPT
                !.fill_odds = FillOddsFor(bets[bn], commit_print, target_print),
                !.fill_ts_ms = target_print.ts,
                !.payout = payout(bets[bn].stake,
                                  FillOddsFor(bets[bn], commit_print, target_print)),
                !.keeper_rewards_remaining = @ - 1,
                !.state = "Active"]
  <2>1. OnlyBet(bn, active) /\ UNCHANGED scores
    BY <1>3 DEF FillBet, OnlyBet
  <2>2. active.state = "Active"
    <3>1. bets[bn] \in Bet
      BY <1>3, BetFact DEF FillBet, CanFill, InState
    <3> QED
      BY <3>1 DEF Bet
  <2> HIDE DEF active
  <2> QED
    BY <2>1, <2>2, OneResultKept
<1>4. ASSUME NEW cranker_token \in RewardAccounts, NEW bettor \in Bettors, NEW nonce \in Nonces,
             NEW ev \in scores, SettleBet(cranker_token, bettor, nonce, ev)
      PROVE  SettledInv'
  BY <1>4, SettlementByResult, OneResultKept DEF SettledInv
<1>5. ASSUME NEW cranker_token \in RewardAccounts, NEW bettor \in Bettors, NEW nonce \in Nonces,
             VoidBet(cranker_token, bettor, nonce)
      PROVE  SettledInv'
  <2> DEFINE bn == <<bettor, nonce>>
             voided(left) == [bets[bn] EXCEPT !.keeper_rewards_remaining = left,
                                              !.state = "Voided"]
  <2>1. PICK left : OnlyBet(bn, voided(left)) /\ UNCHANGED scores
    BY <1>5 DEF VoidBet, ReleaseAndReward, OnlyBet
  <2>2. voided(left).state = "Voided"
    <3>1. bets[bn] \in Bet
      BY <1>5, BetFact DEF VoidBet, InState
    <3> QED
      BY <3>1 DEF Bet
  <2> HIDE DEF voided
  <2> QED
    BY <2>1, <2>2, OneResultKept
<1>6. ASSUME NEW bettor \in Bettors, NEW nonce \in Nonces, RefundCommit(bettor, nonce)
      PROVE  SettledInv'
  <2> DEFINE bn == <<bettor, nonce>>
             bet == [bets[bn] EXCEPT !.state = "Refunded"]
  <2>1. OnlyBet(bn, bet) /\ UNCHANGED scores
    BY <1>6 DEF RefundCommit, OnlyBet
  <2>2. bet.state = "Refunded"
    BY <1>6, BetFact DEF RefundCommit, CanRefund, InState, Bet
  <2> HIDE DEF bet
  <2> QED
    BY <2>1, <2>2, OneResultKept
<1>7. ASSUME NEW bettor \in Bettors, NEW nonce \in Nonces, CloseBet(bettor, nonce)
      PROVE  SettledInv'
  <2>1. OnlyBet(<<bettor, nonce>>, NoAccount) /\ UNCHANGED scores
    BY <1>7 DEF CloseBet, OnlyBet
  <2> QED
    BY <2>1, OneResultKept DEF Exists
<1>8. ASSUME NEW ev \in ScoreEvents, PublishScore(ev)
      PROVE  SettledInv'
  BY <1>8, ScoresKept
<1>9. CASE AdminNext
  BY <1>1, <1>9 DEF AdminNext, InitConfig, UpdateConfig, RegisterFrontend
<1>10. CASE HouseNext
  BY <1>1, <1>10 DEF HouseNext, CreateHouse, UpdateHouseParams, SetPaused,
                     SetHouseFilters, CloseExposure, Deposit, Withdraw
<1>11. CASE BetNext
  <2>1. ASSUME NEW cranker \in Crankers, NEW odds \in Feed, ProvePrint(cranker, odds)
        PROVE  SettledInv'
    BY <1>1, <2>1 DEF ProvePrint
  <2>2. ASSUME NEW payer \in Crankers, NEW print \in prints, ClosePrint(payer, print)
        PROVE  SettledInv'
    BY <1>1, <2>2 DEF ClosePrint
  <2> QED
    BY <1>2, <1>3, <1>4, <1>5, <1>6, <1>7, <1>11, <2>1, <2>2 DEF BetNext
<1>12. CASE WorldNext
  BY <1>1, <1>8, <1>12 DEF WorldNext, Tick
<1>13. CASE UNCHANGED vars
  BY <1>1, <1>13 DEF vars
<1> QED
  BY <1>9, <1>10, <1>11, <1>12, <1>13 DEF Next

(* While the oracle finalises a fixture once, no order of score records,   *)
(* settlements and voids decides a bet against the final score.            *)
THEOREM SettlementsAlwaysByResult == Spec => []SettledByResult
<1>1. Init => SettledInv
  BY DEF Init, SettledInv, OneFinal, SettledByResult, Exists
<1>2. TypeOK /\ SettledInv /\ [Next]_vars => SettledInv'
  BY NextSettledInv
<1>3. SettledInv => SettledByResult
  BY DEF SettledInv
<1> QED
  BY <1>1, <1>2, <1>3, TypesHold, PTL DEF Spec
=============================================================================
