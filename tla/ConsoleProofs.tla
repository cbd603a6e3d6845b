---------------------------- MODULE ConsoleProofs ----------------------------
(***************************************************************************)
(* Theorems about the deployment script, the faucet and the owner's page.  *)
(***************************************************************************)
EXTENDS BethehouseProofs, HouseConsole, Bootstrap, SequenceTheorems

-----------------------------------------------------------------------------
(* Tokens only move *)

SumOf(balances) == SumFunctionOnSet(balances, TokenAccounts)

(* A balance that changes changes the sum by as much. *)
LEMMA OneBalanceChanges ==
    ASSUME NEW bal \in [TokenAccounts -> Nat], NEW after \in [TokenAccounts -> Nat],
           NEW a \in TokenAccounts, \A x \in TokenAccounts : x # a => after[x] = bal[x]
    PROVE  /\ SumOf(after) = SumOf(bal) - bal[a] + after[a]
           /\ SumOf(bal) \in Nat
<1>1. IsFiniteSet(TokenAccounts)
  BY BootAssumption
<1>2. /\ \A x \in TokenAccounts : bal[x] \in Nat
      /\ \A x \in TokenAccounts : after[x] \in Nat
  OBVIOUS
<1>3. SumFunctionOnSet(after, TokenAccounts) =
            SumFunctionOnSet(bal, TokenAccounts) - bal[a] + after[a]
  BY <1>1, <1>2, SumChange
<1>4. SumFunctionOnSet(bal, TokenAccounts) \in Nat
  BY <1>1, <1>2, SumNat
<1> QED
  BY <1>3, <1>4 DEF SumOf

LEMMA MovedKeepsSum ==
    ASSUME NEW bal \in [TokenAccounts -> Nat], NEW from \in TokenAccounts,
           NEW to \in TokenAccounts, NEW n \in Nat, n <= bal[from]
    PROVE  /\ Moved(bal, from, to, n) \in [TokenAccounts -> Nat]
           /\ SumOf(Moved(bal, from, to, n)) = SumOf(bal)
<1> DEFINE taken == [bal EXCEPT ![from] = bal[from] - n]
           given == [taken EXCEPT ![to] = taken[to] + n]
<1>1. bal[from] \in Nat
  OBVIOUS
<1>2. bal[from] - n \in Nat
  BY <1>1
<1>3. /\ taken \in [TokenAccounts -> Nat] /\ taken[from] = bal[from] - n
      /\ \A x \in TokenAccounts : x # from => taken[x] = bal[x]
  BY <1>2
<1>4. given = Moved(bal, from, to, n)
  BY DEF Moved
<1> HIDE DEF taken
<1>5. taken[to] \in Nat
  BY <1>3
<1>6. /\ given \in [TokenAccounts -> Nat] /\ given[to] = taken[to] + n
      /\ \A x \in TokenAccounts : x # to => given[x] = taken[x]
  BY <1>3, <1>5
<1> HIDE DEF given
<1>7. SumOf(taken) = SumOf(bal) - bal[from] + taken[from] /\ SumOf(bal) \in Nat
  BY <1>3, OneBalanceChanges
<1>8. SumOf(given) = SumOf(taken) - taken[to] + given[to]
  BY <1>3, <1>6, OneBalanceChanges
<1>9. SumOf(given) = SumOf(bal)
  BY <1>1, <1>3, <1>5, <1>6, <1>7, <1>8
<1> QED
  BY <1>4, <1>6, <1>9

(* Moving twice, out of two accounts or out of one that holds enough. *)
LEMMA FillKeepsSum ==
    ASSUME token \in [TokenAccounts -> Nat], config \in ConfigParams,
           NEW bet \in Bet, NEW cranker_token \in RewardAccounts,
           token[Escrow] >= bet.stake + bet.frontend_fee + bet.protocol_fee
                            + config.keeper_reward
    PROVE  SumOf(FillPayments(bet, cranker_token)) = SumOf(token)
<1> DEFINE staked == Moved(token, Escrow, bet.house, bet.stake)
           frontend_paid == Moved(staked, Escrow, bet.frontend, bet.frontend_fee)
           protocol_paid == Moved(frontend_paid, Escrow, Treasury, bet.protocol_fee)
           all_paid == Moved(protocol_paid, Escrow, cranker_token, config.keeper_reward)
<1>1. /\ bet.house \in TokenAccounts \ {Escrow} /\ bet.frontend \in TokenAccounts \ {Escrow}
      /\ cranker_token \in TokenAccounts /\ Treasury \in TokenAccounts \ {Escrow}
      /\ Escrow \in TokenAccounts
  BY AccountsFact DEF Bet
<1>2. /\ bet.stake \in Nat /\ bet.frontend_fee \in Nat /\ bet.protocol_fee \in Nat
      /\ config.keeper_reward \in Nat /\ token[Escrow] \in Nat
  BY <1>1, ConstantsAssumption DEF Bet, U64, ConfigParams
<1>3. FillPayments(bet, cranker_token) = all_paid
  BY DEF FillPayments
<1>4. /\ bet.stake <= token[Escrow]
      /\ bet.frontend_fee <= token[Escrow] - bet.stake
      /\ bet.protocol_fee <= token[Escrow] - bet.stake - bet.frontend_fee
      /\ config.keeper_reward <= token[Escrow] - bet.stake - bet.frontend_fee - bet.protocol_fee
  BY <1>2
<1>5. /\ staked \in [TokenAccounts -> Nat] /\ SumOf(staked) = SumOf(token)
      /\ staked[Escrow] = token[Escrow] - bet.stake
  BY <1>1, <1>2, <1>4, MovedKeepsSum, EscrowPays
<1> HIDE DEF staked
<1>6. /\ frontend_paid \in [TokenAccounts -> Nat] /\ SumOf(frontend_paid) = SumOf(staked)
      /\ frontend_paid[Escrow] = staked[Escrow] - bet.frontend_fee
  BY <1>1, <1>2, <1>4, <1>5, MovedKeepsSum, EscrowPays
<1> HIDE DEF frontend_paid
<1>7. bet.protocol_fee <= frontend_paid[Escrow]
  BY <1>2, <1>4, <1>5, <1>6
<1>8. /\ protocol_paid \in [TokenAccounts -> Nat] /\ SumOf(protocol_paid) = SumOf(frontend_paid)
      /\ protocol_paid[Escrow] = frontend_paid[Escrow] - bet.protocol_fee
  <2>1. Treasury \in TokenAccounts /\ Treasury # Escrow /\ Escrow \in TokenAccounts
    BY <1>1
  <2>2. /\ protocol_paid \in [TokenAccounts -> Nat]
        /\ SumOf(protocol_paid) = SumOf(frontend_paid)
    BY <1>2, <1>6, <1>7, <2>1, MovedKeepsSum
  <2>3. protocol_paid[Escrow] = frontend_paid[Escrow] - bet.protocol_fee
    BY <1>2, <1>6, <1>7, <2>1, EscrowPays
  <2> QED
    BY <2>2, <2>3
<1> HIDE DEF protocol_paid
<1>9. SumOf(all_paid) = SumOf(protocol_paid)
  BY <1>1, <1>2, <1>4, <1>5, <1>6, <1>8, MovedKeepsSum
<1> QED
  BY <1>3, <1>5, <1>6, <1>8, <1>9

LEMMA ReleaseKeepsSum ==
    ASSUME TypeOK, NEW cranker_token \in RewardAccounts,
           NEW bettor \in Bettors, NEW nonce \in Nonces,
           IsBet(bettor, nonce), NEW paid \in Nat, NEW state,
           ReleaseAndReward(cranker_token, bettor, nonce, paid, state)
    PROVE  SumOf(token') = SumOf(token)
<1> DEFINE h == bets[<<bettor, nonce>>].house
           won == Moved(token, h, bettor, paid)
           all_paid == Moved(won, Escrow, cranker_token, config.keeper_reward)
<1>1. /\ token[h] >= paid /\ token[Escrow] >= config.keeper_reward
      /\ token' = all_paid
      /\ Loaded(bets[<<bettor, nonce>>])
  BY DEF ReleaseAndReward, ReleasePayments
<1>2. /\ h \in TokenAccounts /\ bettor \in TokenAccounts /\ cranker_token \in TokenAccounts
      /\ Escrow \in TokenAccounts /\ Escrow \notin {h, bettor}
      /\ config.keeper_reward \in Nat
  <2>1. h \in Houses /\ config.keeper_reward \in Nat
    BY <1>1, BetFact DEF Bet, ConfigParams
  <2> HIDE DEF h
  <2> QED
    BY <2>1, AccountsFact
<1>3. token \in [TokenAccounts -> Nat]
  BY DEF TypeOK
<1> HIDE DEF h
<1>4. /\ won \in [TokenAccounts -> Nat] /\ SumOf(won) = SumOf(token)
      /\ won[Escrow] = token[Escrow]
  BY <1>1, <1>2, <1>3, MovedKeepsSum, MovedFact
<1> HIDE DEF won
<1>5. SumOf(all_paid) = SumOf(won)
  BY <1>1, <1>2, <1>4, MovedKeepsSum
<1> QED
  BY <1>1, <1>4, <1>5

(* No instruction makes tokens or loses them. *)
LEMMA NextKeepsSum ==
    ASSUME VaultInv, Next
    PROVE  SumOf(token') = SumOf(token)
<1>0. TypeOK /\ token \in [TokenAccounts -> Nat]
  BY DEF VaultInv, TypeOK
<1>1. CASE UNCHANGED token
  BY <1>1
<1>2. CASE AdminNext
  BY <1>1, <1>2 DEF AdminNext, InitConfig, UpdateConfig, RegisterFrontend
<1>3. ASSUME NEW call \in Deposits, Deposit(call)
      PROVE  SumOf(token') = SumOf(token)
  <2>1. call.depositor \in Users /\ call.house \in Houses /\ call.amount \in Nat
    BY ConstantsAssumption DEF DepositCall
  <2>2. /\ call.depositor \in TokenAccounts /\ call.house \in TokenAccounts
        /\ call.amount <= token[call.depositor]
        /\ token' = Moved(token, call.depositor, call.house, call.amount)
    BY <1>0, <1>3, <2>1, AccountsFact DEF Deposit
  <2> QED
    BY <1>0, <2>1, <2>2, MovedKeepsSum
<1>4. ASSUME NEW call \in Withdrawals, Withdraw(call)
      PROVE  SumOf(token') = SumOf(token)
  <2>1. /\ call.house \in Houses /\ call.destination \in TokenAccounts
        /\ call.amount \in Nat /\ call.house \in TokenAccounts
    BY ConstantsAssumption, AccountsFact DEF WithdrawCall
  <2>2. call.amount <= token[call.house]
    <3>1. houses[call.house].total_locked \in Nat /\ token[call.house] \in Nat
      BY <1>0, <1>4, <2>1, ConstantsAssumption
         DEF Withdraw, CanWithdraw, WithdrawPayment, TypeOK, Exists, House, U64
    <3>2. call.amount <= SatSub(token[call.house], houses[call.house].total_locked)
      BY <1>4 DEF Withdraw, CanWithdraw, WithdrawPayment, FreeCollateral
    <3> QED
      BY <2>1, <3>1, <3>2 DEF SatSub
  <2>3. token' = Moved(token, call.house, call.destination, call.amount)
    BY <1>4 DEF Withdraw, CanWithdraw, WithdrawPayment
  <2> QED
    BY <1>0, <2>1, <2>2, <2>3, MovedKeepsSum
<1>5. CASE HouseNext
  BY <1>1, <1>3, <1>4, <1>5 DEF HouseNext, CreateHouse, UpdateHouseParams, SetPaused,
                                SetHouseFilters, CloseExposure
<1>6. CASE WorldNext
  BY <1>1, <1>6 DEF WorldNext, Tick, PublishScore
<1>7. CASE BetNext
  <2>1. ASSUME NEW order \in Orders, CommitBet(order)
        PROVE  SumOf(token') = SumOf(token)
    <3>1. PICK n \in U64 : /\ token[order.bettor] >= n
                          /\ token' = Moved(token, order.bettor, Escrow, n)
      BY <2>1 DEF CommitBet, CanCommit, Reservation, FrontendFeeOf, ProtocolFeeOf,
                  EscrowTotal, CommittedBook
    <3>2. order.bettor \in TokenAccounts /\ Escrow \in TokenAccounts /\ n \in Nat
      BY ConstantsAssumption, AccountsFact DEF Order, U64
    <3> QED
      BY <1>0, <3>1, <3>2, MovedKeepsSum
  <2>2. ASSUME NEW cranker_token \in RewardAccounts, NEW bettor \in Bettors, NEW nonce \in Nonces,
               NEW commit_print \in prints, NEW target_print \in prints,
               FillBet(cranker_token, bettor, nonce, commit_print, target_print)
        PROVE  SumOf(token') = SumOf(token)
    <3> DEFINE bet == bets[<<bettor, nonce>>]
    <3>1. IsBet(bettor, nonce) /\ Loaded(bet)
      BY <2>2 DEF FillBet, CanFill, InState
    <3>2. bet \in Bet /\ config \in ConfigParams
      BY <1>0, <3>1, BetFact
    <3>3. /\ token[Escrow] >= bet.stake + bet.frontend_fee + bet.protocol_fee
                              + config.keeper_reward
          /\ token' = FillPayments(bet, cranker_token)
      BY <2>2 DEF FillBet, CanFill
    <3> HIDE DEF bet
    <3> QED
      BY <1>0, <3>2, <3>3, FillKeepsSum
  <2>3. ASSUME NEW cranker_token \in RewardAccounts, NEW bettor \in Bettors, NEW nonce \in Nonces,
               NEW ev \in scores, SettleBet(cranker_token, bettor, nonce, ev)
        PROVE  SumOf(token') = SumOf(token)
    <3> DEFINE bet == bets[<<bettor, nonce>>]
    <3>1. IsBet(bettor, nonce)
      BY <2>3 DEF SettleBet, InState
    <3>2. bet.payout \in Nat
      BY <1>0, <3>1, BetFact DEF Bet
    <3>3. PICK paid \in Nat, state \in BetState :
                ReleaseAndReward(cranker_token, bettor, nonce, paid, state)
      BY <2>3, <3>2 DEF SettleBet, BetState
    <3> QED
      BY <1>0, <3>1, <3>3, ReleaseKeepsSum
  <2>4. ASSUME NEW cranker_token \in RewardAccounts, NEW bettor \in Bettors, NEW nonce \in Nonces,
               VoidBet(cranker_token, bettor, nonce)
        PROVE  SumOf(token') = SumOf(token)
    <3>1. IsBet(bettor, nonce)
      BY <2>4 DEF VoidBet, InState
    <3>2. bets[<<bettor, nonce>>].stake \in Nat
      <4>1. bets[<<bettor, nonce>>] \in Bet
        BY <1>0, <3>1, BetFact
      <4> QED
        BY <4>1, ConstantsAssumption DEF Bet, U64
    <3>3. PICK paid \in Nat, state \in BetState :
                ReleaseAndReward(cranker_token, bettor, nonce, paid, state)
      BY <2>4, <3>2 DEF VoidBet, BetState
    <3> QED
      BY <1>0, <3>1, <3>3, ReleaseKeepsSum
  <2>5. ASSUME NEW bettor \in Bettors, NEW nonce \in Nonces, RefundCommit(bettor, nonce)
        PROVE  SumOf(token') = SumOf(token)
    <3> DEFINE n == RefundOf(bets[<<bettor, nonce>>])
    <3>1. n \in U64 /\ token[Escrow] >= n /\ token' = Moved(token, Escrow, bettor, n)
      BY <2>5 DEF RefundCommit, CanRefund
    <3> HIDE DEF n
    <3>2. bettor \in TokenAccounts /\ Escrow \in TokenAccounts /\ n \in Nat
      BY <3>1, ConstantsAssumption, AccountsFact DEF U64
    <3> QED
      BY <1>0, <3>1, <3>2, MovedKeepsSum
  <2>6. ASSUME NEW bettor \in Bettors, NEW nonce \in Nonces, CloseBet(bettor, nonce)
        PROVE  SumOf(token') = SumOf(token)
    BY <2>6 DEF CloseBet
  <2>7. ASSUME NEW cranker \in Crankers,
               \/ \E odds \in Feed : ProvePrint(cranker, odds)
               \/ \E print \in prints : ClosePrint(cranker, print)
        PROVE  SumOf(token') = SumOf(token)
    BY <2>7 DEF ProvePrint, ClosePrint
  <2> QED
    BY <1>7, <2>1, <2>2, <2>3, <2>4, <2>5, <2>6, <2>7 DEF BetNext
<1> QED
  BY <1>2, <1>5, <1>6, <1>7 DEF Next

-----------------------------------------------------------------------------
(* The script calls the program *)

ScriptSteps == {"off", "config", "mint", "frontend", "house", "deposit", "done", "stopped"}
BootTyped == boot \in [at : ScriptSteps, house : DOMAIN HOUSES]

LEMMA HousesFact ==
    /\ 1 \in DOMAIN HOUSES
    /\ DOMAIN HOUSES = 1..Len(HOUSES) /\ Len(HOUSES) \in Nat
    /\ \A i \in DOMAIN HOUSES :
        HOUSES[i] \in [house : Houses, params : HouseParams, deposit : Nat]
<1> DEFINE R == [house : Houses, params : HouseParams, deposit : Nat]
<1>1. HOUSES \in Seq(R) /\ HOUSES # <<>>
  BY BootAssumption
<1> HIDE DEF R
<1>2. Len(HOUSES) \in Nat /\ DOMAIN HOUSES = 1..Len(HOUSES) /\ Len(HOUSES) # 0
  BY <1>1, EmptySeq, LenProperties
<1>3. \A i \in DOMAIN HOUSES : HOUSES[i] \in R
  BY <1>1, <1>2, ElementOfSeq
<1> QED
  BY <1>2, <1>3 DEF R

LEMMA BootTypedKept ==
    ASSUME BootTyped, BootNext \/ UNCHANGED boot
    PROVE  BootTyped'
<1> USE DEF BootTyped, ScriptSteps, Goes
<1>1. CASE BootConfig \/ BootMint \/ BootFrontend \/ RunsAgain \/ Stops \/ BootRefused
  BY <1>1, HousesFact DEF BootConfig, BootMint, BootFrontend, RunsAgain, Stops, BootRefused,
                          StopsHere
<1>2. ASSUME NextHouse(boot.house)
      PROVE  BootTyped'
  BY <1>2, HousesFact DEF NextHouse
<1>3. CASE BootHouse
  BY <1>2, <1>3 DEF BootHouse
<1>4. CASE BootDeposit
  BY <1>2, <1>4 DEF BootDeposit
<1>5. CASE UNCHANGED boot
  BY <1>5
<1> QED
  BY <1>1, <1>3, <1>4, <1>5 DEF BootNext, BootSteps

(* Apart from minting, a step of the script is an instruction or none. *)
LEMMA ScriptCalls ==
    ASSUME BootTyped, BootNext, ~BootMint
    PROVE  [Next]_vars
<1>1. CASE BootConfig
  BY <1>1, CallsAssumption DEF BootConfig, Next, AdminNext
<1>2. CASE BootFrontend
  BY <1>2, CallsAssumption, BootAssumption DEF BootFrontend, Next, AdminNext
<1> DEFINE h == HOUSES[boot.house]
<1>3. /\ h.house \in Houses /\ h.params \in HouseChoices
      /\ [depositor |-> Admin, house |-> h.house, amount |-> h.deposit] \in Deposits
  BY CallsAssumption, HousesFact DEF BootTyped
<1>4. CASE BootHouse
  <2>1. UNCHANGED vars \/ CreateHouse(h.house, h.params)
    BY <1>4 DEF BootHouse
  <2> HIDE DEF h
  <2> QED
    BY <1>3, <2>1 DEF Next, HouseNext
<1>5. CASE BootDeposit
  <2>1. Deposit([depositor |-> Admin, house |-> h.house, amount |-> h.deposit])
    BY <1>5 DEF BootDeposit
  <2> HIDE DEF h
  <2> QED
    BY <1>3, <2>1 DEF Next, HouseNext
<1>6. CASE Stops \/ BootRefused \/ RunsAgain
  BY <1>6 DEF Stops, BootRefused, StopsHere, RunsAgain
<1> QED
  BY <1>1, <1>2, <1>4, <1>5, <1>6 DEF BootNext, BootSteps

(* Giving a user tokens from outside disturbs no house. *)
LEMMA GrantKeepsVaultInv ==
    ASSUME VaultInv, NEW u \in Users, NEW n \in Nat, token' = [token EXCEPT ![u] = n], Keeps
    PROVE  VaultInv'
<1>1. u \in TokenAccounts /\ \A h \in Houses : h \in TokenAccounts /\ h # u
  BY AccountsFact
<1>2. token' \in [TokenAccounts -> Nat]
  BY <1>1 DEF VaultInv, TypeOK
<1>3. TypeOK'
  BY <1>2 DEF VaultInv, TypeOK, Keeps
<1>4. UNCHANGED <<houses, exposures>> /\ \A h \in Houses : token'[h] = token[h]
  BY <1>1 DEF VaultInv, TypeOK, Keeps
<1>5. LocksInSync' /\ VaultCoversLocks'
  BY <1>4 DEF VaultInv, LocksInSync, VaultCoversLocks, Exists
<1> QED
  BY <1>3, <1>5 DEF VaultInv

-----------------------------------------------------------------------------
(* The script beside the faucet *)

Underway(i) == At("deposit") /\ boot.house = i

(* A house is there and funded, or there and short because a run stopped   *)
(* before its deposit, or not there and nothing is.                        *)
Standing(i) ==
    LET h == HOUSES[i].house
    IN  /\ token[h] \in {0, HOUSES[i].deposit}
        /\ Exists(houses[h]) \/ token[h] = 0
        /\ Underway(i) => Exists(houses[h]) /\ token[h] = 0
        /\ Exists(houses[h]) =>
                token[h] = HOUSES[i].deposit \/ h \in orphans \/ Underway(i)

Behind(i) ==
    At("done") \/ (boot.at \in {"house", "deposit"} /\ i < boot.house)

(* What the script has passed is there. *)
Built ==
    /\ boot.at \in {"mint", "frontend", "house", "deposit", "done"} => Exists(config)
    /\ boot.at \in {"house", "deposit", "done"} => Exists(frontends[AdminFrontend])
    /\ \A i \in DOMAIN HOUSES : Behind(i) => Exists(houses[HOUSES[i].house])

BootInv ==
    /\ VaultInv
    /\ BootTyped
    /\ faucet = NoAccount \/ faucet \in [to : Users, current : Nat]
    /\ ~At("off")
    /\ \A i \in DOMAIN HOUSES : Standing(i)
    /\ Built

(* A step that moves no tokens and makes no house. *)
LEMMA StandingKept ==
    ASSUME BootInv, UNCHANGED houses, orphans' = orphans, ~At("deposit"), ~At("deposit")',
           \A i \in DOMAIN HOUSES : token'[HOUSES[i].house] = token[HOUSES[i].house]
    PROVE  \A i \in DOMAIN HOUSES : Standing(i)'
<1> SUFFICES ASSUME NEW i \in DOMAIN HOUSES
             PROVE  Standing(i)'
  OBVIOUS
<1>1. Standing(i)
  BY DEF BootInv
<1> QED
  BY <1>1 DEF Standing, Underway, Exists

LEMMA ConfigBuilt ==
    ASSUME BootInv, BootConfig
    PROVE  (\A i \in DOMAIN HOUSES : Standing(i)') /\ Built' /\ ~At("off")'
<1>1. UNCHANGED <<houses, orphans, token, frontends>> /\ At("config") /\ Goes("mint", 1)
  BY DEF BootConfig, InitConfig, vars
<1>2. Exists(config')
  <2>1. Parameters \in ConfigParams /\ NoAccount \notin ConfigParams
    BY CallsAssumption, ConstantsAssumption, NoAccountAssumption
  <2> QED
    BY <2>1 DEF BootConfig, InitConfig, Exists, vars
<1>3. boot'.at = "mint"
  BY <1>1 DEF Goes
<1>4. ~At("deposit") /\ ~At("deposit")' /\ ~At("off")'
  BY <1>1, <1>3 DEF At
<1>5. Built'
  BY <1>2, <1>3 DEF Built, Behind, At
<1> QED
  BY <1>1, <1>4, <1>5, StandingKept

LEMMA MintBuilt ==
    ASSUME BootInv, BootMint
    PROVE  VaultInv' /\ (\A i \in DOMAIN HOUSES : Standing(i)') /\ Built' /\ ~At("off")'
<1>1. /\ At("mint") /\ Goes("frontend", 1) /\ Keeps /\ orphans' = orphans
      /\ token' = token \/ token' = [token EXCEPT ![Admin] = token[Admin] + MintAmount]
  BY DEF BootMint
<1>2. boot'.at = "frontend" /\ boot.at = "mint"
  BY <1>1 DEF Goes, At
<1>3. Admin \in Users /\ token[Admin] \in Nat /\ token[Admin] + MintAmount \in Nat
  BY BootAssumption, AccountsFact DEF BootInv, VaultInv, TypeOK
<1>4. VaultInv'
  <2>1. CASE token' = token
    <3>1. UNCHANGED vars
      BY <1>1, <2>1 DEF Keeps, vars
    <3> QED
      BY <3>1, NextVaultInv DEF BootInv
  <2>2. CASE token' = [token EXCEPT ![Admin] = token[Admin] + MintAmount]
    <3> DEFINE n == token[Admin] + MintAmount
    <3>1. n \in Nat /\ token' = [token EXCEPT ![Admin] = n]
      BY <1>3, <2>2
    <3> HIDE DEF n
    <3> QED
      BY <1>1, <1>3, <3>1, GrantKeepsVaultInv DEF BootInv
  <2> QED
    BY <1>1, <2>1, <2>2
<1>5. \A i \in DOMAIN HOUSES : token'[HOUSES[i].house] = token[HOUSES[i].house]
  <2>1. \A i \in DOMAIN HOUSES : HOUSES[i].house \in Houses
    BY HousesFact
  <2>2. \A h \in Houses : h \in TokenAccounts /\ h # Admin
    BY <1>3, AccountsFact
  <2>3. token \in [TokenAccounts -> Nat]
    BY DEF BootInv, VaultInv, TypeOK
  <2>4. \A h \in Houses : token'[h] = token[h]
    BY <1>1, <2>2, <2>3
  <2> QED
    BY <2>1, <2>4
<1>6. Built'
  BY <1>1, <1>2 DEF BootInv, Built, Behind, At, Keeps, Exists
<1>7. \A i \in DOMAIN HOUSES : Standing(i)'
  BY <1>1, <1>2, <1>5, StandingKept DEF At, Keeps
<1> QED
  BY <1>2, <1>4, <1>6, <1>7 DEF At

LEMMA FrontendBuilt ==
    ASSUME BootInv, BootFrontend
    PROVE  (\A i \in DOMAIN HOUSES : Standing(i)') /\ Built' /\ ~At("off")'
<1>1. UNCHANGED <<houses, orphans, token, config>> /\ At("frontend") /\ Goes("house", 1)
  BY DEF BootFrontend, RegisterFrontend, vars
<1>2. Exists(frontends'[AdminFrontend])
  <2>1. /\ [fee_bps |-> FrontendFee] # NoAccount
        /\ AdminFrontend \in Frontends
    <3>1. [fee_bps |-> FrontendFee] \in [fee_bps : Nat]
      BY CallsAssumption, ConstantsAssumption
    <3> QED
      BY <3>1, NoAccountAssumption, BootAssumption
  <2>2. DOMAIN frontends = Frontends
    BY DEF BootInv, VaultInv, TypeOK
  <2> QED
    BY <2>1, <2>2 DEF BootFrontend, RegisterFrontend, Exists, vars
<1>3. boot'.at = "house" /\ boot'.house = 1 /\ boot.at = "frontend"
  BY <1>1 DEF Goes, At
<1>4. ~At("deposit") /\ ~At("deposit")' /\ ~At("off")' /\ ~At("done")'
  BY <1>3 DEF At
<1>5. Built'
  <2>1. Exists(config')
    BY <1>1, <1>3 DEF BootInv, Built, Exists
  <2>2. \A i \in DOMAIN HOUSES : ~Behind(i)'
    BY <1>3, <1>4, HousesFact DEF Behind
  <2> QED
    BY <1>2, <2>1, <2>2 DEF Built
<1> QED
  BY <1>1, <1>4, <1>5, StandingKept

(* Going on after house i: nothing is lost, and house i is behind.         *)
LEMMA NextHouseBehind ==
    ASSUME BootInv, boot.at \in {"house", "deposit"}, NextHouse(boot.house),
           UNCHANGED config, UNCHANGED frontends, UNCHANGED houses,
           Exists(houses[HOUSES[boot.house].house])
    PROVE  Built' /\ boot'.at \in {"house", "done"}
<1> DEFINE n == boot.house
<1>1. n \in 1..Len(HOUSES) /\ Len(HOUSES) \in Nat /\ DOMAIN HOUSES = 1..Len(HOUSES)
  BY HousesFact DEF BootInv, BootTyped
<1>2. \/ n < Len(HOUSES) /\ boot'.at = "house" /\ boot'.house = n + 1
      \/ n = Len(HOUSES) /\ boot'.at = "done"
  BY <1>1 DEF NextHouse, Goes
<1>3. Exists(config') /\ Exists(frontends'[AdminFrontend])
  BY DEF BootInv, Built, Exists
<1>4. ASSUME NEW i \in DOMAIN HOUSES, Behind(i)'
      PROVE  Exists(houses'[HOUSES[i].house])
  <2>1. i \in Nat /\ i <= n
    BY <1>1, <1>2, <1>4 DEF Behind, At
  <2>2. CASE i < n
    <3>1. Behind(i)
      BY <2>2 DEF Behind
    <3> QED
      BY <3>1 DEF BootInv, Built, Exists
  <2>3. CASE i = n
    BY <2>3 DEF Exists
  <2> QED
    BY <1>1, <2>1, <2>2, <2>3
<1> QED
  BY <1>2, <1>3, <1>4 DEF Built

LEMMA HouseBuilt ==
    ASSUME BootInv, BootHouse
    PROVE  (\A i \in DOMAIN HOUSES : Standing(i)') /\ Built' /\ ~At("off")'
<1> DEFINE n == boot.house
           h == HOUSES[n].house
           account == [params |-> HOUSES[n].params, total_locked |-> 0, paused |-> FALSE]
<1>1. /\ At("house") /\ n \in DOMAIN HOUSES /\ h \in Houses
      /\ DOMAIN houses = Houses
      /\ UNCHANGED <<orphans, token, config, frontends>>
  BY HousesFact DEF BootHouse, BootInv, BootTyped, VaultInv, TypeOK, vars, CreateHouse
<1>2. CASE Exists(houses[h]) /\ UNCHANGED vars /\ NextHouse(n)
  <2>1. boot.at = "house" /\ UNCHANGED <<houses, token>>
    BY <1>1, <1>2 DEF At, vars
  <2>2. Built' /\ boot'.at \in {"house", "done"}
    BY <1>1, <1>2, <2>1, NextHouseBehind
  <2>3. ~At("deposit") /\ ~At("deposit")' /\ ~At("off")'
    BY <2>1, <2>2 DEF At
  <2> QED
    BY <1>1, <2>1, <2>2, <2>3, StandingKept
<1>3. CASE ~Exists(houses[h]) /\ CreateHouse(h, HOUSES[n].params) /\ Goes("deposit", n)
  <2>1. boot.at = "house" /\ boot'.at = "deposit" /\ boot'.house = n
    BY <1>1, <1>3 DEF At, Goes
  <2>2. /\ houses' = [houses EXCEPT ![h] = account]
    BY <1>3 DEF CreateHouse
  <2>3. account # NoAccount
    <3>1. HOUSES[n].params \in HouseParams
      BY <1>1, HousesFact
    <3>2. account \in House
      BY <3>1, ConstantsAssumption DEF House, U64
    <3> QED
      BY <3>2, NoAccountAssumption
  <2> HIDE DEF account
  <2>4. Exists(houses'[h]) /\ \A g \in Houses : g # h => houses'[g] = houses[g]
    BY <1>1, <2>2, <2>3 DEF Exists
  <2>5. \A i \in DOMAIN HOUSES : Exists(houses[HOUSES[i].house]) => Exists(houses'[HOUSES[i].house])
    BY <2>4, HousesFact DEF Exists
  <2>6. ASSUME NEW i \in DOMAIN HOUSES
        PROVE  Standing(i)'
    <3>1. Standing(i) /\ HOUSES[i].house \in Houses /\ ~Underway(i)
      BY <2>1, HousesFact DEF BootInv, Underway, At
    <3>2. CASE i = n
      <4>1. token'[HOUSES[i].house] = 0
        BY <1>1, <1>3, <3>1, <3>2 DEF Standing
      <4>2. Underway(i)'
        BY <2>1, <3>2 DEF Underway, At
      <4>3. Exists(houses'[HOUSES[i].house])
        BY <2>4, <3>2
      <4> QED
        BY <4>1, <4>2, <4>3 DEF Standing
    <3>3. CASE i # n
      <4>1. HOUSES[i].house # h
        BY <1>1, <3>3, BootAssumption
      <4>2. houses'[HOUSES[i].house] = houses[HOUSES[i].house]
        BY <2>4, <3>1, <4>1
      <4>3. ~Underway(i)'
        BY <2>1, <3>3 DEF Underway
      <4> QED
        BY <1>1, <3>1, <4>2, <4>3 DEF Standing, Exists
    <3> QED
      BY <3>2, <3>3
  <2>7. Built'
    <3>1. Exists(config') /\ Exists(frontends'[AdminFrontend])
      BY <1>1, <2>1 DEF BootInv, Built, Exists
    <3>2. \A i \in DOMAIN HOUSES : Behind(i)' => Behind(i)
      BY <2>1 DEF Behind, At
    <3> QED
      BY <2>5, <3>1, <3>2 DEF BootInv, Built
  <2> QED
    BY <2>1, <2>6, <2>7 DEF At
<1> QED
  BY <1>2, <1>3 DEF BootHouse

LEMMA DepositBuilt ==
    ASSUME BootInv, BootDeposit
    PROVE  (\A i \in DOMAIN HOUSES : Standing(i)') /\ Built' /\ ~At("off")'
<1> DEFINE n == boot.house
           h == HOUSES[n].house
           d == HOUSES[n].deposit
<1>1. /\ boot.at = "deposit" /\ n \in DOMAIN HOUSES /\ h \in Houses /\ d \in Nat
      /\ UNCHANGED <<orphans, config, frontends, houses>> /\ NextHouse(n)
      /\ token' = Moved(token, Admin, h, d) /\ token[Admin] >= d
  BY HousesFact DEF BootDeposit, BootInv, BootTyped, Deposit, At
<1>2. Standing(n) /\ Underway(n)
  BY <1>1 DEF BootInv, Underway, At
<1>3. token[h] = 0 /\ Exists(houses[h])
  BY <1>2 DEF Standing
<1>4. Built' /\ boot'.at \in {"house", "done"}
  BY <1>1, <1>3, NextHouseBehind
<1>5. /\ Admin \in TokenAccounts /\ h \in TokenAccounts /\ token \in [TokenAccounts -> Nat]
      /\ \A g \in Houses : g \in TokenAccounts /\ g # Admin
  BY <1>1, AccountsFact, BootAssumption DEF BootInv, VaultInv, TypeOK
<1>6. token'[h] = d /\ \A g \in Houses : g # h => token'[g] = token[g]
  BY <1>1, <1>3, <1>5 DEF Moved
<1>7. ASSUME NEW i \in DOMAIN HOUSES
      PROVE  Standing(i)'
  <2>1. Standing(i) /\ HOUSES[i].house \in Houses /\ ~Underway(i)'
    BY <1>4, HousesFact DEF BootInv, Underway, At
  <2>2. CASE i = n
    BY <1>1, <1>3, <1>6, <2>1, <2>2 DEF Standing, Exists
  <2>3. CASE i # n
    <3>1. HOUSES[i].house # h /\ ~Underway(i)
      BY <1>1, <2>3, BootAssumption DEF Underway
    <3>2. token'[HOUSES[i].house] = token[HOUSES[i].house]
      BY <1>6, <2>1, <3>1
    <3> QED
      BY <1>1, <2>1, <3>1, <3>2 DEF Standing, Exists
  <2> QED
    BY <2>2, <2>3
<1> QED
  BY <1>4, <1>7 DEF At

LEMMA StopsBuilt ==
    ASSUME BootInv, StopsHere \/ RunsAgain
    PROVE  (\A i \in DOMAIN HOUSES : Standing(i)') /\ Built' /\ ~At("off")'
<1>1. UNCHANGED <<houses, token>> /\ boot'.at \in {"stopped", "config"}
  BY DEF StopsHere, RunsAgain, Goes, vars
<1>2. Built' /\ ~At("off")' /\ ~At("deposit")'
  BY <1>1 DEF Built, Behind, At
<1>3. ASSUME NEW i \in DOMAIN HOUSES
      PROVE  Standing(i)'
  <2>1. Standing(i) /\ ~Underway(i)'
    BY <1>2 DEF BootInv, Underway, At
  <2>2. Underway(i) => HOUSES[i].house \in orphans'
    BY DEF StopsHere, RunsAgain, Underway, At
  <2>3. orphans \subseteq orphans'
    BY DEF StopsHere, RunsAgain
  <2> QED
    BY <1>1, <2>1, <2>2, <2>3 DEF Standing, Exists
<1> QED
  BY <1>2, <1>3

(* The faucet gives to users, and houses are none: a grant, one that wipes *)
(* out what was minted included, leaves whatever stands.                   *)
LEMMA FaucetBuilt ==
    ASSUME BootInv, FaucetNext
    PROVE  BootInv'
<1>1. /\ VaultInv /\ BootTyped /\ FaucetAmount \in Nat
      /\ faucet = NoAccount \/ faucet \in [to : Users, current : Nat]
      /\ \A u \in Users : u \in TokenAccounts /\ token[u] \in Nat
  BY BootAssumption, AccountsFact DEF BootInv, VaultInv, TypeOK
<1>2. UNCHANGED <<boot, orphans>> /\ BootTyped' /\ ~At("off")'
  BY <1>1 DEF FaucetNext, FaucetReads, FaucetSets, FaucetMints, FaucetGives, FaucetFails,
              bootVars, BootTyped, BootInv, At
<1>3. UNCHANGED <<config, frontends, houses>>
  BY DEF FaucetNext, FaucetReads, FaucetSets, FaucetMints, FaucetGives, FaucetFails, Keeps, vars
<1>4. Built'
  BY <1>2, <1>3 DEF BootInv, Built, Behind, At, Exists
<1>5. ASSUME NEW n \in Nat, FaucetGives(n)
      PROVE  VaultInv' /\ \A h \in Houses : token'[h] = token[h]
  <2>1. faucet.to \in Users /\ Keeps /\ token' = [token EXCEPT ![faucet.to] = n]
    BY <1>1, <1>5 DEF FaucetGives
  <2>2. \A h \in Houses : h # faucet.to /\ h \in TokenAccounts
    BY <2>1, AccountsFact
  <2>3. token \in [TokenAccounts -> Nat]
    BY <1>1 DEF VaultInv, TypeOK
  <2> QED
    BY <1>1, <2>1, <2>2, <2>3, GrantKeepsVaultInv
<1>6. VaultInv' /\ \A h \in Houses : token'[h] = token[h]
  <2>1. CASE FaucetReads \/ FaucetFails
    <3>1. UNCHANGED vars
      BY <2>1 DEF FaucetReads, FaucetFails
    <3> QED
      BY <1>1, <3>1, NextVaultInv DEF vars
  <2>2. CASE FaucetSets
    <3>1. faucet.current + FaucetAmount \in Nat
      BY <1>1, <2>2 DEF FaucetSets, FaucetGives
    <3> QED
      BY <1>5, <2>2, <3>1 DEF FaucetSets
  <2>3. CASE FaucetMints
    <3>1. token[faucet.to] + FaucetAmount \in Nat
      BY <1>1, <2>3 DEF FaucetMints, FaucetGives
    <3> QED
      BY <1>5, <2>3, <3>1 DEF FaucetMints
  <2> QED
    BY <2>1, <2>2, <2>3 DEF FaucetNext
<1>7. ASSUME NEW i \in DOMAIN HOUSES
      PROVE  Standing(i)'
  <2>1. Standing(i) /\ HOUSES[i].house \in Houses
    BY HousesFact DEF BootInv
  <2> QED
    BY <1>2, <1>3, <1>6, <2>1 DEF Standing, Underway, At, Exists
<1>8. faucet' = NoAccount \/ faucet' \in [to : Users, current : Nat]
  <2>1. CASE FaucetReads
    <3>1. PICK u \in Users : \E current \in {token[u], 0} :
                faucet' = [to |-> u, current |-> current]
      BY <2>1 DEF FaucetReads
    <3>2. PICK current \in {token[u], 0} : faucet' = [to |-> u, current |-> current]
      BY <3>1
    <3>3. current \in Nat
      BY <1>1
    <3> QED
      BY <3>2, <3>3
  <2>2. CASE ~FaucetReads
    BY <2>2 DEF FaucetNext, FaucetSets, FaucetMints, FaucetGives, FaucetFails
  <2> QED
    BY <2>1, <2>2
<1> QED
  BY <1>2, <1>4, <1>6, <1>7, <1>8 DEF BootInv

LEMMA NextBootInv == BootInv /\ [BootNext \/ FaucetNext]_deploymentVars => BootInv'
<1> SUFFICES ASSUME BootInv, [BootNext \/ FaucetNext]_deploymentVars
             PROVE  BootInv'
  OBVIOUS
<1>1. BootNext \/ UNCHANGED boot => BootTyped'
  BY BootTypedKept DEF BootInv
<1>2. BootNext => UNCHANGED faucet
  BY DEF BootNext, BootSteps, BootConfig, BootMint, BootFrontend, BootHouse, BootDeposit,
         BootRefused, RunsAgain, Stops, StopsHere, faucetVars
<1>3. CASE BootMint
  <2>1. BootNext
    BY <1>3 DEF BootNext, BootSteps
  <2> QED
    BY <1>1, <1>2, <1>3, <2>1, MintBuilt DEF BootInv
<1>4. CASE BootNext /\ ~BootMint
  <2>1. VaultInv'
    BY <1>4, ScriptCalls, NextVaultInv DEF BootInv
  <2>2. (\A i \in DOMAIN HOUSES : Standing(i)') /\ Built' /\ ~At("off")'
    BY <1>4, ConfigBuilt, FrontendBuilt, HouseBuilt, DepositBuilt, StopsBuilt
       DEF BootNext, BootSteps, Stops, BootRefused
  <2> QED
    BY <1>1, <1>2, <1>4, <2>1, <2>2 DEF BootInv
<1>5. CASE FaucetNext
  BY <1>5, FaucetBuilt
<1>6. CASE UNCHANGED deploymentVars
  <2>1. UNCHANGED <<vars, boot, orphans, faucet>>
    BY <1>6 DEF deploymentVars, bootVars, faucetVars
  <2>2. VaultInv'
    BY <2>1, NextVaultInv DEF BootInv
  <2>3. (\A i \in DOMAIN HOUSES : Standing(i)') /\ Built' /\ ~At("off")'
    BY <2>1 DEF BootInv, Standing, Underway, Built, Behind, At, Exists, vars
  <2> QED
    BY <1>1, <2>1, <2>2, <2>3 DEF BootInv
<1> QED
  BY <1>3, <1>4, <1>5, <1>6

LEMMA BootInvHolds == BootSpec => []BootInv
<1>1. Init /\ BootInit /\ boot = [at |-> "config", house |-> 1] => BootInv
  <2> SUFFICES ASSUME Init, BootInit, boot = [at |-> "config", house |-> 1]
               PROVE  BootInv
    OBVIOUS
  <2>1. BootTyped /\ ~At("off") /\ boot.at = "config"
    BY HousesFact DEF BootTyped, ScriptSteps, At
  <2>2. \A h \in Houses : ~Exists(houses[h]) /\ token[h] = 0
    BY AccountsFact DEF Init, Exists
  <2>3. \A i \in DOMAIN HOUSES : Standing(i)
    BY <2>1, <2>2, HousesFact DEF Standing, Underway, At
  <2>4. Built
    BY <2>1 DEF Built, Behind, At
  <2> QED
    BY <2>1, <2>3, <2>4, InitVaultInv DEF BootInv, BootInit
<1> QED
  BY <1>1, NextBootInv, PTL DEF BootSpec

(* However often a deployment stopped half-way and was run again, and      *)
(* whatever the faucet made of the balances meanwhile: when the script     *)
(* says DONE, the config, the frontend and every house are there, and a    *)
(* house is short of its collateral only if a run stopped between creating *)
(* and funding it.                                                         *)
THEOREM DoneAlwaysMeansBuilt == BootSpec => []DoneMeansBuilt
<1>1. BootInv => DoneMeansBuilt
  <2> SUFFICES ASSUME BootInv, At("done")
               PROVE  /\ Exists(config) /\ Exists(frontends[AdminFrontend])
                      /\ \A h \in ToSet(HOUSES) : Exists(houses[h.house])
                      /\ \A h \in ToSet(HOUSES) : Deployed(h) \/ h.house \in orphans
    BY DEF DoneMeansBuilt
  <2>1. Exists(config) /\ Exists(frontends[AdminFrontend])
    BY DEF BootInv, Built, At
  <2>2. ASSUME NEW h \in ToSet(HOUSES)
        PROVE  Exists(houses[h.house]) /\ (Deployed(h) \/ h.house \in orphans)
    <3>1. PICK i \in DOMAIN HOUSES : h = HOUSES[i]
      BY DEF ToSet
    <3>2. Exists(houses[h.house])
      BY <3>1 DEF BootInv, Built, Behind
    <3>3. token[h.house] = h.deposit \/ h.house \in orphans
      BY <3>1, <3>2 DEF BootInv, Standing, Underway, At
    <3>4. h.deposit \in Nat
      BY <3>1, HousesFact
    <3> QED
      BY <3>2, <3>3, <3>4 DEF Deployed
  <2> QED
    BY <2>1, <2>2
<1> QED
  BY <1>1, BootInvHolds, PTL

(* No rerun deposits into a house that an earlier run funded. *)
THEOREM AlwaysFundedAtMostOnce == BootSpec => []FundedAtMostOnce
<1>1. BootInv => FundedAtMostOnce
  <2> SUFFICES ASSUME BootInv, NEW h \in ToSet(HOUSES)
               PROVE  token[h.house] <= h.deposit
    BY DEF FundedAtMostOnce
  <2>1. PICK i \in DOMAIN HOUSES : h = HOUSES[i]
    BY DEF ToSet
  <2>2. token[h.house] \in {0, h.deposit} /\ h.deposit \in Nat
    BY <2>1, HousesFact DEF BootInv, Standing
  <2> QED
    BY <2>2
<1> QED
  BY <1>1, BootInvHolds, PTL

-----------------------------------------------------------------------------
(* The policy form of the owner's page *)

(* The rule a form is saved as offers what the form says. *)
LEMMA SavedRule ==
    ASSUME NEW p, p.fxMode \in Modes, NEW x
    PROVE  fixture_offered(policyToFilters(p), x) <=> Says(p.fxMode, p.fxs, x)
<1>1. CASE p.fxMode = "all"
  BY <1>1 DEF fixture_offered, policyToFilters, modeToRule, Says
<1>2. CASE p.fxMode = "only"
  BY <1>2 DEF fixture_offered, policyToFilters, modeToRule, Says
<1>3. CASE p.fxMode = "except"
  BY <1>3 DEF fixture_offered, policyToFilters, modeToRule, Says
<1> QED
  BY <1>1, <1>2, <1>3 DEF Modes

(* A form filled from a rule says what the rule offers, but for the empty  *)
(* allow-list.                                                             *)
LEMMA ShownRule ==
    ASSUME NEW f, f # NoAccount, ~(f.fixture_allow /\ f.fixtures = {}), NEW x
    PROVE  LET p == policyFromFilters(f)
           IN  Says(p.fxMode, p.fxs, x) <=> fixture_offered(f, x)
<1> DEFINE mode == ruleToMode(f.fixture_allow, f.fixtures)
<1>1. Says(mode, f.fixtures, x) <=> fixture_offered(f, x)
  <2>1. CASE f.fixtures = {}
    BY <2>1 DEF Says, ruleToMode, fixture_offered
  <2>2. CASE f.fixtures # {} /\ f.fixture_allow
    BY <2>2 DEF Says, ruleToMode, fixture_offered
  <2>3. CASE f.fixtures # {} /\ ~f.fixture_allow
    BY <2>3 DEF Says, ruleToMode, fixture_offered
  <2> QED
    BY <2>1, <2>2, <2>3
<1>2. policyFromFilters(f).fxMode = mode /\ policyFromFilters(f).fxs = f.fixtures
  BY DEF policyFromFilters
<1> QED
  BY <1>1, <1>2

LEMMA FilledMode ==
    ASSUME NEW f
    PROVE  policyFromFilters(f).fxMode \in Modes
  BY DEF policyFromFilters, OPEN_POLICY, ruleToMode, Modes

FormInv ==
    policyForm # NoForm =>
        \E known, read, policy :
            /\ policyForm = [known |-> known, read |-> read, policy |-> policy]
            /\ policy.fxMode \in Modes

LEMMA NextFormInv ==
    FormInv /\ [ConsoleNext \/ (Next /\ UNCHANGED consoleVars)]_<<vars, consoleVars>>
        => FormInv'
<1> SUFFICES ASSUME FormInv,
                    [ConsoleNext \/ (Next /\ UNCHANGED consoleVars)]_<<vars, consoleVars>>
             PROVE  FormInv'
  OBVIOUS
<1>1. CASE UNCHANGED policyForm
  BY <1>1 DEF FormInv
<1>2. CASE policyForm' = NoForm
  BY <1>2 DEF FormInv
<1>3. ASSUME NEW v, FormsFrom(v)
      PROVE  FormInv'
  BY <1>3, FilledMode DEF FormInv, FormsFrom
<1>4. CASE EditPolicy
  <2>1. PICK p \in PolicyChoices : policyForm' = [policyForm EXCEPT !.policy = p]
    BY <1>4 DEF EditPolicy
  <2>2. PICK known, read, policy :
            policyForm = [known |-> known, read |-> read, policy |-> policy]
    BY <1>4 DEF EditPolicy, FormInv
  <2>3. policyForm' = [known |-> known, read |-> read, policy |-> p]
    BY <2>1, <2>2
  <2>4. p.fxMode \in Modes
    BY ConsoleAssumption DEF OfferPolicy
  <2> QED
    BY <2>3, <2>4 DEF FormInv
<1>5. ASSUME NEW i \in DOMAIN polls, Polling(i) \/ PollFails(i)
      PROVE  FormInv'
  <2>1. CASE Answer(i)
    BY <1>1, <1>2, <1>3, <2>1 DEF Answer, formVars
  <2>2. CASE ReadLists(i) \/ NotListed(i) \/ ReadVault(i) \/ ReadPolicy(i) \/ PollFails(i)
    BY <1>1, <2>2 DEF ReadLists, NotListed, ReadVault, ReadPolicy, PollFails, formVars
  <2> QED
    BY <1>5, <2>1, <2>2 DEF Polling
<1>6. CASE PollNext
  BY <1>1, <1>5, <1>6 DEF PollNext, Interval, formVars
<1>7. CASE FormNext
  BY <1>1, <1>3, <1>4, <1>7 DEF FormNext, SwitchTabs, EditParams, SavePolicy, SaveParams,
                                act, formVars
<1>8. CASE ActNext
  <2>1. UNCHANGED formVars
    BY <1>8 DEF ActNext, ClickCreate, ClickDeposit, ClickWithdraw, ClickPause, act,
                ServerBuilds, Fails, WalletSends, Lands, Expires
  <2> QED
    BY <1>1, <2>1 DEF formVars
<1>9. CASE CloseTab
  BY <1>2, <1>9 DEF CloseTab
<1>10. CASE UNCHANGED consoleVars
  BY <1>1, <1>10 DEF consoleVars, formVars
<1> QED
  BY <1>6, <1>7, <1>8, <1>9, <1>10 DEF ConsoleNext

(* Whatever polls, edits and saves come in whatever order: a policy form   *)
(* that is saved makes the chain offer exactly what the form says, and one *)
(* that shows the chain's policy says exactly what the chain offers.       *)
THEOREM FormAlwaysTellsPolicy == ConsoleSpec => []FormTellsPolicy
<1>1. ConsoleInit => FormInv
  BY DEF ConsoleInit, FormInv
<1>2. FormInv => FormTellsPolicy
  <2> SUFFICES ASSUME FormInv, policyForm # NoForm, NEW x \in Fixtures
               PROVE  /\ fixture_offered(policyToFilters(policyForm.policy), x)
                            <=> Says(policyForm.policy.fxMode, policyForm.policy.fxs, x)
                      /\ (/\ policyForm.policy = policyFromFilters(policyForm.read)
                          /\ policyForm.known
                          /\ policyForm.read = filters[MyHouse]
                          /\ ~(/\ policyForm.read # NoAccount
                               /\ policyForm.read.fixture_allow
                               /\ policyForm.read.fixtures = {}))
                         => (Says(policyForm.policy.fxMode, policyForm.policy.fxs, x)
                                <=> Offered(MyHouse, x))
    BY DEF FormTellsPolicy
  <2> DEFINE p == policyForm.policy
             f == policyForm.read
  <2>1. p.fxMode \in Modes
    BY DEF FormInv
  <2>2. fixture_offered(policyToFilters(p), x) <=> Says(p.fxMode, p.fxs, x)
    BY <2>1, SavedRule
  <2>3. ASSUME p = policyFromFilters(f), f = filters[MyHouse],
               ~(f # NoAccount /\ f.fixture_allow /\ f.fixtures = {})
        PROVE  Says(p.fxMode, p.fxs, x) <=> Offered(MyHouse, x)
    <3> HIDE DEF p, f
    <3>1. CASE f = NoAccount
      BY <2>3, <3>1 DEF policyFromFilters, OPEN_POLICY, Says, Offered, Exists
    <3>2. CASE f # NoAccount
      BY <2>3, <3>2, ShownRule DEF Offered, Exists
    <3> QED
      BY <3>1, <3>2
  <2> QED
    BY <2>2, <2>3
<1> QED
  BY <1>1, <1>2, NextFormInv, PTL DEF ConsoleSpec

-----------------------------------------------------------------------------
(* The owner's page and the vault *)

(* What the page may have the wallet sign.                                 *)
PageAction(a) ==
    \/ /\ a.kind = "create" /\ a.params \in HouseParams /\ a.amount \in Nat
       /\ a.filters \in HouseFilters \cup {NoAccount}
    \/ a.kind \in {"deposit", "withdraw"} /\ a.amount \in Nat
    \/ a.kind = "updateParams" /\ a.params \in HouseParams
    \/ a.kind = "setPaused" /\ a.paused \in BOOLEAN
    \/ a.kind = "setFilters" /\ a.filters \in HouseFilters

(* Whatever it is, it keeps types, locks and vaults.                       *)
LEMMA PageActionStep ==
    ASSUME VaultInv, NEW a, PageAction(a), Executes(a)
    PROVE  VaultInv'
<1>1. CASE a.kind = "create"
  <2> DEFINE house == [params |-> a.params, total_locked |-> 0, paused |-> FALSE]
  <2>1. /\ a.params \in HouseParams /\ a.amount \in Nat
        /\ a.filters \in HouseFilters \cup {NoAccount}
        /\ CreateFunded(a)
    BY <1>1 DEF PageAction, Executes
  <2>2. house \in House
    BY <2>1, ConstantsAssumption DEF House, U64
  <2>3. /\ token' \in [TokenAccounts -> Nat]
        /\ \A g \in Houses : token'[g] >= token[g] /\ token'[g] \in Nat
    <3>1. /\ Me \in TokenAccounts /\ MyHouse \in TokenAccounts
          /\ token' = Moved(token, Me, MyHouse, a.amount) /\ a.amount <= token[Me]
          /\ token \in [TokenAccounts -> Nat]
          /\ \A g \in Houses : g \in TokenAccounts /\ g # Me
      BY <2>1, AccountsFact, ConsoleAssumption DEF CreateFunded, VaultInv, TypeOK
    <3> QED
      BY <2>1, <3>1, MovedFact
  <2> HIDE DEF house
  <2>4. houses' = [houses EXCEPT ![MyHouse] = house]
    BY <2>1 DEF CreateFunded, house
  <2>5. TypeOK'
    BY <2>1, <2>2, <2>3, <2>4, ConsoleAssumption DEF CreateFunded, VaultInv, TypeOK
  <2>6. LocksInSync'
    BY <2>1 DEF CreateFunded, VaultInv, LocksInSync, Exists
  <2>7. house.total_locked = 0
    BY DEF house
  <2>8. OthersKept(MyHouse) /\ token'[MyHouse] >= houses'[MyHouse].total_locked
    BY <2>3, <2>4, <2>7, ConsoleAssumption DEF OthersKept, VaultInv, TypeOK
  <2> QED
    BY <2>5, <2>6, <2>8, CoversKept, ConsoleAssumption DEF VaultInv
<1>2. CASE a.kind = "deposit"
  <2> DEFINE call == [depositor |-> Me, house |-> MyHouse, amount |-> a.amount]
  <2>1. call \in DepositCall /\ Deposit(call)
    BY <1>2, ConsoleAssumption DEF PageAction, Executes, DepositCall
  <2> QED
    BY <2>1, DepositStep
<1>3. CASE a.kind = "withdraw"
  <2> DEFINE call == [house |-> MyHouse, destination |-> Me, amount |-> a.amount]
  <2>1. call \in WithdrawCall /\ Withdraw(call)
    BY <1>3, ConsoleAssumption, AccountsFact DEF PageAction, Executes, WithdrawCall
  <2> QED
    BY <2>1, WithdrawStep
<1>4. CASE a.kind = "updateParams"
  BY <1>4, ConsoleAssumption, ParamsStep DEF PageAction, Executes
<1>5. CASE a.kind = "setPaused"
  BY <1>5, ConsoleAssumption, PauseStep DEF PageAction, Executes
<1>6. CASE a.kind = "setFilters"
  BY <1>6, ConsoleAssumption, FiltersStep DEF PageAction, Executes
<1> QED
  BY <1>1, <1>2, <1>3, <1>4, <1>5, <1>6 DEF PageAction

(* What the page knows, as far as what it sends is made of it.             *)
Shown(v) == v.pda \in MyHouses /\ v.params \in HouseParams /\ v.paused \in BOOLEAN
FullView(v) ==
    v # NoAccount => Shown(v) /\ v.filters \in HouseFilters \cup {NoAccount}

Asking(p) ==
    p # NoPoll =>
        /\ p.at = "reading" => \E house \in House \cup {NoAccount, NotRead} : \E h, held :
                /\ p = [at |-> "reading", pda |-> h, house |-> house, reserved |-> held]
                /\ house \notin {NoAccount, NotRead} => h \in MyHouses
        /\ p.at = "policy" => Shown(p.view)
        /\ p.at = "answer" => FullView(p.view)

PolicyFormOK ==
    policyForm # NoForm =>
        \E known, read, policy :
            /\ policyForm = [known |-> known, read |-> read, policy |-> policy]
            /\ policy \in OfferPolicy
ParamsFormOK == paramsForm # NoForm => paramsForm \in HouseParams
PendingOK ==
    pending # NoAccount =>
        \E at, action : pending = [at |-> at, action |-> action] /\ PageAction(action)
SentOK == \A action \in sent : PageAction(action)
PollsOK == \A i \in DOMAIN polls : Asking(polls[i])

PageInv ==
    FullView(view) /\ PollsOK /\ PolicyFormOK /\ ParamsFormOK /\ PendingOK /\ SentOK

(* A poll that goes on, and the others as they were. *)
LEMMA OnePollGoesOn ==
    ASSUME PollsOK, NEW i, NEW p, GoesOn(i, p), Asking(p)
    PROVE  PollsOK'
<1>1. DOMAIN polls' = DOMAIN polls
  BY DEF GoesOn
<1>2. \A j \in DOMAIN polls : polls'[j] = p \/ polls'[j] = polls[j]
  BY DEF GoesOn
<1>3. \A j \in DOMAIN polls' : Asking(polls'[j])
  BY <1>1, <1>2 DEF PollsOK
<1>4. \A j : (Asking(polls[j]))' <=> Asking(polls'[j])
  BY DEF Asking, Shown, FullView
<1> QED
  BY <1>3, <1>4 DEF PollsOK

(* The forms of a policy and back are policies and forms. *)
LEMMA PolicyTypes ==
    /\ \A f \in HouseFilters \cup {NoAccount} : policyFromFilters(f) \in OfferPolicy
    /\ \A p \in OfferPolicy : policyToFilters(p) \in HouseFilters
<1>1. ASSUME NEW f \in HouseFilters \cup {NoAccount}
      PROVE  policyFromFilters(f) \in OfferPolicy
  <2>1. \A allow, list : ruleToMode(allow, list) \in Modes
    BY DEF ruleToMode, Modes
  <2>2. CASE f = NoAccount
    BY <2>2 DEF policyFromFilters, OPEN_POLICY, OfferPolicy, Modes
  <2>3. CASE f # NoAccount
    <3>1. f.competitions \in SUBSET Nat /\ f.fixtures \in SUBSET Fixtures
      BY <2>3 DEF HouseFilters
    <3> QED
      BY <2>1, <2>3, <3>1 DEF policyFromFilters, OfferPolicy
  <2> QED
    BY <2>2, <2>3
<1>2. ASSUME NEW p \in OfferPolicy
      PROVE  policyToFilters(p) \in HouseFilters
  <2>1. /\ p.compMode \in Modes /\ p.fxMode \in Modes
        /\ p.comps \in SUBSET Nat /\ p.fxs \in SUBSET Fixtures
    BY DEF OfferPolicy
  <2>2. ASSUME NEW mode \in Modes, NEW S, NEW list \in SUBSET S
        PROVE  modeToRule(mode, list).allow \in BOOLEAN /\ modeToRule(mode, list).list \in SUBSET S
    <3>1. CASE mode = "all"
      BY <3>1 DEF modeToRule
    <3>2. CASE mode = "only"
      BY <3>2 DEF modeToRule
    <3>3. CASE mode = "except"
      BY <3>3 DEF modeToRule
    <3> QED
      BY <3>1, <3>2, <3>3 DEF Modes
  <2> HIDE DEF modeToRule
  <2>3. /\ modeToRule(p.compMode, p.comps).allow \in BOOLEAN
        /\ modeToRule(p.compMode, p.comps).list \in SUBSET Nat
        /\ modeToRule(p.fxMode, p.fxs).allow \in BOOLEAN
        /\ modeToRule(p.fxMode, p.fxs).list \in SUBSET Fixtures
    BY <2>1, <2>2
  <2> QED
    BY <2>3 DEF policyToFilters, HouseFilters
<1> QED
  BY <1>1, <1>2

(* A filled form holds what the view shows. *)
LEMMA FormsFilled ==
    ASSUME NEW v, v # NoAccount, FullView(v), FormsFrom(v)
    PROVE  PolicyFormOK' /\ ParamsFormOK'
<1>1. policyFromFilters(v.filters) \in OfferPolicy /\ v.params \in HouseParams
  BY PolicyTypes DEF FullView, Shown
<1> QED
  BY <1>1 DEF FormsFrom, PolicyFormOK, ParamsFormOK

(* A poll reads what is there, or less. *)
LEMMA PollKeepsPage ==
    ASSUME VaultInv, PageInv, NEW i \in DOMAIN polls, Polling(i) \/ PollFails(i)
    PROVE  PageInv'
<1> USE DEF PageInv
<1>0. \A h \in MyHouses : /\ houses[h] \in House \cup {NoAccount}
                            /\ filters[h] \in HouseFilters \cup {NoAccount}
  BY ConsoleAssumption DEF VaultInv, TypeOK
<1>1. Asking(polls[i])
  BY DEF PollsOK
<1>2. ASSUME UNCHANGED <<view, formVars, pending, sent>>, PollsOK'
      PROVE  PageInv'
  BY <1>2 DEF FullView, Shown, PolicyFormOK, ParamsFormOK, PendingOK, SentOK, formVars
<1>3. Asking(NoPoll)
  BY DEF Asking
<1>4. CASE ReadLists(i)
  <2>1. PICK house \in House \cup {NoAccount, NotRead} : \E h, held :
            /\ polls[i] = [at |-> "reading", pda |-> h, house |-> house, reserved |-> held]
            /\ house \notin {NoAccount, NotRead} => h \in MyHouses
    BY <1>1, <1>4 DEF ReadLists, Waiting, Asking
  <2>2. PICK pda, held :
            /\ polls[i] = [at |-> "reading", pda |-> pda, house |-> house, reserved |-> held]
            /\ house \notin {NoAccount, NotRead} => pda \in MyHouses
    BY <2>1
  <2>3. PICK p : /\ GoesOn(i, p)
                 /\ \/ p = [polls[i] EXCEPT !.house = NoAccount]
                    \/ \E h \in MyHouses :
                            p = [at |-> "reading", pda |-> h, house |-> houses[h],
                                 reserved |-> polls[i].reserved]
                    \/ \E r : p = [polls[i] EXCEPT !.reserved = r]
    BY <1>4 DEF ReadLists, Listed
  <2>4. Asking(p)
    <3>1. CASE p = [polls[i] EXCEPT !.house = NoAccount]
      <4>1. p = [at |-> "reading", pda |-> pda, house |-> NoAccount, reserved |-> held]
        BY <2>2, <3>1
      <4> QED
        BY <4>1 DEF Asking
    <3>2. ASSUME NEW h \in MyHouses,
                 p = [at |-> "reading", pda |-> h, house |-> houses[h],
                      reserved |-> polls[i].reserved]
          PROVE  Asking(p)
      BY <1>0, <3>2 DEF Asking
    <3>3. ASSUME NEW r, p = [polls[i] EXCEPT !.reserved = r]
          PROVE  Asking(p)
      <4>1. p = [at |-> "reading", pda |-> pda, house |-> house, reserved |-> r]
        BY <2>2, <3>3
      <4> QED
        BY <2>2, <4>1 DEF Asking
    <3> QED
      BY <2>3, <3>1, <3>2, <3>3
  <2> QED
    BY <1>2, <1>4, <2>3, <2>4, OnePollGoesOn DEF ReadLists
<1>5. CASE NotListed(i)
  <2>1. Asking([at |-> "answer", view |-> NoAccount])
    BY DEF Asking, FullView
  <2> QED
    BY <1>2, <1>5, <2>1, OnePollGoesOn DEF NotListed
<1>6. CASE ReadVault(i)
  <2> DEFINE h == polls[i].pda
  <2>1. PICK vault : GoesOn(i, [at |-> "policy",
                        view |-> Split(h, polls[i].house, polls[i].reserved[h], vault)])
    BY <1>6 DEF ReadVault
  <2> DEFINE v == Split(h, polls[i].house, polls[i].reserved[h], vault)
  <2>2. polls[i].house \in House /\ h \in MyHouses
    <3>1. /\ polls[i].at = "reading" /\ polls[i] # NoPoll
          /\ polls[i].house # NotRead /\ polls[i].house # NoAccount
      BY <1>6 DEF ReadVault, ListsRead, Waiting, Exists
    <3>2. PICK house \in House \cup {NoAccount, NotRead} : \E g, held :
                /\ polls[i] = [at |-> "reading", pda |-> g, house |-> house, reserved |-> held]
                /\ house \notin {NoAccount, NotRead} => g \in MyHouses
      BY <1>1, <3>1 DEF Asking
    <3> QED
      BY <3>1, <3>2
  <2>3. Shown(v)
    BY <2>2 DEF Split, Shown, House
  <2> HIDE DEF v
  <2>4. Asking([at |-> "policy", view |-> v])
    BY <2>3 DEF Asking
  <2> QED
    BY <1>2, <1>6, <2>1, <2>4, OnePollGoesOn DEF ReadVault, v
<1>7. CASE ReadPolicy(i)
  <2>1. PICK known \in BOOLEAN : GoesOn(i, [at |-> "answer", view |-> WithPolicy(polls[i].view,
                        IF known THEN filters[polls[i].view.pda] ELSE NoAccount, known)])
    BY <1>7 DEF ReadPolicy
  <2> DEFINE rules == IF known THEN filters[polls[i].view.pda] ELSE NoAccount
             v == WithPolicy(polls[i].view, rules, known)
  <2>2. Shown(polls[i].view)
    BY <1>1, <1>7 DEF ReadPolicy, Waiting, Asking
  <2>3. rules \in HouseFilters \cup {NoAccount}
    BY <1>0, <2>2 DEF Shown
  <2> HIDE DEF rules
  <2>4. FullView(v)
    BY <2>2, <2>3 DEF WithPolicy, FullView, Shown
  <2> HIDE DEF v
  <2>5. Asking([at |-> "answer", view |-> v])
    BY <2>4 DEF Asking
  <2> QED
    BY <1>2, <1>7, <2>1, <2>5, OnePollGoesOn DEF ReadPolicy, v, rules
<1>8. CASE Answer(i)
  <2>1. FullView(polls[i].view) /\ view' = polls[i].view
    BY <1>1, <1>8 DEF Answer, Waiting, Asking
  <2>2. FullView(view)'
    BY <2>1 DEF FullView, Shown
  <2>3. PollsOK' /\ PendingOK' /\ SentOK'
    BY <1>3, <1>8, OnePollGoesOn DEF Answer, PendingOK, SentOK
  <2>4. PolicyFormOK' /\ ParamsFormOK'
    <3>1. CASE policyForm' = NoForm /\ paramsForm' = NoForm
      BY <3>1 DEF PolicyFormOK, ParamsFormOK
    <3>2. CASE view' # NoAccount /\ FormsFrom(view')
      BY <2>1, <3>2, FormsFilled
    <3>3. CASE UNCHANGED formVars
      BY <3>3 DEF PolicyFormOK, ParamsFormOK, formVars
    <3> QED
      BY <1>8, <3>1, <3>2, <3>3 DEF Answer
  <2> QED
    BY <2>2, <2>3, <2>4
<1>9. CASE PollFails(i)
  BY <1>2, <1>3, <1>9, OnePollGoesOn DEF PollFails
<1> QED
  BY <1>4, <1>5, <1>6, <1>7, <1>8, <1>9 DEF Polling

(* What is clicked is an action of the page. *)
LEMMA ClickKeepsPage ==
    ASSUME PageInv, NEW a, act(a), PageAction(a)
    PROVE  PageInv'
  BY DEF PageInv, act, FullView, Shown, PollsOK, PolicyFormOK, ParamsFormOK, PendingOK,
         SentOK, formVars

(* Every step keeps what the page knows and the vault.                     *)
LEMMA NextPageInv ==
    ASSUME VaultInv, PageInv,
           [ConsoleNext \/ (Next /\ UNCHANGED consoleVars)]_<<vars, consoleVars>>
    PROVE  VaultInv' /\ PageInv'
<1> USE DEF PageInv
<1>1. ASSUME UNCHANGED vars
      PROVE  VaultInv'
  BY <1>1, NextVaultInv
<1>2. ASSUME UNCHANGED consoleVars
      PROVE  PageInv'
  BY <1>2 DEF consoleVars, formVars, FullView, Shown, PollsOK, Asking, PolicyFormOK,
              ParamsFormOK, PendingOK, SentOK
<1>3. CASE PollNext
  <2>1. UNCHANGED vars
    BY <1>3 DEF PollNext, Interval, Polling, ReadLists, NotListed, ReadVault, ReadPolicy,
                Answer, PollFails
  <2>2. CASE Interval
    <3>1. PICK j : GoesOn(j, Asked)
      BY <2>2 DEF Interval
    <3>2. Asking(Asked)
      BY DEF Asking, Asked
    <3>3. PollsOK'
      BY <3>1, <3>2, OnePollGoesOn
    <3>4. UNCHANGED <<view, formVars, pending, sent>>
      BY <2>2 DEF Interval
    <3> QED
      BY <1>1, <2>1, <3>3, <3>4 DEF FullView, Shown, PolicyFormOK, ParamsFormOK, PendingOK,
                                    SentOK, formVars
  <2> QED
    BY <1>1, <1>3, <2>1, <2>2, PollKeepsPage DEF PollNext
<1>4. CASE FormNext
  <2>1. UNCHANGED vars
    BY <1>4 DEF FormNext, SwitchTabs, EditPolicy, EditParams, SavePolicy, SaveParams, act
  <2>2. CASE SwitchTabs
    <3>1. PolicyFormOK' /\ ParamsFormOK'
      BY <2>2, FormsFilled DEF SwitchTabs
    <3> QED
      BY <1>1, <2>1, <2>2, <3>1 DEF SwitchTabs, FullView, Shown, PollsOK, Asking, PendingOK,
                                    SentOK
  <2>3. CASE EditPolicy
    <3>1. PICK p \in PolicyChoices : policyForm' = [policyForm EXCEPT !.policy = p]
      BY <2>3 DEF EditPolicy
    <3>2. PICK known, read, policy :
              policyForm = [known |-> known, read |-> read, policy |-> policy]
      BY <2>3 DEF EditPolicy, PolicyFormOK
    <3>3. policyForm' = [known |-> known, read |-> read, policy |-> p] /\ p \in OfferPolicy
      BY <3>1, <3>2, ConsoleAssumption
    <3>4. PolicyFormOK'
      BY <3>3 DEF PolicyFormOK
    <3> QED
      BY <1>1, <2>1, <2>3, <3>4 DEF EditPolicy, FullView, Shown, PollsOK, Asking,
                                    ParamsFormOK, PendingOK, SentOK
  <2>4. CASE EditParams
    <3>1. ParamsFormOK'
      BY <2>4, ConstantsAssumption DEF EditParams, ParamsFormOK
    <3> QED
      BY <1>1, <2>1, <2>4, <3>1 DEF EditParams, FullView, Shown, PollsOK, Asking,
                                    PolicyFormOK, PendingOK, SentOK
  <2>5. CASE SavePolicy
    <3> DEFINE a == [kind |-> "setFilters", filters |-> policyToFilters(policyForm.policy)]
    <3>1. policyForm.policy \in OfferPolicy
      BY <2>5 DEF SavePolicy, PolicyFormOK
    <3>2. PageAction(a)
      BY <3>1, PolicyTypes DEF PageAction
    <3> QED
      BY <1>1, <2>1, <2>5, <3>2, ClickKeepsPage DEF SavePolicy
  <2>6. CASE SaveParams
    <3> DEFINE a == [kind |-> "updateParams", params |-> paramsForm]
    <3>1. PageAction(a)
      BY <2>6 DEF SaveParams, ParamsFormOK, PageAction
    <3> QED
      BY <1>1, <2>1, <2>6, <3>1, ClickKeepsPage DEF SaveParams
  <2> QED
    BY <1>4, <2>2, <2>3, <2>4, <2>5, <2>6 DEF FormNext
<1>5. CASE ClickCreate \/ ClickDeposit \/ ClickWithdraw \/ ClickPause
  <2>1. PICK a : act(a) /\ PageAction(a)
    <3>1. CASE ClickCreate
      <4>1. PICK p \in HouseChoices, amount \in Amounts, policy \in PolicyChoices :
                act([kind |-> "create", params |-> p, amount |-> amount,
                     filters |-> IF isOpenPolicy(policy) THEN NoAccount
                                 ELSE policyToFilters(policy)])
        BY <3>1 DEF ClickCreate
      <4> DEFINE rules == IF isOpenPolicy(policy) THEN NoAccount ELSE policyToFilters(policy)
      <4>2. /\ p \in HouseParams /\ amount \in Nat
            /\ rules \in HouseFilters \cup {NoAccount}
        BY PolicyTypes, ConsoleAssumption, ConstantsAssumption
      <4> HIDE DEF rules
      <4>3. PageAction([kind |-> "create", params |-> p, amount |-> amount,
                        filters |-> rules])
        BY <4>2 DEF PageAction
      <4> QED
        BY <4>1, <4>3 DEF rules
    <3>2. CASE ClickDeposit
      BY <3>2, ConsoleAssumption DEF ClickDeposit, PageAction
    <3>3. CASE ClickWithdraw
      BY <3>3, ConsoleAssumption DEF ClickWithdraw, PageAction
    <3>4. CASE ClickPause
      <4> DEFINE other == ~view.paused
                 pause == [kind |-> "setPaused", paused |-> other]
      <4>1. other \in BOOLEAN
        OBVIOUS
      <4>2. act(pause)
        BY <3>4 DEF ClickPause
      <4> HIDE DEF other
      <4>3. PageAction(pause)
        BY <4>1 DEF PageAction
      <4> QED
        BY <4>2, <4>3
    <3> QED
      BY <1>5, <3>1, <3>2, <3>3, <3>4
  <2> QED
    BY <1>1, <2>1, ClickKeepsPage DEF act
<1>6. CASE ServerBuilds \/ Fails \/ WalletSends
  <2>1. UNCHANGED vars /\ UNCHANGED <<view, polls, formVars>>
    BY <1>6 DEF ServerBuilds, Fails, WalletSends
  <2>2. PendingOK' /\ SentOK'
    <3>1. CASE ServerBuilds
      <4>1. PICK at, action : pending = [at |-> at, action |-> action] /\ PageAction(action)
        BY <3>1 DEF ServerBuilds, PendingOK
      <4>2. pending' = [at |-> "signing", action |-> action] /\ sent' = sent
        BY <3>1, <4>1 DEF ServerBuilds
      <4> QED
        BY <4>1, <4>2 DEF PendingOK, SentOK
    <3>2. CASE Fails
      BY <3>2 DEF Fails, PendingOK, SentOK
    <3>3. CASE WalletSends
      <4>1. PICK at, action : pending = [at |-> at, action |-> action] /\ PageAction(action)
        BY <3>3 DEF WalletSends, PendingOK
      <4> QED
        BY <3>3, <4>1 DEF WalletSends, PendingOK, SentOK
    <3> QED
      BY <1>6, <3>1, <3>2, <3>3
  <2> QED
    BY <1>1, <2>1, <2>2 DEF FullView, Shown, PollsOK, Asking, PolicyFormOK, ParamsFormOK,
                            formVars
<1>7. ASSUME NEW action \in sent, Lands(action) \/ Expires(action)
      PROVE  VaultInv' /\ PageInv'
  <2>1. VaultInv'
    BY <1>1, <1>7, PageActionStep DEF SentOK, Lands, Expires
  <2> QED
    BY <1>7, <2>1 DEF Lands, Expires, FullView, Shown, PollsOK, Asking, PolicyFormOK,
                      ParamsFormOK, PendingOK, SentOK, formVars
<1>8. CASE CloseTab
  BY <1>1, <1>8 DEF CloseTab, FullView, Shown, PollsOK, Asking, PolicyFormOK, ParamsFormOK,
                    PendingOK, SentOK
<1>9. CASE Next /\ UNCHANGED consoleVars
  BY <1>2, <1>9, NextVaultInv
<1>10. CASE UNCHANGED <<vars, consoleVars>>
  BY <1>1, <1>2, <1>10
<1> QED
  BY <1>3, <1>4, <1>5, <1>6, <1>7, <1>8, <1>9, <1>10 DEF ConsoleNext, ActNext

(* Whatever the page shows of torn reads and old forms, the transactions   *)
(* it has the wallet sign leave every account of its type, every lock in   *)
(* sync and every vault covering its locks.                                *)
THEOREM PageKeepsVault == ConsoleSpec => [](VaultInv /\ PageInv)
<1>1. Init /\ ConsoleInit /\ polls = [i \in 1..MaxPolls |-> NoPoll] => VaultInv /\ PageInv
  BY InitVaultInv DEF ConsoleInit, PageInv, FullView, PollsOK, Asking, PolicyFormOK,
                      ParamsFormOK, PendingOK, SentOK
<1>2. VaultInv /\ PageInv
      /\ [ConsoleNext \/ (Next /\ UNCHANGED consoleVars)]_<<vars, consoleVars>>
      => VaultInv' /\ PageInv'
  BY NextPageInv
<1> QED
  BY <1>1, <1>2, PTL DEF ConsoleSpec

(* "Free - withdrawable now" (house.tsx): for a view of the house it acts  *)
(* on that is current, the page lets the owner ask for exactly what the    *)
(* program pays out.                                                       *)
THEOREM FreeIsAlwaysWithdrawable == ConsoleSpec => []FreeIsWithdrawable
<1>1. VaultInv => FreeIsWithdrawable
  <2> SUFFICES ASSUME VaultInv, MyHouse \in Listed, view = Current(MyHouse),
                      NEW amount \in 0..token[MyHouse] + 1
               PROVE  WithdrawGuard(amount) <=>
                        CanWithdraw([house |-> MyHouse, destination |-> Me,
                                     amount |-> amount])
    BY DEF FreeIsWithdrawable
  <2> DEFINE vault == token[MyHouse]
             total == houses[MyHouse].total_locked
             call == [house |-> MyHouse, destination |-> Me, amount |-> amount]
  <2>1. Exists(houses[MyHouse]) /\ view.vault = vault /\ view.total_locked = total
    BY DEF Current, WithPolicy, Split, Listed
  <2>2. vault \in Nat /\ total \in Nat /\ amount \in Nat /\ vault >= total
    <3>1. vault \in Nat
      BY ConsoleAssumption, AccountsFact DEF VaultInv, TypeOK
    <3>2. total \in Nat
      BY <2>1, ConsoleAssumption, ConstantsAssumption
         DEF VaultInv, TypeOK, Exists, House, U64
    <3>3. vault >= total
      BY <2>1, ConsoleAssumption DEF VaultInv, VaultCoversLocks
    <3> QED
      BY <3>1, <3>2, <3>3
  <2>3. WithdrawGuard(amount) <=> amount <= vault - total
    BY <2>1 DEF WithdrawGuard, Free
  <2>4. FreeCollateral(MyHouse) = vault - total
    BY <2>2 DEF FreeCollateral, SatSub
  <2>5. WithdrawPayment(call)[MyHouse] = vault - amount
    BY ConsoleAssumption, AccountsFact DEF WithdrawPayment, Moved, VaultInv, TypeOK
  <2>6. CanWithdraw(call) <=> amount <= vault - total /\ vault - amount >= total
    BY <2>1, <2>4, <2>5 DEF CanWithdraw, VaultCovers
  <2> HIDE DEF vault, total, call
  <2>7. amount <= vault - total => vault - amount >= total
    BY <2>2
  <2> QED
    BY <2>3, <2>6, <2>7 DEF call
<1> QED
  BY <1>1, PageKeepsVault, PTL

=============================================================================
