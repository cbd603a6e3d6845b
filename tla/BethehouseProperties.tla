------------------------ MODULE BethehouseProperties ------------------------
(***************************************************************************)
(* What the program promises, as invariants of Bethehouse and, at the end, *)
(* liveness under the fairness of keepers who keep cranking.               *)
(***************************************************************************)
EXTENDS Bethehouse

(* Every account holds a value of its type.                                *)
TypeOK ==
    /\ config \in ConfigParams \cup {NoAccount}
    /\ frontends \in [Frontends -> [fee_bps : Nat] \cup {NoAccount}]
    /\ houses \in [Houses -> House \cup {NoAccount}]
    /\ filters \in [Houses -> HouseFilters \cup {NoAccount}]
    /\ exposures \in [Houses \X Fixtures -> FixtureExposure \cup {NoAccount}]
    /\ prints \in SUBSET ProvenPrint
    /\ bets \in [Bettors \X Nonces -> Bet \cup {NoAccount}]
    /\ token \in [TokenAccounts -> Nat]
    /\ unix_timestamp \in Nat
    /\ scores \in SUBSET ScoreStat

-----------------------------------------------------------------------------
(* Books and vaults *)

(* A house's vault always holds at least the collateral its books lock:    *)
(* commit, fill, settle, void and withdraw re-check it, refund and         *)
(* close_exposure rely on never raising the lock.                          *)
VaultCoversLocks ==
    \A h \in Houses : Exists(houses[h]) => token[h] >= houses[h].total_locked

(* Every book's lock is the one its liabilities and stakes call for: what  *)
(* makes the difference a refund rolls into total_locked never positive.   *)
LocksInSync ==
    \A h \in Houses, f \in Fixtures : Exists(exposures[<<h, f>>]) =>
        exposures[<<h, f>>].locked =
            locked(exposures[<<h, f>>].liability, exposures[<<h, f>>].stakes_collected)

(* What one bet puts on the book of house h and fixture f: its part of the *)
(* liability on outcome o (the reservation until fill, the payout after),  *)
(* of the collected stakes and of the count.                               *)
OnBook(bet, h, f) ==
    Exists(bet) /\ bet.state \in {"Pending", "Active"}
        /\ bet.house = h /\ bet.fixture_id = f
Claim(bet, h, f, o) ==
    IF OnBook(bet, h, f) /\ bet.outcome = o
    THEN IF bet.state = "Pending" THEN bet.reserved ELSE bet.payout
    ELSE 0
Collected(bet, h, f) ==
    IF OnBook(bet, h, f) /\ bet.state = "Active" THEN bet.stake ELSE 0
Counted(bet, h, f) == IF OnBook(bet, h, f) THEN 1 ELSE 0

Claims(h, f, o) == [bn \in Bettors \X Nonces |-> Claim(bets[bn], h, f, o)]
StakesOn(h, f) == [bn \in Bettors \X Nonces |-> Collected(bets[bn], h, f)]
Counts(h, f) == [bn \in Bettors \X Nonces |-> Counted(bets[bn], h, f)]

(* A book's liability on each outcome is what its live bets may be paid    *)
(* there, its collected stakes are those of its active bets, and it counts *)
(* its live bets; with no book there is no live bet.  So no order of       *)
(* commits, fills, refunds, settlements and closings leaks a reservation   *)
(* or releases one twice.                                                  *)
BookMatchesBets ==
    \A h \in Houses, f \in Fixtures :
        LET book == BookOf(h, f)
        IN  /\ \A o \in Outcomes : book.liability[o] = SumFunction(Claims(h, f, o))
            /\ book.stakes_collected = SumFunction(StakesOn(h, f))
            /\ book.open_bets = SumFunction(Counts(h, f))

Locks(h) == [f \in Fixtures |-> BookOf(h, f).locked]

(* A house's total_locked is the sum of the locks of its books, although   *)
(* the code only ever adds differences to it.                              *)
TotalMatchesBooks ==
    \A h \in Houses :
        Exists(houses[h]) => houses[h].total_locked = SumFunction(Locks(h))

-----------------------------------------------------------------------------
(* Escrow *)

StillEscrowed(bet) ==
    IF ~Exists(bet) THEN 0
    ELSE CASE bet.state = "Pending" -> RefundOf(bet)
           [] bet.state = "Active" -> config.keeper_reward
           [] OTHER -> 0

(* What the live bets put into the escrow and have not yet had paid out.   *)
Owed == SumFunction([bn \in Bettors \X Nonces |-> StillEscrowed(bets[bn])])

(* While keeper_reward is not raised, the shared escrow account holds at   *)
(* least what it owes: no bet is refunded or rewarded with the tokens of   *)
(* another.                                                                *)
EscrowBacksBets == token[Escrow] >= Owed

(* What it holds over that: nothing pays it out, but a raised reward.      *)
Surplus == token[Escrow] - Owed

(* A fill, settle or void that names cranker_token for its reward.         *)
CrankPaying(cranker_token) ==
    \E bettor \in Bettors, nonce \in Nonces :
        \/ \E commit_print \in prints, target_print \in prints :
                FillBet(cranker_token, bettor, nonce, commit_print, target_print)
        \/ \E ev \in scores : SettleBet(cranker_token, bettor, nonce, ev)
        \/ VoidBet(cranker_token, bettor, nonce)

(* The surplus is only what was given: it grows when a cranker names the   *)
(* escrow itself, by the one reward they forgo, and when an owner          *)
(* withdraws into it, by what they withdraw; no other step moves it, but   *)
(* for the admin's changes of the reward that live bets are owed.  So the  *)
(* fees and rewards a bet brought all leave with it, whichever way it      *)
(* ends, and a crank that names another account strands nothing.           *)
SurplusOnlyGiven ==
    [][\/ Surplus' = Surplus
       \/ CrankPaying(Escrow) /\ Surplus' = Surplus + config.keeper_reward
       \/ \E call \in Withdrawals :
            /\ call.destination = Escrow /\ Withdraw(call)
            /\ Surplus' = Surplus + call.amount
       \/ \E p \in ConfigChoices : UpdateConfig(p)]_vars

(* The refund of a bet nobody filled goes through whoever cranks it: while *)
(* keeper_reward is not raised, an expired pending bet can be refunded in  *)
(* full whatever else happened to the escrow, the house and the book.      *)
RefundNeverFails ==
    \A bettor \in Bettors, nonce \in Nonces :
        InState(bettor, nonce, "Pending") /\ Expired(bets[<<bettor, nonce>>])
            => CanRefund(bettor, nonce)

-----------------------------------------------------------------------------
(* Fills *)

(* "Fills can never fail economically": with two qualifying prints proven, *)
(* the fill of a pending bet passes every check on the house's collateral, *)
(* the reservation, the escrow and the vault.                              *)
FillNeverFails ==
    \A bettor \in Bettors, nonce \in Nonces, cranker_token \in RewardAccounts,
       commit_print \in prints, target_print \in prints :
        (/\ InState(bettor, nonce, "Pending")
         /\ Qualify(bets[<<bettor, nonce>>], commit_print, target_print))
            => CanFill(cranker_token, bettor, nonce, commit_print, target_print)

Filled(bet) == bet.state \in {"Active", "Won", "Lost", "Voided"}

(* Whether two oracle records justify the terms a bet was filled at.       *)
Justifies(commit_odds, target_odds, bet) ==
    LET o == bet.outcome
    IN  /\ \A odds \in {commit_odds, target_odds} :
            /\ odds.fixture_id = bet.fixture_id
            /\ odds.market = "1X2" /\ ~odds.in_running
            /\ odds.ts < bet.start_time_ms
            /\ bet.fill_odds <= odds.prices[o]
        /\ commit_odds.ts <= bet.commit_ts_ms
        /\ commit_odds.ts <= target_odds.ts
        /\ bet.fill_ts_ms = target_odds.ts

(* A filled bet's odds are justified by two pre-match 1X2 records of its   *)
(* fixture that the oracle published, one from before its commit and one   *)
(* no older, and are no better than either; its payout fits in what was    *)
(* reserved at commit.  It stays so after the prints are closed.  This is  *)
(* what fill_bet enforces, and less than the documents promise: see        *)
(* FilledAtWorse.                                                          *)
FillsAreProven ==
    \A bn \in Bettors \X Nonces : Exists(bets[bn]) /\ Filled(bets[bn]) =>
        /\ \E commit_odds, target_odds \in Feed :
                Justifies(commit_odds, target_odds, bets[bn])
        /\ bets[bn].payout <= bets[bn].reserved

-----------------------------------------------------------------------------
(* Settlement *)

FinalOf(f) ==
    {ev \in scores : ev.fixture_id = f /\ ev.period = PERIOD_GAME_FINALISED}

(* Won and lost bets agree with the final score of their fixture, never    *)
(* with a score of the match in play, whatever order scores and cranks     *)
(* came in.                                                                *)
SettledByResult ==
    \A bn \in Bettors \X Nonces :
        Exists(bets[bn]) /\ bets[bn].state \in {"Won", "Lost"} =>
            /\ FinalOf(bets[bn].fixture_id) # {}
            /\ \A ev \in FinalOf(bets[bn].fixture_id) :
                    bets[bn].state = "Won" <=> ResultOf(ev) = bets[bn].outcome

-----------------------------------------------------------------------------
(* What a document says and the code does not do; for each a run of its    *)
(* own finds it violated.                                                  *)

(* The first record at or after a bet's target that a fill may use.        *)
InTarget(bet, odds) ==
    /\ odds \in Feed /\ Published(odds)
    /\ odds.fixture_id = bet.fixture_id /\ check_1x2_record(odds)
    /\ odds.ts < bet.start_time_ms
    /\ odds.ts >= bet.target_ts_ms
    /\ odds.ts <= bet.target_ts_ms + config.fill_tolerance_ms
TargetOdds(bet) ==
    {odds \in Feed : InTarget(bet, odds) /\
        \A earlier \in Feed : InTarget(bet, earlier) => odds.ts <= earlier.ts}

(* README: a bet fills at the worse of the price at its commit and the     *)
(* price commit_delay later, whenever there is such a fresh price.  The    *)
(* code lets whoever cranks the fill pass the commit print as the target   *)
(* print, although a record of the target time shows a lower price.        *)
FilledAtWorse ==
    [][\A bettor \in Bettors, nonce \in Nonces :
        InState(bettor, nonce, "Pending") /\ InState(bettor, nonce, "Active")' =>
            LET bet == bets[<<bettor, nonce>>]
            IN  \A odds \in TargetOdds(bet) :
                    bets'[<<bettor, nonce>>].fill_odds <= odds.prices[bet.outcome]]_vars

(* README: a house can pay every bet it took: the vault holds the payout   *)
(* of any active bet that won.                                             *)
WinnersAreFunded ==
    \A bn \in Bettors \X Nonces :
        Exists(bets[bn]) /\ bets[bn].state = "Active" =>
            \A ev \in FinalOf(bets[bn].fixture_id) :
                ResultOf(ev) = bets[bn].outcome =>
                    token[bets[bn].house] >= bets[bn].payout

-----------------------------------------------------------------------------
(* Liveness *)

(* The clock runs, and refund_commit and void_bet are open to everyone and *)
(* need no proof: the bettor, whose money it is, or any keeper that keeps  *)
(* running can crank them until they go through.                           *)
CrankFairness ==
    /\ WF_vars(Tick)
    /\ \A bettor \in Bettors, nonce \in Nonces :
        /\ WF_vars(RefundCommit(bettor, nonce))
        /\ WF_vars(\E cranker_token \in RewardAccounts : VoidBet(cranker_token, bettor, nonce))

(* No bet stays pending: it is filled or, at the latest some time after it *)
(* expires, refunded.                                                      *)
PendingResolves ==
    \A bettor \in Bettors, nonce \in Nonces :
        InState(bettor, nonce, "Pending") ~> ~InState(bettor, nonce, "Pending")

(* The vault has the stake of an active bet to give back, and what is left *)
(* covers the locks of the other bets.                                     *)
Repayable(bet) ==
    LET book == exposures[<<bet.house, bet.fixture_id>>]
    IN  token[bet.house] >= bet.stake + Resynced(bet.house, ReleasedBook(book, bet))

(* No filled bet stays active for good: it is settled or, at the latest    *)
(* some time after its void window opens, voided, unless its owner         *)
(* withdrew what would have given its stake back.                          *)
ActiveResolves ==
    \A bettor \in Bettors, nonce \in Nonces :
        InState(bettor, nonce, "Active") ~>
            \/ ~InState(bettor, nonce, "Active")
            \/ ~Repayable(bets[<<bettor, nonce>>])
=============================================================================
