------------------------ MODULE BetLedgerRefinement ------------------------
(***************************************************************************)
(* The program implements BetLedger: a bet account is a slip whose cost is *)
(* what commit_bet escrowed and whose most is the reservation it made.     *)
(* Houses, books, prints, the escrow account, the clock and the scores are *)
(* the program's own business.                                             *)
(***************************************************************************)
EXTENDS BethehouseProperties

TermsOf(bet) ==
    [stake |-> bet.stake,
     cost |-> bet.stake + bet.frontend_fee + bet.protocol_fee + KeeperEscrow,
     most |-> bet.reserved]

SlipOf(bet) ==
    IF Exists(bet)
    THEN [terms |-> TermsOf(bet), prize |-> bet.payout, state |-> bet.state]
    ELSE NoAccount

(* What the orders come to under the fees and caps there may be. *)
OfferedTerms ==
    {[stake |-> order.stake,
      cost |-> order.stake + TruncatedFee(order.stake, fee_bps)
                  + TruncatedFee(order.stake, c.protocol_fee_bps)
                  + KEEPER_CRANKS * c.keeper_reward,
      most |-> reserved(order.stake, p.odds_cap)] :
        order \in Orders, fee_bps \in FrontendFees, c \in ConfigChoices,
        p \in HouseChoices}

(* What a bettor who cranks may earn, and what one who keeps a house may   *)
(* deposit or withdraw.                                                    *)
CrankWages == {0} \cup {c.keeper_reward : c \in ConfigChoices}
BettorDealings ==
    {[bettor |-> call.depositor, amount |-> -call.amount] : call \in Deposits}
    \cup {[bettor |-> call.destination, amount |-> call.amount] : call \in Withdrawals}

SlipsNow == [bn \in Bettors \X Nonces |-> SlipOf(bets[bn])]
WalletNow == [bettor \in Bettors |-> token[bettor]]

ASSUME NoSlipAssumption ==
    NoAccount \notin [terms : [stake : Nat, cost : Nat, most : Nat],
                     prize : Nat, state : BetState]

Ledger == INSTANCE BetLedger WITH
    Terms <- OfferedTerms,
    Wages <- CrankWages,
    Dealings <- BettorDealings,
    NoSlip <- NoAccount,
    slips <- SlipsNow,
    wallet <- WalletNow

(* Whatever order commits, cranks and closings come in, and whoever cranks *)
(* them, every change to a bettor's bets and tokens is a step of the       *)
(* ledger: one debit of the full cost, then one refund of all of it, one   *)
(* prize within the reservation, one stake back, or nothing, and beside    *)
(* these only a crank's one wage and a bettor's own dealings with houses.  *)
ImplementsLedger == Ledger!LedgerSpec
=============================================================================
