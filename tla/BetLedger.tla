----------------------------- MODULE BetLedger -----------------------------
(***************************************************************************)
(* What a bettor is promised, without houses, books, prints, escrow or     *)
(* clocks: a slip costs its stake and fees once, and ends in exactly one   *)
(* of four ways, each with the one payment that belongs to it.             *)
(***************************************************************************)
EXTENDS Integers

CONSTANTS
    Bettors, Nonces,
    Terms,              \* what a slip may be taken at: stake, cost, most
    Wages,              \* what a bettor may earn by cranking a slip
    Dealings,           \* what bettors may pay or be paid apart from slips
    NoSlip

VARIABLES
    slips,              \* the slip under each bettor and nonce
    wallet              \* what each bettor holds

ledgerVars == <<slips, wallet>>

Ended == {"Won", "Lost", "Refunded", "Voided"}

Is(bn, state) == slips[bn] # NoSlip /\ slips[bn].state = state
Becomes(bn, state) == slips' = [slips EXCEPT ![bn].state = state]
Paid(bettor, amount) == wallet' = [wallet EXCEPT ![bettor] = @ + amount]

(* A cranked step pays its bettor, and the cranker a wage; the wage is 0   *)
(* for a cranker who does not bet.                                         *)
Cranked(bettor, amount) ==
    \E cranker \in Bettors, wage \in Wages :
        wallet' = [b \in Bettors |-> wallet[b] + (IF b = bettor THEN amount ELSE 0)
                                              + (IF b = cranker THEN wage ELSE 0)]

-----------------------------------------------------------------------------
LedgerInit ==
    /\ slips = [bn \in Bettors \X Nonces |-> NoSlip]
    /\ wallet \in [Bettors -> Nat]

(* The wallet is debited the whole cost, once. *)
Place(bettor, nonce, terms) ==
    /\ slips[<<bettor, nonce>>] = NoSlip
    /\ wallet[bettor] >= terms.cost
    /\ slips' = [slips EXCEPT ![<<bettor, nonce>>] =
            [terms |-> terms, prize |-> 0, state |-> "Pending"]]
    /\ Paid(bettor, -terms.cost)

(* The prize is fixed here and never passes what the terms allow. *)
Fill(bettor, nonce) ==
    /\ Is(<<bettor, nonce>>, "Pending")
    /\ \E prize \in 0..slips[<<bettor, nonce>>].terms.most :
            slips' = [slips EXCEPT ![<<bettor, nonce>>] =
                [@ EXCEPT !.prize = prize, !.state = "Active"]]
    /\ Cranked(bettor, 0)

(* A slip that was never filled gives back everything it cost. *)
Refund(bettor, nonce) ==
    /\ Is(<<bettor, nonce>>, "Pending")
    /\ Becomes(<<bettor, nonce>>, "Refunded")
    /\ Paid(bettor, slips[<<bettor, nonce>>].terms.cost)

Win(bettor, nonce) ==
    /\ Is(<<bettor, nonce>>, "Active")
    /\ Becomes(<<bettor, nonce>>, "Won")
    /\ Cranked(bettor, slips[<<bettor, nonce>>].prize)

Lose(bettor, nonce) ==
    /\ Is(<<bettor, nonce>>, "Active")
    /\ Becomes(<<bettor, nonce>>, "Lost")
    /\ Cranked(bettor, 0)

(* A void gives the stake back, not the fees. *)
Void(bettor, nonce) ==
    /\ Is(<<bettor, nonce>>, "Active")
    /\ Becomes(<<bettor, nonce>>, "Voided")
    /\ Cranked(bettor, slips[<<bettor, nonce>>].terms.stake)

(* Only a slip that ended leaves the ledger. *)
Close(bettor, nonce) ==
    /\ \E state \in Ended : Is(<<bettor, nonce>>, state)
    /\ slips' = [slips EXCEPT ![<<bettor, nonce>>] = NoSlip]
    /\ UNCHANGED wallet

(* A bettor may keep a house too, and pay into it or be paid out of it.     *)
Deal(dealing) ==
    /\ dealing.bettor \in Bettors
    /\ wallet[dealing.bettor] + dealing.amount >= 0
    /\ Paid(dealing.bettor, dealing.amount)
    /\ UNCHANGED slips

LedgerNext ==
    \/ \E bettor \in Bettors, nonce \in Nonces :
        \/ \E terms \in Terms : Place(bettor, nonce, terms)
        \/ Fill(bettor, nonce)
        \/ Refund(bettor, nonce)
        \/ Win(bettor, nonce)
        \/ Lose(bettor, nonce)
        \/ Void(bettor, nonce)
        \/ Close(bettor, nonce)
    \/ \E dealing \in Dealings : Deal(dealing)

LedgerSpec == LedgerInit /\ [][LedgerNext]_ledgerVars
=============================================================================
