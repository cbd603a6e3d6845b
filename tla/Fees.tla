-------------------------------- MODULE Fees --------------------------------
(***************************************************************************)
(* Fee-inclusive staking (fees.ts): from what a bettor wants to spend, the *)
(* bet API and the bet slip compute the stake to commit.  stakeForCharge   *)
(* estimates it by one division, then steps up and down, because the two   *)
(* percentage fees are floored separately.  Amounts are whole units, the   *)
(* quotients of the code's numbers below 2^53 exact.                       *)
(***************************************************************************)
EXTENDS BthMath

CONSTANTS
    Charges,            \* amounts a bettor may want to spend
    FeeModels           \* fee models the app may be configured with

VARIABLES
    charge, m,          \* the arguments: charge and fee model
    s,                  \* the stake so far
    pc

feesVars == <<charge, m, s, pc>>

FeeModel == [frontendFeeBps : Nat, protocolFeeBps : Nat, keeperUusdc : Nat]

ASSUME FeesAssumption == Charges \subseteq Nat /\ FeeModels \subseteq FeeModel

(* keeperReward is per crank. *)
feeModel_OneCrank(frontendFeeBps, protocolFeeBps, keeperReward) ==
    [frontendFeeBps |-> frontendFeeBps, protocolFeeBps |-> protocolFeeBps,
     keeperUusdc |-> keeperReward]
feeModel(frontendFeeBps, protocolFeeBps, keeperReward) ==
    [frontendFeeBps |-> frontendFeeBps, protocolFeeBps |-> protocolFeeBps,
     keeperUusdc |-> keeperReward * KEEPER_CRANKS]

feesOnStake(stake) ==
    FeeOf(stake, m.frontendFeeBps) + FeeOf(stake, m.protocolFeeBps) + m.keeperUusdc

(* What the wallet is debited for a stake. *)
chargeForStake(stake) == stake + feesOnStake(stake)

Estimated_NoFees == charge - m.keeperUusdc
Estimated ==
    ((charge - m.keeperUusdc) * BPS) \div (BPS + m.frontendFeeBps + m.protocolFeeBps)

-----------------------------------------------------------------------------
FeesInit ==
    /\ charge \in Charges
    /\ m \in FeeModels
    /\ s = 0
    /\ pc = "estimate"

Estimate ==
    /\ pc = "estimate"
    /\ IF Estimated <= 0
       THEN s' = 0 /\ pc' = "early"
       ELSE s' = Estimated /\ pc' = "raise"
    /\ UNCHANGED <<charge, m>>

Raise_Once ==
    /\ pc = "raise"
    /\ s' = IF chargeForStake(s + 1) <= charge THEN s + 1 ELSE s
    /\ pc' = "lower"
    /\ UNCHANGED <<charge, m>>
Raise ==
    /\ pc = "raise"
    /\ IF chargeForStake(s + 1) <= charge
       THEN s' = s + 1 /\ UNCHANGED pc
       ELSE pc' = "lower" /\ UNCHANGED s
    /\ UNCHANGED <<charge, m>>

Lower ==
    /\ pc = "lower"
    /\ IF s > 0 /\ chargeForStake(s) > charge
       THEN s' = s - 1 /\ UNCHANGED pc
       ELSE pc' = "done" /\ UNCHANGED s
    /\ UNCHANGED <<charge, m>>

FeesNext == Estimate \/ Raise \/ Lower

FeesSpec == FeesInit /\ [][FeesNext]_feesVars

-----------------------------------------------------------------------------
(* "Largest on-chain stake whose full debit is <= the amount": past the    *)
(* early return, the stake's debit fits in the charge (or nothing is       *)
(* staked) and that of every larger one does not, whatever the two fees    *)
(* round to.                                                               *)
StakeIsLargest ==
    pc = "done" =>
        /\ s = 0 \/ chargeForStake(s) <= charge
        /\ \A stake \in Charges : stake > s => chargeForStake(stake) > charge

(* "Never more than a uUSDC or two off the estimate": the loops take a     *)
(* step or two, whatever the amounts, and the early return of 0 misses at  *)
(* most a stake of one unit.                                               *)
EstimateIsClose ==
    /\ pc \in {"raise", "lower", "done"} => s \in Estimated..(Estimated + 2)
    /\ pc = "early" => \A stake \in Charges : stake > 1 => chargeForStake(stake) > charge
=============================================================================
