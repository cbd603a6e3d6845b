------------------------------- MODULE BthMath -------------------------------
(***************************************************************************)
(* Fixed-point arithmetic of the BeTheHouse program (math.rs): odds are    *)
(* scaled by 1000, spreads, skews and fees are basis points, and every     *)
(* division rounds down.  The operators work on unbounded integers; where  *)
(* the code narrows a result to u64 and fails, the caller states the bound *)
(* as a guard.                                                             *)
(***************************************************************************)
EXTENDS Integers, FiniteSetsExt

ODDS_SCALE == 1000
BPS == 10000
KEEPER_CRANKS == 2

(* 0 = participant 1, 1 = draw, 2 = participant 2. *)
Outcomes == 0..2

SatSub(a, b) == IF a > b THEN a - b ELSE 0
Lesser(a, b) == IF a <= b THEN a ELSE b
Heaviest(liability) == Max({liability[o] : o \in Outcomes})
Lightest(liability) == Min({liability[o] : o \in Outcomes})

(* What a stake pays at the given odds: both the worst case reserved at    *)
(* commit (at the house's cap) and the payout fixed at fill.               *)
AtOdds(stake, odds) == (stake * odds) \div ODDS_SCALE

reserved(stake, odds_cap) == AtOdds(stake, odds_cap)
payout(stake, fill_odds) == AtOdds(stake, fill_odds)

(* Collateral a book needs beyond the stakes it has collected. *)
locked(liability, stakes_collected) ==
    SatSub(Heaviest(liability), stakes_collected)

(* Widening of the quote on the heavy side of a book. *)
skew_bps(skew_coeff_bps, liability, outcome, max_risk_per_fixture) ==
    IF max_risk_per_fixture = 0
    THEN 0
    ELSE (skew_coeff_bps * SatSub(liability[outcome], Lightest(liability)))
            \div max_risk_per_fixture

(* A fair price less spread and skew, the discount capped at 100%. *)
eff_odds(fair_odds, spread_bps, skew) ==
    (fair_odds * (BPS - Lesser(spread_bps + skew, BPS))) \div BPS

(* The worse of the two proven prices, quoted by the house, clamped at the cap. *)
fill_odds_BetterOfTwo(commit_fair, target_fair, spread_bps, skew, odds_cap) ==
    Lesser(eff_odds(Max({commit_fair, target_fair}), spread_bps, skew), odds_cap)
fill_odds_Unclamped(commit_fair, target_fair, spread_bps, skew, odds_cap) ==
    eff_odds(Lesser(commit_fair, target_fair), spread_bps, skew)
fill_odds(commit_fair, target_fair, spread_bps, skew, odds_cap) ==
    Lesser(eff_odds(Lesser(commit_fair, target_fair), spread_bps, skew), odds_cap)

(* The share of a stake charged as a fee. *)
FeeOf(stake, fee_bps) == (stake * fee_bps) \div BPS
=============================================================================
