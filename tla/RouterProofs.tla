---------------------------- MODULE RouterProofs ----------------------------
(***************************************************************************)
(* Theorems about the fee inversion and the bet router.  The stake         *)
(* computed from a charge is the largest that fits, for every charge and   *)
(* fee model: the proof never looks at the estimate, the loops make up for *)
(* any starting point.  A request of the router, whoever moves meanwhile,  *)
(* respects the policies it could read and the amount it was given, and    *)
(* passes no untouched house over for worse odds.  In an idle market the   *)
(* maximum it names can be taken.                                          *)
(***************************************************************************)
EXTENDS Router, BethehouseProofs

(* Division by BPS never falls as its argument grows. *)
LEMMA DivMonotone ==
    ASSUME NEW a \in Nat, NEW b \in Nat, a <= b
    PROVE  a \div BPS <= b \div BPS
  BY DEF BPS

(* A fee never falls as the stake grows. *)
LEMMA FeeMonotone ==
    ASSUME NEW a \in Nat, NEW b \in Nat, NEW bps \in Nat, a <= b
    PROVE  /\ FeeOf(a, bps) \in Nat /\ FeeOf(b, bps) \in Nat
           /\ FeeOf(a, bps) <= FeeOf(b, bps)
<1>1. a * bps \in Nat /\ b * bps \in Nat
  BY TimesFact
<1>2. bps * a <= bps * b
  BY TimesMonotone
<1>3. a * bps <= b * bps
  BY <1>1, <1>2
<1> QED
  BY <1>1, <1>3, DivMonotone, DivFact DEF FeeOf, BPS

(* Neither does the debit. *)
LEMMA ChargeMonotone ==
    ASSUME m \in FeeModel, NEW a \in Nat, NEW b \in Nat, a <= b
    PROVE  /\ chargeForStake(a) \in Nat /\ chargeForStake(b) \in Nat
           /\ chargeForStake(a) <= chargeForStake(b)
<1> DEFINE f == m.frontendFeeBps
           p == m.protocolFeeBps
<1>1. f \in Nat /\ p \in Nat /\ m.keeperUusdc \in Nat
  BY DEF FeeModel
<1>2. FeeOf(a, f) \in Nat /\ FeeOf(b, f) \in Nat /\ FeeOf(a, f) <= FeeOf(b, f)
  BY <1>1, FeeMonotone
<1>3. FeeOf(a, p) \in Nat /\ FeeOf(b, p) \in Nat /\ FeeOf(a, p) <= FeeOf(b, p)
  BY <1>1, FeeMonotone
<1> HIDE DEF f, p
<1>4. chargeForStake(a) = a + (FeeOf(a, f) + FeeOf(a, p) + m.keeperUusdc)
  BY DEF chargeForStake, feesOnStake, f, p
<1>5. chargeForStake(b) = b + (FeeOf(b, f) + FeeOf(b, p) + m.keeperUusdc)
  BY DEF chargeForStake, feesOnStake, f, p
<1> QED
  BY <1>1, <1>2, <1>3, <1>4, <1>5

-----------------------------------------------------------------------------
(* The raising loop ends at a stake whose successor does not fit, and      *)
(* lowering only steps down from a stake that does not fit itself.         *)
StakeInv ==
    /\ charge \in Nat
    /\ m \in FeeModel
    /\ s \in Nat
    /\ pc \in {"estimate", "early", "raise", "lower", "done"}
    /\ pc \in {"lower", "done"} => charge < chargeForStake(s + 1)
    /\ pc = "done" => s = 0 \/ chargeForStake(s) <= charge

(* The estimate is an integer, positive when it is used. *)
LEMMA EstimatedType ==
    ASSUME charge \in Nat, m \in FeeModel
    PROVE  Estimated \in Int
<1>1. /\ m.frontendFeeBps \in Nat /\ m.protocolFeeBps \in Nat
      /\ m.keeperUusdc \in Nat
  BY DEF FeeModel
<1>2. BPS + m.frontendFeeBps + m.protocolFeeBps \in Nat \ {0}
  BY <1>1 DEF BPS
<1>3. (charge - m.keeperUusdc) * BPS \in Int
  BY <1>1 DEF BPS
<1>4. \A x \in Int, d \in Nat \ {0} : x \div d \in Int
  OBVIOUS
<1> QED
  BY <1>2, <1>3, <1>4 DEF Estimated

LEMMA InitStakeInv == FeesInit => StakeInv
  BY FeesAssumption DEF FeesInit, StakeInv

LEMMA StepStakeInv == StakeInv /\ [FeesNext]_feesVars => StakeInv'
<1> SUFFICES ASSUME StakeInv, [FeesNext]_feesVars
             PROVE  StakeInv'
  OBVIOUS
<1> USE DEF StakeInv
<1>1. CASE Estimate
  BY <1>1, EstimatedType DEF Estimate
<1>2. CASE Raise
  <2>1. chargeForStake(s + 1) \in Nat
    BY ChargeMonotone
  <2>2. CASE chargeForStake(s + 1) <= charge
    BY <1>2, <2>2 DEF Raise
  <2>3. CASE ~(chargeForStake(s + 1) <= charge)
    <3>1. s' = s /\ m' = m /\ charge' = charge /\ pc' = "lower"
      BY <1>2, <2>3 DEF Raise
    <3>2. chargeForStake(s + 1)' = chargeForStake(s + 1)
      BY <3>1 DEF chargeForStake, feesOnStake
    <3> QED
      BY <2>1, <2>3, <3>1, <3>2
  <2> QED
    BY <2>2, <2>3
<1>3. CASE Lower
  <2>1. chargeForStake(s) \in Nat
    BY ChargeMonotone
  <2>2. CASE s > 0 /\ chargeForStake(s) > charge
    <3>1. s' = s - 1 /\ m' = m /\ charge' = charge /\ pc' = "lower"
      BY <1>3, <2>2 DEF Lower
    <3>2. s - 1 \in Nat /\ s' + 1 = s
      BY <2>2, <3>1
    <3>3. chargeForStake(s + 1)' = chargeForStake(s)
      BY <3>1, <3>2 DEF chargeForStake, feesOnStake
    <3> QED
      BY <2>1, <2>2, <3>1, <3>2, <3>3
  <2>3. CASE ~(s > 0 /\ chargeForStake(s) > charge)
    <3>1. s' = s /\ m' = m /\ charge' = charge /\ pc' = "done"
      BY <1>3, <2>3 DEF Lower
    <3>2. chargeForStake(s + 1)' = chargeForStake(s + 1)
      BY <3>1 DEF chargeForStake, feesOnStake
    <3>3. chargeForStake(s)' = chargeForStake(s)
      BY <3>1 DEF chargeForStake, feesOnStake
    <3>4. charge < chargeForStake(s + 1)
      BY <1>3 DEF Lower
    <3> QED
      BY <2>1, <2>3, <3>1, <3>2, <3>3, <3>4
  <2> QED
    BY <2>2, <2>3
<1>4. CASE UNCHANGED feesVars
  <2>1. s' = s /\ m' = m /\ charge' = charge /\ pc' = pc
    BY <1>4 DEF feesVars
  <2>2. /\ chargeForStake(s + 1)' = chargeForStake(s + 1)
        /\ chargeForStake(s)' = chargeForStake(s)
    BY <2>1 DEF chargeForStake, feesOnStake
  <2> QED
    BY <2>1, <2>2
<1> QED
  BY <1>1, <1>2, <1>3, <1>4 DEF FeesNext

LEMMA StakeInvLargest == StakeInv => StakeIsLargest
<1> SUFFICES ASSUME StakeInv, pc = "done"
             PROVE  /\ s = 0 \/ chargeForStake(s) <= charge
                    /\ \A stake \in Charges : stake > s => chargeForStake(stake) > charge
  BY DEF StakeIsLargest
<1>1. s = 0 \/ chargeForStake(s) <= charge
  BY DEF StakeInv
<1>2. ASSUME NEW stake \in Charges, stake > s
      PROVE  chargeForStake(stake) > charge
  <2>1. stake \in Nat /\ s + 1 \in Nat /\ s + 1 <= stake
    BY <1>2, FeesAssumption DEF StakeInv
  <2>2. /\ chargeForStake(s + 1) \in Nat /\ chargeForStake(stake) \in Nat
        /\ chargeForStake(s + 1) <= chargeForStake(stake)
    BY <2>1, ChargeMonotone DEF StakeInv
  <2> QED
    BY <2>2 DEF StakeInv
<1> QED
  BY <1>1, <1>2

(* stakeForCharge, past its early return, gives the largest stake whose    *)
(* full debit fits in the charge, for all charges and fee models.          *)
THEOREM StakeAlwaysLargest == FeesSpec => []StakeIsLargest
<1>1. FeesInit => StakeInv
  BY InitStakeInv
<1>2. StakeInv /\ [FeesNext]_feesVars => StakeInv'
  BY StepStakeInv
<1>3. StakeInv => StakeIsLargest
  BY StakeInvLargest
<1> QED
  BY <1>1, <1>2, <1>3, PTL DEF FeesSpec

-----------------------------------------------------------------------------
(* How good the estimate is *)

LEMMA DivBounds ==
    ASSUME NEW a \in Int, NEW d \in Nat \ {0}
    PROVE  a \div d \in Int /\ (a \div d) * d <= a /\ a < (a \div d) * d + d
  OBVIOUS

LEMMA FeeBounds ==
    ASSUME NEW a \in Nat, NEW bps \in Nat
    PROVE  /\ FeeOf(a, bps) \in Nat
           /\ FeeOf(a, bps) * BPS <= a * bps
           /\ a * bps <= FeeOf(a, bps) * BPS + (BPS - 1)
<1> DEFINE x == a * bps
<1>1. x \in Nat
  BY TimesFact
<1> HIDE DEF x
<1>2. x \div 10000 \in Nat /\ (x \div 10000) * 10000 <= x
      /\ x <= (x \div 10000) * 10000 + 9999
  BY <1>1
<1> QED
  BY <1>2 DEF FeeOf, BPS, x

(* The denominator of the estimate, and what is left to stake and to pay   *)
(* percentages of.                                                         *)
Denominator == BPS + m.frontendFeeBps + m.protocolFeeBps
Left == charge - m.keeperUusdc

LEMMA EstimateBounds ==
    ASSUME charge \in Nat, m \in FeeModel
    PROVE  /\ Denominator \in Nat /\ Denominator >= BPS
           /\ Left \in Int /\ Estimated \in Int
           /\ Estimated * Denominator <= Left * BPS
           /\ Left * BPS < Estimated * Denominator + Denominator
<1> DEFINE D == Denominator
           a == Left * BPS
<1>1. D \in Nat \ {0} /\ D >= BPS /\ Left \in Int /\ a \in Int
  BY DEF FeeModel, BPS, Denominator, Left
<1>2. Estimated = a \div D
  BY DEF Estimated, Denominator, Left
<1> HIDE DEF D, a
<1>3. a \div D \in Int /\ (a \div D) * D <= a /\ a < (a \div D) * D + D
  BY <1>1, DivBounds
<1> QED
  BY <1>1, <1>2, <1>3 DEF D, a

(* A debit, without the cranks, is the stake times Denominator / BPS, less *)
(* than two units short.                                                   *)
LEMMA ChargeBounds ==
    ASSUME m \in FeeModel, NEW a \in Nat
    PROVE  \E paid \in Nat :
                /\ chargeForStake(a) = paid + m.keeperUusdc
                /\ paid * BPS <= a * Denominator
                /\ a * Denominator <= paid * BPS + 2 * (BPS - 1)
<1> DEFINE f == m.frontendFeeBps
           p == m.protocolFeeBps
           F == FeeOf(a, f)
           P == FeeOf(a, p)
<1>1. f \in Nat /\ p \in Nat /\ m.keeperUusdc \in Nat
  BY DEF FeeModel
<1>2. F \in Nat /\ F * BPS <= a * f /\ a * f <= F * BPS + (BPS - 1)
  BY <1>1, FeeBounds
<1>3. P \in Nat /\ P * BPS <= a * p /\ a * p <= P * BPS + (BPS - 1)
  BY <1>1, FeeBounds
<1>4. chargeForStake(a) = (a + F + P) + m.keeperUusdc
  <2>1. chargeForStake(a) = a + (F + P + m.keeperUusdc)
    BY DEF chargeForStake, feesOnStake
  <2> HIDE DEF F, P
  <2> QED
    BY <1>1, <1>2, <1>3, <2>1
<1>5. Denominator = BPS + f + p
  BY DEF Denominator
<1> HIDE DEF f, p, F, P
<1>6. a * (10000 + f + p) = a * 10000 + a * f + a * p
  BY <1>1
<1>7. (a + F + P) * 10000 = a * 10000 + F * 10000 + P * 10000
  BY <1>2, <1>3
<1>8. a * f \in Nat /\ a * p \in Nat
  BY <1>1, TimesFact
<1> QED
  BY <1>2, <1>3, <1>4, <1>5, <1>6, <1>7, <1>8 DEF BPS

(* The estimate itself fits; three units above it does not. *)
LEMMA EstimateFits ==
    ASSUME charge \in Nat, m \in FeeModel, Estimated >= 0
    PROVE  chargeForStake(Estimated) <= charge
<1> DEFINE e == Estimated
<1>1. e \in Nat
  BY EstimateBounds
<1>2. PICK paid \in Nat :
        /\ chargeForStake(e) = paid + m.keeperUusdc
        /\ paid * BPS <= e * Denominator
  BY <1>1, ChargeBounds
<1>3. paid * BPS <= Left * BPS /\ Left \in Int
  <2>1. /\ e * Denominator <= Left * BPS /\ Left \in Int
        /\ Denominator \in Nat
    BY EstimateBounds
  <2>2. e * Denominator \in Nat
    BY <1>1, <2>1, TimesFact
  <2> HIDE DEF e
  <2> QED
    BY <1>2, <2>1, <2>2 DEF BPS
<1>4. paid <= Left
  BY <1>3 DEF BPS
<1>5. m.keeperUusdc \in Nat
  BY DEF FeeModel
<1> QED
  BY <1>2, <1>4, <1>5 DEF Left

LEMMA ThreeAboveIsTooMuch ==
    ASSUME charge \in Nat, m \in FeeModel, Estimated >= 0,
           NEW a \in Nat, a >= Estimated + 3
    PROVE  chargeForStake(a) > charge
<1> DEFINE e == Estimated
           D == Denominator
<1>1. PICK paid \in Nat :
        /\ chargeForStake(a) = paid + m.keeperUusdc
        /\ a * D <= paid * BPS + 2 * (BPS - 1)
  BY ChargeBounds
<1>2. /\ D \in Nat /\ D >= BPS /\ Left \in Int /\ e \in Nat
      /\ Left * BPS < e * D + D
  BY EstimateBounds
<1>3. a >= e + 3
  OBVIOUS
<1> HIDE DEF e, D
<1>4. D * (e + 3) <= D * a
  BY <1>2, <1>3, TimesMonotone
<1>5. D * (e + 3) = e * D + 3 * D /\ D * a = a * D
  BY <1>2
<1>6. e * D \in Nat /\ a * D \in Nat
  BY <1>2, TimesFact
<1>7. Left * BPS < paid * BPS
  BY <1>1, <1>2, <1>4, <1>5, <1>6 DEF BPS
<1>8. Left < paid
  BY <1>2, <1>7 DEF BPS
<1>9. m.keeperUusdc \in Nat
  BY DEF FeeModel
<1> QED
  BY <1>1, <1>8, <1>9 DEF Left

(* Without an estimate even two units are too much. *)
LEMMA TwoIsTooMuch ==
    ASSUME charge \in Nat, m \in FeeModel, Estimated <= 0, NEW a \in Nat, a > 1
    PROVE  chargeForStake(a) > charge
<1> DEFINE f == m.frontendFeeBps
           p == m.protocolFeeBps
           F == FeeOf(2, f)
           P == FeeOf(2, p)
<1>1. f \in Nat /\ p \in Nat /\ m.keeperUusdc \in Nat
  BY DEF FeeModel
<1>0. \A bps \in Nat : /\ FeeOf(2, bps) \in Nat
                       /\ 2 * bps <= FeeOf(2, bps) * 10000 + 9999
  <2>1. \A bps \in Nat : /\ FeeOf(2, bps) \in Nat
                         /\ 2 * bps <= FeeOf(2, bps) * BPS + (BPS - 1)
    BY FeeBounds
  <2> QED
    BY <2>1 DEF BPS
<1>2. F \in Nat /\ 2 * f <= F * 10000 + 9999
  BY <1>0, <1>1
<1>3. P \in Nat /\ 2 * p <= P * 10000 + 9999
  BY <1>0, <1>1
<1>4. chargeForStake(2) = (2 + F + P) + m.keeperUusdc
  <2>1. chargeForStake(2) = 2 + (F + P + m.keeperUusdc)
    BY DEF chargeForStake, feesOnStake
  <2> HIDE DEF F, P
  <2> QED
    BY <1>1, <1>2, <1>3, <2>1
<1>5. Left * BPS < Denominator /\ Left \in Int
  <2> DEFINE e == Estimated
             D == Denominator
  <2>1. /\ D \in Nat /\ Left \in Int /\ e \in Int /\ e <= 0
        /\ Left * BPS < e * D + D
    BY EstimateBounds
  <2> HIDE DEF e, D
  <2>2. e * D <= 0
    <3>1. (0 - e) * D \in Nat
      BY <2>1, TimesFact
    <3>2. (0 - e) * D = 0 - (e * D) /\ e * D \in Int
      BY <2>1
    <3> QED
      BY <3>1, <3>2
  <2>3. e * D \in Int
    BY <2>1
  <2> QED
    BY <2>1, <2>2, <2>3 DEF BPS, D
<1>6. Denominator = 10000 + f + p
  BY DEF Denominator, BPS
<1> HIDE DEF f, p, F, P
<1>7. f <= F * 10000 + 5000 /\ p <= P * 10000 + 5000
  BY <1>1, <1>2, <1>3
<1>8. Left < 2 + F + P
  BY <1>1, <1>2, <1>3, <1>5, <1>6, <1>7 DEF BPS
<1>9. chargeForStake(2) > charge
  BY <1>1, <1>2, <1>3, <1>4, <1>8 DEF Left
<1>10. chargeForStake(2) \in Nat /\ chargeForStake(a) \in Nat
       /\ chargeForStake(2) <= chargeForStake(a)
  BY ChargeMonotone
<1> QED
  BY <1>9, <1>10

-----------------------------------------------------------------------------
(* Only a positive estimate is stepped from. *)
CloseInv ==
    /\ StakeInv
    /\ EstimateIsClose
    /\ pc \in {"raise", "lower", "done"} => Estimated > 0

LEMMA StepCloseInv == CloseInv /\ [FeesNext]_feesVars => CloseInv'
<1> SUFFICES ASSUME CloseInv, [FeesNext]_feesVars
             PROVE  CloseInv'
  OBVIOUS
<1> DEFINE e == Estimated
<1>1. StakeInv'
  BY StepStakeInv DEF CloseInv
<1>2. charge \in Nat /\ m \in FeeModel /\ s \in Nat /\ e \in Int
  BY EstimatedType DEF CloseInv, StakeInv
<1>3. UNCHANGED <<charge, m>>
  BY DEF FeesNext, Estimate, Raise, Lower, feesVars
<1>4. e' = e
  BY <1>3 DEF Estimated
<1>5. CASE Estimate
  <2>1. CASE e <= 0
    <3>1. pc' = "early"
      BY <1>5, <2>1 DEF Estimate
    <3>2. \A stake \in Charges : stake > 1 => chargeForStake(stake) > charge
      BY <1>2, <2>1, TwoIsTooMuch, FeesAssumption
    <3>3. \A stake : chargeForStake(stake)' = stake + feesOnStake(stake)
      BY <1>3 DEF chargeForStake, feesOnStake
    <3>4. \A stake : chargeForStake(stake) = stake + feesOnStake(stake)
      BY DEF chargeForStake
    <3> QED
      BY <1>1, <1>3, <3>1, <3>2 DEF CloseInv, EstimateIsClose, chargeForStake, feesOnStake
  <2>2. CASE ~(e <= 0)
    <3>1. pc' = "raise" /\ s' = e /\ e > 0
      BY <1>2, <1>5, <2>2 DEF Estimate
    <3> HIDE DEF e
    <3>2. s' \in e'..(e' + 2) /\ e' > 0
      BY <1>2, <1>4, <3>1
    <3> QED
      BY <1>1, <3>1, <3>2 DEF CloseInv, EstimateIsClose, e
  <2> QED
    BY <2>1, <2>2
<1>6. CASE Raise
  <2>1. s \in e..(e + 2) /\ e > 0
    BY <1>6 DEF Raise, CloseInv, EstimateIsClose
  <2>2. s' \in e..(e + 2)
    <3>1. CASE chargeForStake(s + 1) <= charge
      <4>1. s' = s + 1 /\ s + 1 \in Nat /\ chargeForStake(s + 1) \in Nat
        BY <1>2, <1>6, <3>1, ChargeMonotone DEF Raise
      <4>2. ~(s + 1 >= e + 3)
        BY <1>2, <2>1, <3>1, <4>1, ThreeAboveIsTooMuch
      <4> HIDE DEF e
      <4> QED
        BY <1>2, <2>1, <4>1, <4>2
    <3>2. CASE ~(chargeForStake(s + 1) <= charge)
      BY <1>6, <2>1, <3>2 DEF Raise
    <3> QED
      BY <3>1, <3>2
  <2>3. pc' \in {"raise", "lower"}
    BY <1>6 DEF Raise
  <2> HIDE DEF e
  <2>4. s' \in e'..(e' + 2) /\ e' > 0
    BY <1>4, <2>1, <2>2
  <2> QED
    BY <1>1, <2>3, <2>4 DEF CloseInv, EstimateIsClose, e
<1>7. CASE Lower
  <2>1. s \in e..(e + 2) /\ e > 0
    BY <1>7 DEF Lower, CloseInv, EstimateIsClose
  <2>2. s' \in e..(e + 2)
    <3>1. CASE s > 0 /\ chargeForStake(s) > charge
      <4>1. s' = s - 1
        BY <1>7, <3>1 DEF Lower
      <4>2. chargeForStake(e) <= charge /\ chargeForStake(s) \in Nat
        BY <1>2, <2>1, EstimateFits, ChargeMonotone
      <4>3. s # e
        BY <1>2, <3>1, <4>2
      <4> HIDE DEF e
      <4> QED
        BY <1>2, <2>1, <4>1, <4>3
    <3>2. CASE ~(s > 0 /\ chargeForStake(s) > charge)
      BY <1>7, <2>1, <3>2 DEF Lower
    <3> QED
      BY <3>1, <3>2
  <2>3. pc' \in {"lower", "done"}
    BY <1>7 DEF Lower
  <2> HIDE DEF e
  <2>4. s' \in e'..(e' + 2) /\ e' > 0
    BY <1>4, <2>1, <2>2
  <2> QED
    BY <1>1, <2>3, <2>4 DEF CloseInv, EstimateIsClose, e
<1>8. CASE UNCHANGED feesVars
  BY <1>1, <1>8 DEF feesVars, CloseInv, EstimateIsClose, Estimated, chargeForStake,
                    feesOnStake
<1> QED
  BY <1>5, <1>6, <1>7, <1>8 DEF FeesNext

(* "Never more than a uUSDC or two off the estimate": for all charges and  *)
(* fee models stakeForCharge steps up at most twice, and never below where *)
(* it started; with an estimate of 0 nothing above one unit would fit.     *)
THEOREM EstimateAlwaysClose == FeesSpec => []EstimateIsClose
<1>1. FeesInit => CloseInv
  BY InitStakeInv DEF FeesInit, CloseInv, EstimateIsClose
<1>2. CloseInv /\ [FeesNext]_feesVars => CloseInv'
  BY StepCloseInv
<1>3. CloseInv => EstimateIsClose
  BY DEF CloseInv
<1> QED
  BY <1>1, <1>2, <1>3, PTL DEF FeesSpec

-----------------------------------------------------------------------------
(* The chain under a request *)

(* A frontend's account is never written again. *)
LEMMA FrontendsStay ==
    ASSUME TypeOK, Next, NEW fe \in Frontends, Exists(frontends[fe])
    PROVE  frontends'[fe] = frontends[fe]
<1>1. CASE UNCHANGED frontends
  BY <1>1
<1>2. CASE AdminNext
  <2>1. ASSUME NEW other \in Frontends, NEW fee_bps \in FrontendFees,
               RegisterFrontend(other, fee_bps)
        PROVE  frontends'[fe] = frontends[fe]
    BY <2>1 DEF RegisterFrontend, TypeOK
  <2> QED
    BY <1>1, <1>2, <2>1 DEF AdminNext, InitConfig, UpdateConfig
<1>3. CASE HouseNext
  BY <1>1, <1>3 DEF HouseNext, CreateHouse, UpdateHouseParams, SetPaused, SetHouseFilters,
                    CloseExposure, Deposit, Withdraw
<1>4. CASE BetNext
  <2>1. ASSUME NEW cranker_token \in RewardAccounts, NEW bettor \in Bettors, NEW nonce \in Nonces,
               \/ \E commit_print \in prints, target_print \in prints :
                    FillBet(cranker_token, bettor, nonce, commit_print, target_print)
               \/ \E ev \in scores : SettleBet(cranker_token, bettor, nonce, ev)
               \/ VoidBet(cranker_token, bettor, nonce)
        PROVE  UNCHANGED frontends
    BY <2>1 DEF FillBet, CanFill, SettleBet, VoidBet, ReleaseAndReward, ReleasePayments
  <2>2. ASSUME NEW bettor \in Bettors, NEW nonce \in Nonces,
               RefundCommit(bettor, nonce) \/ CloseBet(bettor, nonce)
        PROVE  UNCHANGED frontends
    BY <2>2 DEF RefundCommit, CanRefund, CloseBet
  <2>3. ASSUME NEW order \in Orders, CommitBet(order)
        PROVE  UNCHANGED frontends
    BY <2>3 DEF CommitBet, CanCommit, Reservation, FrontendFeeOf, ProtocolFeeOf,
                EscrowTotal, CommittedBook
  <2>4. ASSUME NEW cranker \in Crankers,
               \/ \E odds \in Feed : ProvePrint(cranker, odds)
               \/ \E p \in prints : ClosePrint(cranker, p)
        PROVE  UNCHANGED frontends
    BY <2>4 DEF ProvePrint, ClosePrint
  <2> QED
    BY <1>1, <1>4, <2>1, <2>2, <2>3, <2>4 DEF BetNext
<1>5. CASE WorldNext
  BY <1>1, <1>5 DEF WorldNext, Tick, PublishScore
<1> QED
  BY <1>2, <1>3, <1>4, <1>5 DEF Next

-----------------------------------------------------------------------------
(* The invariant of a request: what was read, and whom it still binds *)

(* A house is quoted only where its policy offers the match, unless        *)
(* somebody changed the house or its policy could not be read.             *)
Honours(q) ==
    /\ q.house \in Houses
    /\ q.house \in touched \/ offersFixture(filters[q.house], request.fixture_id, competition)

QuotesInv ==
    /\ pending = NotYet \/ \A p \in pending : p.house \in Houses
    /\ IF competition = NotYet THEN quotes = {} ELSE \A p \in pending : p.house \in Houses
    /\ \A q \in quotes : Honours(q)
    /\ untried \subseteq quotes
    /\ current = NoAccount \/ current \in quotes
    /\ HasTx => \E q \in quotes : q.house = answer.house

ListingInv ==
    /\ listed \subseteq FixtureEntry
    /\ fixturesCache = NoAccount \/ fixturesCache.data \subseteq FixtureEntry
    /\ fixture \in FixtureEntry \cup {NoAccount, NotYet}

Committing == phase \in {"fees", "routing"} \/ HasTx

(* The fee model is that of the config read and of a frontend that stays,  *)
(* and past the loops the stake fits the charge under it.                  *)
StakingInv ==
    /\ request \in Request
    /\ charge = request.spend
    /\ cfg \in ConfigParams \cup {NotYet}
    /\ phase = "reading" => s = 0
    /\ Committing =>
        /\ fixture \in FixtureEntry
        /\ cfg \in ConfigParams
        /\ frontend \in Frontends /\ Exists(frontends[frontend])
        /\ frontends[frontend] \in [fee_bps : Nat]
        /\ m = feeModel(frontends[frontend].fee_bps, cfg.protocol_fee_bps, cfg.keeper_reward)
        /\ StakeInv
        /\ pc = "early" => s = 0
    /\ phase = "routing" \/ HasTx => s # 0 /\ pc \in {"early", "done"}

RouterInv ==
    \/ phase = "committed"
    \/ VaultInv /\ QuotesInv /\ ListingInv /\ StakingInv

(* The request's own steps leave the chain alone. *)
LEMMA ChainStays ==
    ASSUME VaultInv, UNCHANGED vars
    PROVE  VaultInv'
  BY NextVaultInv

LEMMA InitRouterInv ==
    TypeOK /\ LocksInSync /\ VaultCoversLocks /\ RouterInit => RouterInv
<1> SUFFICES ASSUME TypeOK, LocksInSync, VaultCoversLocks, RouterInit
             PROVE  VaultInv /\ QuotesInv /\ ListingInv /\ StakingInv
  BY DEF RouterInv
<1>1. ~HasTx /\ phase = "reading"
  BY DEF RouterInit, HasTx
<1>2. QuotesInv
  BY <1>1 DEF RouterInit, QuotesInv
<1>3. ListingInv
  BY RouterAssumption DEF RouterInit, ListingInv
<1>4. StakingInv
  BY <1>1, RouterAssumption DEF RouterInit, StakingInv, Committing
<1> QED
  BY <1>2, <1>3, <1>4 DEF VaultInv

(* The listing read is one of the feed's. *)
LEMMA ListingKept ==
    ASSUME ListingInv, getFixtures, UNCHANGED listed
    PROVE  /\ fixturesCache' = NoAccount \/ fixturesCache'.data \subseteq FixtureEntry
           /\ ListedEntry \in FixtureEntry \cup {NoAccount}
<1>1. FixturesCache.data \subseteq FixtureEntry
  BY DEF ListingInv, FixturesCache, CacheFresh, Exists
<1>2. ListedEntry \in FixtureEntry \cup {NoAccount}
  BY <1>1 DEF ListedEntry, EntryOf
<1> QED
  BY <1>1, <1>2 DEF getFixtures

(* What the steps before the stake do not touch. *)
LEMMA ReadingStaking ==
    ASSUME StakingInv, phase = "reading", UNCHANGED <<phase, request, charge, s>>,
           cfg' \in ConfigParams \cup {NotYet}
    PROVE  StakingInv'
  BY DEF StakingInv, Committing, HasTx

LEMMA Responded ==
    ASSUME NEW kind, NEW house, NEW odds, NEW max, Respond(kind, house, odds, max)
    PROVE  phase' = "answered" /\ answer'.kind = kind /\ answer'.house = house
  BY DEF Respond

LEMMA Refused ==
    ASSUME NEW kind, Refuse(kind)
    PROVE  phase' = "answered" /\ answer'.kind = kind
  BY Responded DEF Refuse

(* A request that was refused is bound to nothing more. *)
LEMMA RefusedInv ==
    ASSUME VaultInv, QuotesInv, ListingInv, StakingInv,
           NEW kind, kind # "tx", answer'.kind = kind, phase' = "answered",
           UNCHANGED <<worldVars, fixturesCache, request, quoteVars, loopVars, feesVars>>
    PROVE  RouterInv'
<1>1. ~HasTx' /\ ~Committing' /\ phase' # "routing"
  BY DEF HasTx, Committing
<1>2. VaultInv'
  BY ChainStays DEF worldVars
<1>3. QuotesInv'
  BY <1>1 DEF QuotesInv, Honours, offersFixture, fixture_offered, Exists, worldVars, vars,
              quoteVars, loopVars
<1>4. ListingInv'
  BY DEF ListingInv, worldVars, quoteVars
<1>5. StakingInv'
  BY <1>1 DEF StakingInv, quoteVars, feesVars
<1> QED
  BY <1>2, <1>3, <1>4, <1>5 DEF RouterInv

LEMMA HonoursKept ==
    ASSUME NEW q, Honours(q), filters'[q.house] = filters[q.house] \/ q.house \in touched',
           touched \subseteq touched', UNCHANGED <<request, competition>>
    PROVE  Honours(q)'
  BY DEF Honours, offersFixture, fixture_offered, Exists

(* A step that quotes nothing new, and may add to what was touched. *)
LEMMA QuotesKept ==
    ASSUME QuotesInv, UNCHANGED <<filters, request, pending, competition, quotes>>,
           touched \subseteq touched', untried' \subseteq quotes,
           current' = NoAccount \/ current' \in quotes,
           HasTx' => \E q \in quotes : q.house = answer'.house
    PROVE  QuotesInv'
<1>1. \A q \in quotes : Honours(q)'
  BY HonoursKept DEF QuotesInv
<1> QED
  BY <1>1 DEF QuotesInv

-----------------------------------------------------------------------------
(* Reading the market *)

LEMMA ReadingInv ==
    ASSUME VaultInv, QuotesInv, ListingInv, StakingInv,
           ReadFixture \/ ReadConfig \/ ReadPrint \/ ReadHouses \/ ReadCompetition
    PROVE  RouterInv'
<1>1. /\ phase = "reading" /\ phase' = "reading" /\ UNCHANGED worldVars
      /\ UNCHANGED <<request, quotes, loopVars, answer, feesVars>>
  BY DEF ReadFixture, ReadConfig, ReadPrint, ReadHouses, ReadCompetition
<1>2. VaultInv' /\ ~HasTx'
  BY <1>1, ChainStays DEF worldVars, HasTx
<1>3. CASE ReadFixture \/ ReadCompetition
  <2>1. ListingInv'
    BY <1>1, <1>3, ListingKept DEF ReadFixture, ReadCompetition, ListingInv, worldVars
  <2>2. StakingInv'
    BY <1>1, <1>3, ReadingStaking DEF ReadFixture, ReadCompetition, StakingInv, feesVars
  <2>3. CASE ReadFixture
    <3>1. QuotesInv'
      BY <1>1, <1>2, <2>3, QuotesKept DEF ReadFixture, QuotesInv, worldVars, vars, loopVars
    <3> QED
      BY <1>2, <2>1, <2>2, <3>1 DEF RouterInv
  <2>4. CASE ReadCompetition
    <3>1. pending' = pending /\ quotes = {} /\ pending # NotYet
      BY <2>4 DEF ReadCompetition, QuotesInv
    <3>2. QuotesInv'
      BY <1>1, <1>2, <3>1 DEF QuotesInv, loopVars
    <3> QED
      BY <1>2, <2>1, <2>2, <3>2 DEF RouterInv
  <2> QED
    BY <1>3, <2>3, <2>4
<1>4. CASE ReadConfig \/ ReadPrint \/ ReadHouses
  <2>1. ListingInv'
    BY <1>1, <1>4 DEF ReadConfig, ReadPrint, ReadHouses, ListingInv, worldVars
  <2>2. cfg' \in ConfigParams \cup {NotYet}
    BY <1>4 DEF ReadConfig, ReadPrint, ReadHouses, StakingInv, VaultInv, TypeOK, Exists
  <2>3. StakingInv'
    BY <1>1, <2>2, ReadingStaking DEF feesVars
  <2>4. CASE ReadConfig \/ ReadPrint
    <3>1. QuotesInv'
      BY <1>1, <1>2, <2>4, QuotesKept
         DEF ReadConfig, ReadPrint, QuotesInv, worldVars, vars, loopVars
    <3> QED
      BY <1>2, <2>1, <2>3, <3>1 DEF RouterInv
  <2>5. CASE ReadHouses
    <3>1. competition' = competition /\ \A p \in pending' : p.house \in Houses
      BY <2>5 DEF ReadHouses
    <3>2. \A q \in quotes : Honours(q)'
      BY <1>1, <3>1, HonoursKept DEF QuotesInv, worldVars, vars
    <3>3. QuotesInv'
      BY <1>1, <1>2, <3>1, <3>2 DEF QuotesInv, loopVars
    <3> QED
      BY <1>2, <2>1, <2>3, <3>3 DEF RouterInv
  <2> QED
    BY <1>4, <2>4, <2>5
<1> QED
  BY <1>3, <1>4

LEMMA QuoteHouseInv ==
    ASSUME VaultInv, QuotesInv, ListingInv, StakingInv, QuoteHouse
    PROVE  RouterInv'
<1>1. /\ phase = "reading" /\ phase' = "reading" /\ competition # NotYet
      /\ UNCHANGED <<vars, listed, fixturesCache, request, fixture, cfg, competition,
                     loopVars, answer, feesVars>>
  BY DEF QuoteHouse
<1>2. VaultInv' /\ ~HasTx'
  BY <1>1, ChainStays DEF HasTx
<1>3. ListingInv'
  BY <1>1 DEF ListingInv
<1>4. StakingInv'
  BY <1>1, ReadingStaking DEF StakingInv, feesVars
<1>5. PICK p \in pending :
        \E rules \in {filters[p.house], NoAccount},
           book \in {BookOf(p.house, request.fixture_id), NewExposure} :
            /\ Misread(p.house, rules # filters[p.house]
                                \/ book # BookOf(p.house, request.fixture_id))
            /\ pending' = pending \ {p}
            /\ quotes' =
                IF offersFixture(rules, request.fixture_id, competition)
                THEN quotes \cup {[house |-> p.house, effOdds |->
                        [o \in Outcomes |-> EffOdds(p.params, book, print, o)]]}
                ELSE quotes
  BY DEF QuoteHouse
<1>6. PICK rules \in {filters[p.house], NoAccount},
           effOdds \in {[o \in Outcomes |-> EffOdds(p.params, book, print, o)] :
                          book \in {BookOf(p.house, request.fixture_id), NewExposure}} :
            /\ rules # filters[p.house] => Misread(p.house, TRUE)
            /\ touched \subseteq touched'
            /\ pending' = pending \ {p}
            /\ quotes' = IF offersFixture(rules, request.fixture_id, competition)
                         THEN quotes \cup {[house |-> p.house, effOdds |-> effOdds]}
                         ELSE quotes
  <2>1. PICK rules \in {filters[p.house], NoAccount},
             book \in {BookOf(p.house, request.fixture_id), NewExposure} :
            /\ Misread(p.house, rules # filters[p.house]
                                \/ book # BookOf(p.house, request.fixture_id))
            /\ pending' = pending \ {p}
            /\ quotes' =
                IF offersFixture(rules, request.fixture_id, competition)
                THEN quotes \cup {[house |-> p.house, effOdds |->
                        [o \in Outcomes |-> EffOdds(p.params, book, print, o)]]}
                ELSE quotes
    BY <1>5
  <2>2. /\ rules # filters[p.house] => Misread(p.house, TRUE)
        /\ touched \subseteq touched'
    BY <2>1 DEF Misread
  <2> QED
    BY <2>1, <2>2
<1>7. /\ rules # filters[p.house] => p.house \in touched'
      /\ touched \subseteq touched'
      /\ quotes \subseteq quotes'
      /\ \A q \in quotes' \ quotes :
            q.house = p.house /\ offersFixture(rules, request.fixture_id, competition)
  BY <1>6 DEF Misread
<1>8. \A q \in quotes : Honours(q)'
  BY <1>1, <1>7, HonoursKept DEF QuotesInv, vars
<1>9. \A r \in pending : r.house \in Houses
  BY <1>1 DEF QuotesInv
<1>10. ASSUME NEW q \in quotes' \ quotes
       PROVE  Honours(q)'
  <2>1. UNCHANGED <<filters, request, competition>>
    BY <1>1 DEF vars
  <2> QED
    BY <1>6, <1>7, <1>9, <1>10, <2>1 DEF Honours, offersFixture, fixture_offered, Exists
<1>11. \A q \in quotes' : Honours(q)'
  BY <1>8, <1>10
<1>12. quotes \subseteq quotes' /\ \A r \in pending' : r.house \in Houses
  BY <1>6, <1>9
<1>13. QuotesInv'
  BY <1>1, <1>2, <1>11, <1>12 DEF QuotesInv, loopVars
<1> QED
  BY <1>2, <1>3, <1>4, <1>13 DEF RouterInv

LEMMA FailedInv ==
    ASSUME VaultInv, QuotesInv, ListingInv, StakingInv, ReadFails \/ NoMarket
    PROVE  RouterInv'
<1>1. UNCHANGED <<worldVars, fixturesCache, request, quoteVars, loopVars, feesVars>>
  BY DEF ReadFails, NoMarket
<1>2. /\ answer'.kind \in {"failed", "no fixture", "no quotes", "no frontend"}
      /\ phase' = "answered"
  <2>1. CASE ReadFails
    BY <2>1, Refused DEF ReadFails
  <2>2. CASE NoMarket
    <3> DEFINE kind == CASE ~Exists(fixture) -> "no fixture"
                         [] Exists(fixture) /\ ~Exists(print) -> "no quotes"
                         [] OTHER -> "no frontend"
    <3>1. kind \in {"no fixture", "no quotes", "no frontend"}
      OBVIOUS
    <3>2. Refuse(kind)
      BY <2>2 DEF NoMarket
    <3> HIDE DEF kind
    <3> QED
      BY <3>1, <3>2, Refused
  <2> QED
    BY <2>1, <2>2
<1>3. answer'.kind # "tx"
  BY <1>2
<1> QED
  BY <1>1, <1>2, <1>3, RefusedInv

-----------------------------------------------------------------------------
(* The stake *)

LEMMA ReadFrontendInv ==
    ASSUME VaultInv, QuotesInv, ListingInv, StakingInv, ReadFrontend
    PROVE  RouterInv'
<1>1. /\ phase = "reading" /\ phase' = "fees" /\ pc' = "estimate"
      /\ UNCHANGED <<worldVars, fixturesCache, request, fixture, cfg, print, pending,
                     competition, quotes, loopVars, answer, charge, s>>
      /\ fixture # NotYet /\ cfg # NotYet /\ Exists(fixture)
      /\ frontend' \in Registered
      /\ m' = feeModel(frontends[frontend'].fee_bps, cfg.protocol_fee_bps, cfg.keeper_reward)
  BY DEF ReadFrontend, MarketRead
<1>2. VaultInv' /\ ~HasTx'
  BY <1>1, ChainStays DEF worldVars, HasTx
<1>3. QuotesInv'
  BY <1>1, <1>2, QuotesKept DEF QuotesInv, worldVars, vars, loopVars
<1>4. ListingInv'
  BY <1>1 DEF ListingInv, worldVars
<1>5. fixture' \in FixtureEntry /\ cfg' \in ConfigParams
  BY <1>1 DEF ListingInv, StakingInv, Exists
<1>6. /\ frontend' \in Frontends /\ Exists(frontends'[frontend'])
      /\ frontends'[frontend'] \in [fee_bps : Nat]
      /\ m' = feeModel(frontends'[frontend'].fee_bps, cfg'.protocol_fee_bps,
                       cfg'.keeper_reward)
  BY <1>1 DEF Registered, Exists, VaultInv, TypeOK, worldVars, vars
<1>7. m' \in FeeModel
  <2>1. cfg'.protocol_fee_bps \in Nat /\ cfg'.keeper_reward \in Nat
    BY <1>5 DEF ConfigParams
  <2>2. cfg'.keeper_reward * KEEPER_CRANKS \in Nat
    BY <2>1 DEF KEEPER_CRANKS
  <2> QED
    BY <1>6, <2>1, <2>2 DEF feeModel, FeeModel
<1>8. s' = 0 /\ charge' = request'.spend /\ request' \in Request /\ charge' \in Nat
  BY <1>1 DEF StakingInv, Request
<1>9. StakeInv'
  BY <1>1, <1>7, <1>8 DEF StakeInv
<1>10. StakingInv'
  BY <1>1, <1>2, <1>5, <1>6, <1>8, <1>9 DEF StakingInv
<1> QED
  BY <1>2, <1>3, <1>4, <1>10 DEF RouterInv

(* The early return stakes nothing. *)
LEMMA EarlyStakesNothing ==
    ASSUME pc = "early" => s = 0, FeesNext, pc' = "early"
    PROVE  s' = 0
  BY DEF FeesNext, Estimate, Raise, Lower

LEMMA StakeForChargeInv ==
    ASSUME VaultInv, QuotesInv, ListingInv, StakingInv, StakeForCharge
    PROVE  RouterInv'
<1>1. /\ phase = "fees" /\ phase' = "fees" /\ FeesNext
      /\ UNCHANGED <<worldVars, fixturesCache, request, quoteVars, loopVars, answer>>
      /\ UNCHANGED <<m, charge>>
  BY DEF StakeForCharge, FeesNext, Estimate, Raise, Lower
<1>2. VaultInv' /\ ~HasTx'
  BY <1>1, ChainStays DEF worldVars, HasTx
<1>3. QuotesInv'
  BY <1>1, <1>2, QuotesKept DEF QuotesInv, worldVars, vars, loopVars, quoteVars
<1>4. ListingInv'
  BY <1>1 DEF ListingInv, worldVars, quoteVars
<1>5. StakeInv' /\ (pc' = "early" => s' = 0)
  BY <1>1, StepStakeInv, EarlyStakesNothing DEF StakingInv, Committing
<1>6. StakingInv'
  BY <1>1, <1>2, <1>5 DEF StakingInv, Committing, worldVars, vars, quoteVars
<1> QED
  BY <1>2, <1>3, <1>4, <1>6 DEF RouterInv

(* Staking is settled once the stake is found: nothing of it changes until *)
(* the chain does.                                                         *)
LEMMA StakingKept ==
    ASSUME StakingInv, Committing, UNCHANGED <<frontends, request, quoteVars, feesVars>>,
           s # 0, pc \in {"early", "done"}, phase' # "reading"
    PROVE  StakingInv'
<1>1. /\ StakeInv' /\ (pc' = "early" => s' = 0)
  BY DEF StakingInv, StakeInv, chargeForStake, feesOnStake, feesVars
<1> QED
  BY <1>1 DEF StakingInv, quoteVars, feesVars

LEMMA StakeFoundInv ==
    ASSUME VaultInv, QuotesInv, ListingInv, StakingInv, StakeFound
    PROVE  RouterInv'
<1>1. CASE s = 0
  <2>1. /\ UNCHANGED <<worldVars, fixturesCache, request, quoteVars, loopVars, feesVars>>
        /\ answer'.kind = "too small" /\ phase' = "answered"
    BY <1>1, Refused DEF StakeFound
  <2> QED
    BY <2>1, RefusedInv
<1>2. CASE s # 0
  <2>1. /\ phase = "fees" /\ phase' = "routing" /\ pc \in {"early", "done"}
        /\ untried' = quotes /\ UNCHANGED <<current, capacityBlocked, bestMax, answer>>
        /\ UNCHANGED <<worldVars, fixturesCache, request, quoteVars, feesVars>>
    BY <1>2 DEF StakeFound
  <2>2. VaultInv' /\ ~HasTx' /\ Committing
    BY <2>1, ChainStays DEF worldVars, HasTx, Committing
  <2>3. QuotesInv'
    BY <2>1, <2>2, QuotesKept DEF QuotesInv, worldVars, vars, quoteVars
  <2>4. ListingInv'
    BY <2>1 DEF ListingInv, worldVars, quoteVars
  <2>5. StakingInv'
    BY <1>2, <2>1, <2>2, StakingKept DEF worldVars, vars
  <2> QED
    BY <2>2, <2>3, <2>4, <2>5 DEF RouterInv
<1> QED
  BY <1>1, <1>2

-----------------------------------------------------------------------------
(* Trying the houses *)

LEMMA ReadHeadroomInv ==
    ASSUME VaultInv, QuotesInv, ListingInv, StakingInv, ReadHeadroom
    PROVE  RouterInv'
<1>1. PICK q \in BestOf(untried) :
        \E book \in {BookOf(q.house, request.fixture_id), NewExposure} :
            /\ Misread(q.house, book # BookOf(q.house, request.fixture_id))
            /\ current' = q
            /\ untried' = untried \ {q}
            /\ bestMax' = Max({bestMax, MaxSpend(q.house, book)})
  BY DEF ReadHeadroom
<1>2. /\ phase = "routing"
      /\ UNCHANGED <<vars, listed, fixturesCache, request, phase, quoteVars,
                     capacityBlocked, answer, feesVars>>
  BY DEF ReadHeadroom
<1>3. q \in quotes /\ current' = q /\ untried' \subseteq quotes /\ touched \subseteq touched'
  BY <1>1 DEF BestOf, QuotesInv, Misread
<1>4. VaultInv' /\ ~HasTx' /\ Committing
  BY <1>2, ChainStays DEF HasTx, Committing
<1>5. QuotesInv'
  BY <1>2, <1>3, <1>4, QuotesKept DEF vars, quoteVars
<1>6. ListingInv'
  BY <1>2 DEF ListingInv, quoteVars
<1>7. StakingInv'
  BY <1>2, <1>4, StakingKept DEF StakingInv, vars
<1> QED
  BY <1>4, <1>5, <1>6, <1>7 DEF RouterInv

LEMMA SimulateInv ==
    ASSUME VaultInv, QuotesInv, ListingInv, StakingInv, Simulate
    PROVE  RouterInv'
<1>1. /\ phase = "routing" /\ current # NoAccount
      /\ UNCHANGED <<worldVars, fixturesCache, request, quoteVars, untried, bestMax,
                     feesVars>>
  BY DEF Simulate
<1> DEFINE code == Simulated(OrderFor(current.house))
<1>2. \/ /\ Refuse(IF code = NoCode THEN "no SOL" ELSE "kicked off")
         /\ UNCHANGED <<current, capacityBlocked>>
      \/ /\ Respond("tx", current.house, current.effOdds[request.outcome], 0)
         /\ UNCHANGED <<current, capacityBlocked>>
      \/ current' = NoAccount /\ UNCHANGED <<answer, phase>>
  BY DEF Simulate
<1> HIDE DEF code
<1>3. \/ /\ phase' = "answered" /\ answer'.kind \in {"no SOL", "kicked off"}
         /\ UNCHANGED current
      \/ /\ phase' = "answered" /\ answer'.house = current.house
         /\ UNCHANGED current
      \/ current' = NoAccount /\ UNCHANGED <<answer, phase>>
  BY <1>2, Refused, Responded
<1>4. VaultInv' /\ Committing
  BY <1>1, ChainStays DEF worldVars, Committing
<1>5. ListingInv'
  BY <1>1 DEF ListingInv, worldVars, quoteVars
<1>6. StakingInv'
  <2>1. phase' # "reading" /\ s # 0 /\ pc \in {"early", "done"}
    BY <1>1, <1>3 DEF StakingInv
  <2> QED
    BY <1>1, <1>4, <2>1, StakingKept DEF worldVars, vars
<1>7. /\ current' = NoAccount \/ current' \in quotes
      /\ HasTx' => \E q \in quotes : q.house = answer'.house
  BY <1>1, <1>3 DEF QuotesInv, HasTx
<1>8. QuotesInv'
  BY <1>1, <1>7, QuotesKept DEF QuotesInv, worldVars, vars, quoteVars
<1> QED
  BY <1>4, <1>5, <1>6, <1>8 DEF RouterInv

LEMMA NoHouseInv ==
    ASSUME VaultInv, QuotesInv, ListingInv, StakingInv, NoHouse
    PROVE  RouterInv'
<1>1. /\ UNCHANGED <<worldVars, fixturesCache, request, quoteVars, loopVars, feesVars>>
      /\ answer'.kind \in {"capacity", "refused"} /\ phase' = "answered"
  BY Refused, Responded DEF NoHouse
<1>2. answer'.kind # "tx"
  BY <1>1
<1> QED
  BY <1>1, <1>2, RefusedInv

-----------------------------------------------------------------------------
(* The wallet and everybody else *)

LEMMA OutsideInv ==
    ASSUME VaultInv, QuotesInv, ListingInv, StakingInv, GiveUp \/ Relist \/ UNCHANGED routerVars
    PROVE  RouterInv'
<1>1. /\ UNCHANGED <<vars, touched, request, quoteVars, loopVars, answer, feesVars,
                     fixturesCache>>
      /\ phase' = phase \/ phase' = "given up"
      /\ listed' \subseteq FixtureEntry
  BY RouterAssumption DEF GiveUp, Relist, routerVars, worldVars, requestVars, ListingInv
<1>2. VaultInv' /\ (HasTx' => HasTx) /\ (Committing' => Committing)
  BY <1>1, ChainStays DEF HasTx, Committing
<1>3. QuotesInv'
  BY <1>1, <1>2, QuotesKept DEF QuotesInv, vars, quoteVars, loopVars
<1>4. ListingInv'
  BY <1>1 DEF ListingInv, quoteVars
<1>5. StakeInv => StakeInv'
  BY <1>1 DEF StakeInv, chargeForStake, feesOnStake, feesVars
<1>6. StakingInv'
  BY <1>1, <1>2, <1>5 DEF StakingInv, quoteVars, feesVars, vars
<1> QED
  BY <1>2, <1>3, <1>4, <1>6 DEF RouterInv

LEMMA ChainInv ==
    ASSUME VaultInv, QuotesInv, ListingInv, StakingInv, Chain
    PROVE  RouterInv'
<1>1. /\ Next /\ touched' = touched \cup Changed
      /\ UNCHANGED <<listed, request, phase, quoteVars, loopVars, answer, feesVars,
                     fixturesCache>>
  BY DEF Chain, requestVars
<1>2. VaultInv' /\ (HasTx' <=> HasTx) /\ (Committing' <=> Committing)
  BY <1>1, NextVaultInv DEF HasTx, Committing
<1>3. \A q \in quotes : Honours(q)'
  <2>1. \A h \in Houses : filters'[h] # filters[h] => h \in touched'
    BY <1>1 DEF Changed
  <2>2. touched \subseteq touched' /\ \A q \in quotes : Honours(q) /\ q.house \in Houses
    BY <1>1 DEF QuotesInv, Honours
  <2> QED
    BY <1>1, <2>1, <2>2, HonoursKept DEF quoteVars
<1>4. QuotesInv'
  BY <1>1, <1>2, <1>3 DEF QuotesInv, quoteVars, loopVars
<1>5. ListingInv'
  BY <1>1 DEF ListingInv, quoteVars
<1>6. StakeInv => StakeInv'
  BY <1>1 DEF StakeInv, chargeForStake, feesOnStake, feesVars
<1>7. \A fe \in Frontends : Exists(frontends[fe]) => frontends'[fe] = frontends[fe]
  BY <1>1, FrontendsStay DEF VaultInv
<1>8. StakingInv'
  BY <1>1, <1>2, <1>6, <1>7 DEF StakingInv, quoteVars, feesVars
<1> QED
  BY <1>2, <1>4, <1>5, <1>8 DEF RouterInv

LEMMA NextRouterInv == RouterInv /\ [RouterNext]_routerVars => RouterInv'
<1> SUFFICES ASSUME RouterInv, [RouterNext]_routerVars
             PROVE  RouterInv'
  OBVIOUS
<1>1. CASE phase = "committed"
  <2>1. phase' = "committed"
    BY <1>1 DEF RouterNext, RequestNext, ReadFixture, ReadConfig, ReadPrint, ReadHouses,
                ReadCompetition, QuoteHouse, ReadFails, ReadsLeft, NoMarket, ReadFrontend,
                StakeForCharge, StakeFound, ReadHeadroom, Simulate, NoHouse, Land, GiveUp,
                Chain, Relist, Running, HasTx, requestVars, routerVars
  <2> QED
    BY <2>1 DEF RouterInv
<1>2. CASE phase # "committed"
  <2>1. VaultInv /\ QuotesInv /\ ListingInv /\ StakingInv
    BY <1>2 DEF RouterInv
  <2>2. CASE Land
    BY <2>2 DEF Land, RouterInv
  <2>3. CASE RequestNext
    BY <2>1, <2>3, ReadingInv, QuoteHouseInv, FailedInv, ReadFrontendInv,
       StakeForChargeInv, StakeFoundInv, ReadHeadroomInv, SimulateInv, NoHouseInv
       DEF RequestNext
  <2>4. CASE GiveUp \/ Relist \/ Chain \/ UNCHANGED routerVars
    BY <2>1, <2>4, OutsideInv, ChainInv
  <2> QED
    BY <2>2, <2>3, <2>4 DEF RouterNext
<1> QED
  BY <1>1, <1>2

LEMMA RouterInvHolds == RouterSpec => []RouterInv
  BY InitRouterInv, NextRouterInv, PTL DEF RouterSpec

-----------------------------------------------------------------------------
(* What a bettor may expect *)

(* Whatever owners, admins and bettors do while the request is read and    *)
(* routed: a house nobody touched is only answered when its policy offers  *)
(* the match.                                                              *)
THEOREM PolicyAlwaysHonoured == RouterSpec => []PolicyHonoured
<1>1. RouterInv => PolicyHonoured
  <2> SUFFICES ASSUME RouterInv, HasTx, answer.house \notin touched,
                      competition = fixture.CompetitionId
               PROVE  Allowed(answer.house)
    BY DEF PolicyHonoured
  <2>1. QuotesInv /\ StakingInv /\ Committing
    BY DEF RouterInv, HasTx, Committing
  <2>2. PICK q \in quotes : q.house = answer.house
    BY <2>1 DEF QuotesInv
  <2>3. offersFixture(filters[q.house], request.fixture_id, competition)
    BY <2>1, <2>2 DEF QuotesInv, Honours
  <2>4. competition # NoAccount
    <3>1. fixture.CompetitionId \in Nat
      BY <2>1 DEF StakingInv, FixtureEntry
    <3> QED
      BY <3>1, RouterAssumption
  <2> QED
    BY <2>2, <2>3, <2>4 DEF offersFixture, Allowed
<1> QED
  BY <1>1, RouterInvHolds, PTL

(* The bytes a fee is kept in can only make it smaller. *)
LEMMA TruncatedIsLess ==
    ASSUME NEW stake \in Nat, NEW bps \in Nat
    PROVE  /\ TruncatedFee(stake, bps) \in Nat /\ FeeOf(stake, bps) \in Nat
           /\ TruncatedFee(stake, bps) <= FeeOf(stake, bps)
<1>1. FeeOf(stake, bps) \in Nat
  BY FeeMonotone
<1>2. \A x \in Nat, d \in Nat \ {0} : x % d \in Nat /\ x % d <= x
  OBVIOUS
<1>3. MaxU64 + 1 \in Nat \ {0}
  BY ConstantsAssumption
<1> QED
  BY <1>1, <1>2, <1>3 DEF TruncatedFee

(* The program takes what the slip computed, or less. *)
LEMMA LandedDebit ==
    ASSUME RouterInv, Land, config = cfg
    PROVE  token[request.bettor] - token'[request.bettor] <= request.spend
<1>1. HasTx /\ VaultInv /\ StakingInv /\ Committing
  BY DEF Land, RouterInv, HasTx, Committing
<1>2. /\ request.bettor \in Bettors /\ request.spend = charge
      /\ cfg \in ConfigParams /\ frontends[frontend] \in [fee_bps : Nat]
      /\ m = feeModel(frontends[frontend].fee_bps, cfg.protocol_fee_bps, cfg.keeper_reward)
      /\ s # 0 /\ StakeInv /\ (pc = "early" => s = 0) /\ pc \in {"early", "done"}
  BY <1>1 DEF StakingInv, Request
<1>3. s \in Nat /\ chargeForStake(s) <= charge /\ charge \in Nat
  BY <1>2 DEF StakeInv
<1> DEFINE f == frontends[frontend].fee_bps
           p == cfg.protocol_fee_bps
           r == cfg.keeper_reward
           total == s + TruncatedFee(s, f) + TruncatedFee(s, p) + r * KEEPER_CRANKS
<1>4. f \in Nat /\ p \in Nat /\ r \in Nat /\ r * KEEPER_CRANKS \in Nat
  BY <1>2 DEF ConfigParams, KEEPER_CRANKS
<1>5. token[request.bettor] >= total /\ token' = Moved(token, request.bettor, Escrow, total)
  BY DEF Land, CommitBet, CanCommit, Reservation, FrontendFeeOf, ProtocolFeeOf, EscrowTotal,
         CommittedBook, OrderFor, KeeperEscrow
<1>6. m.frontendFeeBps = f /\ m.protocolFeeBps = p /\ m.keeperUusdc = r * KEEPER_CRANKS
  BY <1>2 DEF feeModel
<1>7. chargeForStake(s) = s + (FeeOf(s, f) + FeeOf(s, p) + r * KEEPER_CRANKS)
  BY <1>6 DEF chargeForStake, feesOnStake
<1> HIDE DEF f, p
<1>8. /\ TruncatedFee(s, f) \in Nat /\ FeeOf(s, f) \in Nat /\ TruncatedFee(s, f) <= FeeOf(s, f)
      /\ TruncatedFee(s, p) \in Nat /\ FeeOf(s, p) \in Nat /\ TruncatedFee(s, p) <= FeeOf(s, p)
  BY <1>3, <1>4, TruncatedIsLess
<1> DEFINE reward == r * KEEPER_CRANKS
<1>9. reward \in Nat
  BY <1>4
<1> HIDE DEF reward, r
<1>10. total = s + TruncatedFee(s, f) + TruncatedFee(s, p) + reward /\ total \in Nat
  BY <1>3, <1>8, <1>9 DEF reward, r
<1>11. chargeForStake(s) = s + (FeeOf(s, f) + FeeOf(s, p) + reward)
  BY <1>7 DEF reward, r
<1> HIDE DEF total
<1>12. total <= charge
  BY <1>3, <1>8, <1>9, <1>10, <1>11
<1>13. /\ request.bettor \in TokenAccounts /\ Escrow \in TokenAccounts
       /\ request.bettor # Escrow /\ token \in [TokenAccounts -> Nat]
  BY <1>1, <1>2, AccountsFact DEF VaultInv, TypeOK
<1>14. token'[request.bettor] = token[request.bettor] - total /\ token[request.bettor] \in Nat
  BY <1>5, <1>10, <1>13, MovedFact
<1> QED
  BY <1>2, <1>3, <1>10, <1>12, <1>14

(* Whenever the signed transaction lands, and whatever happened since the  *)
(* fees were read as long as the config is the one read: the wallet is     *)
(* debited at most what the bettor asked to spend.                         *)
THEOREM DebitAlwaysWithinHeadline == RouterSpec => DebitWithinHeadline
<1> DEFINE A == HasTx /\ phase' = "committed" /\ config = cfg =>
                    token[request.bettor] - token'[request.bettor] <= request.spend
<1>1. RouterInv /\ [RouterNext]_routerVars => [A]_routerVars
  <2> SUFFICES ASSUME RouterInv, RouterNext, HasTx, phase' = "committed", config = cfg
               PROVE  token[request.bettor] - token'[request.bettor] <= request.spend
    OBVIOUS
  <2>1. phase = "answered"
    BY DEF HasTx
  <2>2. ~RequestNext
    BY <2>1 DEF RequestNext, ReadFixture, ReadConfig, ReadPrint, ReadHouses,
                ReadCompetition, QuoteHouse, ReadFails, ReadsLeft, NoMarket, ReadFrontend,
                StakeForCharge, StakeFound, ReadHeadroom, Simulate, NoHouse
  <2>3. ~GiveUp /\ ~Chain /\ ~Relist
    BY <2>1 DEF GiveUp, Chain, Relist, requestVars
  <2> QED
    BY <2>2, <2>3, LandedDebit DEF RouterNext
<1> QED
  BY <1>1, RouterInvHolds, PTL DEF RouterSpec, DebitWithinHeadline

-----------------------------------------------------------------------------
(* Simulating a commit *)

LEMMA LeastIs ==
    ASSUME NEW S \in SUBSET Nat, S # {}
    PROVE  Min(S) \in S
<1>1. \E x \in S : \A y \in S : x <= y
  BY LeastNatural
<1> QED
  BY <1>1 DEF Min

(* The simulation passes when no check fails.                              *)
LEMMA NoCheckFails ==
    ASSUME NEW order
    PROVE  Simulated(order) = Ok <=> \A i \in 1..9 : ~CommitChecks(order)[i].fails
<1> DEFINE checks == CommitChecks(order)
           failing == {i \in DOMAIN checks : checks[i].fails}
<1>1. DOMAIN checks = 1..9
  BY DEF CommitChecks
<1>2. \A i \in 1..9 : checks[i].code # Ok
  BY DEF CommitChecks, NoCode, HousePaused, ZeroStake, FixtureNotOffered, PastKickoff,
         FixtureRiskExceeded, TotalRiskExceeded, InsufficientHouseCollateral,
         InsufficientFunds, Ok
<1>3. Simulated(order) = IF failing = {} THEN Ok ELSE checks[Min(failing)].code
  BY DEF Simulated
<1> HIDE DEF checks
<1>4. ASSUME failing # {}
      PROVE  Min(failing) \in 1..9
  <2>1. failing \in SUBSET Nat /\ failing \subseteq 1..9
    BY <1>1
  <2> QED
    BY <1>4, <2>1, LeastIs
<1>5. Simulated(order) = Ok <=> failing = {}
  BY <1>2, <1>3, <1>4
<1>6. failing = {} <=> \A i \in 1..9 : ~checks[i].fails
  BY <1>1
<1> QED
  BY <1>5, <1>6 DEF checks

(* A request that cannot pay SOL gets no other answer.                     *)
LEMMA NoSolIsFirst ==
    ASSUME NEW order, ~request.hasSol
    PROVE  Simulated(order) = NoCode
<1> DEFINE checks == CommitChecks(order)
           failing == {i \in DOMAIN checks : checks[i].fails}
<1> DEFINE first == ~request.hasSol
<1>1. DOMAIN checks = 1..9 /\ checks[1] = [code |-> NoCode, fails |-> first]
  BY DEF CommitChecks
<1>2. Simulated(order) = IF failing = {} THEN Ok ELSE checks[Min(failing)].code
  BY DEF Simulated
<1>3. first \in BOOLEAN /\ first
  OBVIOUS
<1> HIDE DEF first, checks
<1>4. checks[1].fails = TRUE /\ checks[1].code = NoCode
  BY <1>1, <1>3
<1>5. 1 \in failing /\ failing \subseteq 1..9
  BY <1>1, <1>4
<1> HIDE DEF failing
<1>6. Min(failing) = 1
  <2>1. \A x \in failing : (\A y \in failing : x <= y) => x = 1
    BY <1>5
  <2>2. 1 \in failing /\ \A y \in failing : 1 <= y
    BY <1>5
  <2> QED
    BY <2>1, <2>2 DEF Min
<1> QED
  BY <1>2, <1>4, <1>5, <1>6

(* The book an order is committed to is of its types.                      *)
LEMMA CommittedFact ==
    ASSUME TypeOK, NEW order, order.house \in Houses, order.fixture_id \in Fixtures,
           order.outcome \in Outcomes,
           BookOf(order.house, order.fixture_id).liability[order.outcome]
                + Reservation(order) \in U64
    PROVE  LET book == BookOf(order.house, order.fixture_id)
               e == CommittedBook(order)
           IN  /\ e.liability \in [Outcomes -> U64]
               /\ e.stakes_collected = book.stakes_collected /\ e.locked = book.locked
               /\ e.stakes_collected \in Nat /\ e.locked \in Nat
<1> DEFINE book == BookOf(order.house, order.fixture_id)
           e == CommittedBook(order)
<1>1. book \in FixtureExposure /\ book.stakes_collected \in Nat /\ book.locked \in Nat
  BY BookType
<1>2. e = [book EXCEPT !.liability[order.outcome] = @ + Reservation(order), !.open_bets = @ + 1]
  BY DEF CommittedBook
<1>3. book.liability[order.outcome] + Reservation(order) \in U64
  OBVIOUS
<1> HIDE DEF book
<1>4. e.liability = [book.liability EXCEPT ![order.outcome] = @ + Reservation(order)]
      /\ e.stakes_collected = book.stakes_collected /\ e.locked = book.locked
  BY <1>1, <1>2 DEF FixtureExposure
<1>5. book.liability \in [Outcomes -> U64]
  BY <1>1 DEF FixtureExposure
<1>6. e.liability \in [Outcomes -> U64]
  BY <1>3, <1>4, <1>5
<1> QED
  BY <1>1, <1>4, <1>6 DEF book

(* The checks together are the program's: a simulation passes exactly when *)
(* the bettor has SOL and commit_bet would go through.                     *)
Slip == [bettor : Bettors, house : Houses, frontend : Frontends, fixture_id : Fixtures,
         outcome : Outcomes, stake : Nat, nonce : Nonces, start_time_ms : Int]
PassesAsProgram ==
    \A order \in Slip : Simulated(order) = Ok <=> request.hasSol /\ CanCommit(order)

LEMMA SimulatedIsOk == TypeOK => PassesAsProgram
<1> SUFFICES ASSUME TypeOK, NEW order \in Slip
             PROVE  Simulated(order) = Ok <=> request.hasSol /\ CanCommit(order)
  BY DEF PassesAsProgram
<1>1. /\ order.house \in Houses /\ order.fixture_id \in Fixtures
      /\ order.outcome \in Outcomes /\ order.stake \in Nat /\ order.start_time_ms \in Int
  BY DEF Slip
<1> DEFINE house == houses[order.house]
           book == CommittedBook(order)
           lock == locked(book.liability, book.stakes_collected)
           total == Resynced(order.house, book)
           checks == CommitChecks(order)
           F1 == ~request.hasSol
           F3 == order.stake = 0
           F4 == ~Offered(order.house, order.fixture_id)
           F5 == now_ms >= order.start_time_ms
           F6 == lock > house.params.max_risk_per_fixture
           F7 == total > house.params.max_total_risk
           F8 == token[order.house] < total
           F9 == ~CanCommit(order)
<1>2. checks = <<[code |-> NoCode, fails |-> F1],
                 [code |-> HousePaused, fails |-> house.paused],
                 [code |-> ZeroStake, fails |-> F3],
                 [code |-> FixtureNotOffered, fails |-> F4],
                 [code |-> PastKickoff, fails |-> F5],
                 [code |-> FixtureRiskExceeded, fails |-> F6],
                 [code |-> TotalRiskExceeded, fails |-> F7],
                 [code |-> InsufficientHouseCollateral, fails |-> F8],
                 [code |-> InsufficientFunds, fails |-> F9]>>
  BY DEF CommitChecks
<1>3. {F1, F3, F4, F5, F6, F7, F8, F9} \subseteq BOOLEAN
  OBVIOUS
<1>4. ASSUME CanCommit(order)
      PROVE  /\ ~house.paused /\ ~(order.stake = 0)
             /\ Offered(order.house, order.fixture_id) /\ ~(now_ms >= order.start_time_ms)
             /\ ~(lock > house.params.max_risk_per_fixture)
             /\ ~(total > house.params.max_total_risk) /\ ~(token[order.house] < total)
  <2>1. /\ Exists(house) /\ ~house.paused /\ order.stake > 0
        /\ Offered(order.house, order.fixture_id) /\ now_ms < order.start_time_ms
        /\ BookOf(order.house, order.fixture_id).liability[order.outcome]
                + Reservation(order) \in U64
        /\ total \in U64 /\ WithinRisk(order.house, lock, total)
    BY <1>4 DEF CanCommit
  <2>2. lock <= house.params.max_risk_per_fixture /\ total <= house.params.max_total_risk
        /\ token[order.house] >= total
    BY <2>1 DEF WithinRisk
  <2>3. house.params.max_risk_per_fixture \in Nat /\ house.params.max_total_risk \in Nat
    BY <1>1, <2>1 DEF TypeOK, Exists, House, HouseParams
  <2>4. lock \in Nat
    BY <1>1, <2>1, CommittedFact, LockFact, ConstantsAssumption DEF U64
  <2>5. total \in Nat /\ token[order.house] \in Nat /\ now_ms \in Int
    BY <1>1, <2>1, AccountsFact, ConstantsAssumption DEF U64, TypeOK, now_ms
  <2> HIDE DEF house, lock, total
  <2> QED
    BY <1>1, <2>1, <2>2, <2>3, <2>4, <2>5
<1> HIDE DEF house, lock, total, checks
<1>5. (\A i \in 1..9 : ~checks[i].fails) <=>
        ~F1 /\ ~house.paused /\ ~F3 /\ ~F4 /\ ~F5 /\ ~F6 /\ ~F7 /\ ~F8 /\ ~F9
  <2> HIDE DEF F1, F3, F4, F5, F6, F7, F8, F9
  <2> QED
    BY <1>2, <1>3
<1> QED
  BY <1>4, <1>5, NoCheckFails DEF checks

-----------------------------------------------------------------------------
(* What the chain's steps leave as it was *)

(* The clock only runs forward.                                            *)
LEMMA ClockForward ==
    ASSUME TypeOK, Next
    PROVE  unix_timestamp' \in Nat /\ unix_timestamp <= unix_timestamp'
<1>1. unix_timestamp \in Nat
  BY DEF TypeOK
<1>2. CASE AdminNext
  BY <1>1, <1>2 DEF AdminNext, InitConfig, UpdateConfig, RegisterFrontend
<1>3. CASE HouseNext
  <2>1. UNCHANGED unix_timestamp
    BY <1>3 DEF HouseNext, CreateHouse, UpdateHouseParams, SetPaused, SetHouseFilters,
                CloseExposure, Deposit, Withdraw
  <2> QED
    BY <1>1, <2>1
<1>4. CASE BetNext
  <2>1. ASSUME NEW cranker_token \in RewardAccounts, NEW bettor \in Bettors, NEW nonce \in Nonces,
               \/ \E commit_print \in prints, target_print \in prints :
                    FillBet(cranker_token, bettor, nonce, commit_print, target_print)
               \/ \E ev \in scores : SettleBet(cranker_token, bettor, nonce, ev)
               \/ VoidBet(cranker_token, bettor, nonce)
        PROVE  UNCHANGED unix_timestamp
    BY <2>1 DEF FillBet, SettleBet, VoidBet, ReleaseAndReward
  <2>2. ASSUME NEW bettor \in Bettors, NEW nonce \in Nonces,
               RefundCommit(bettor, nonce) \/ CloseBet(bettor, nonce)
        PROVE  UNCHANGED unix_timestamp
    BY <2>2 DEF RefundCommit, CloseBet
  <2>3. ASSUME NEW order \in Orders, CommitBet(order)
        PROVE  UNCHANGED unix_timestamp
    BY <2>3 DEF CommitBet
  <2>4. ASSUME NEW cranker \in Crankers,
               \/ \E odds \in Feed : ProvePrint(cranker, odds)
               \/ \E p \in prints : ClosePrint(cranker, p)
        PROVE  UNCHANGED unix_timestamp
    BY <2>4 DEF ProvePrint, ClosePrint
  <2> QED
    BY <1>1, <1>4, <2>1, <2>2, <2>3, <2>4 DEF BetNext
<1>5. CASE WorldNext
  BY <1>1, <1>5 DEF WorldNext, Tick, PublishScore
<1> QED
  BY <1>2, <1>3, <1>4, <1>5 DEF Next

(* Committing a bet costs its bettor something.                            *)
LEMMA CommitDebits ==
    ASSUME TypeOK, NEW order \in Orders, CommitBet(order)
    PROVE  token'[order.bettor] # token[order.bettor]
<1>1. /\ order.bettor \in Bettors /\ order.stake \in Nat /\ order.frontend \in Frontends
      /\ order.house \in Houses
  BY ConstantsAssumption DEF Order, U64
<1>2. /\ Exists(config) /\ Exists(frontends[order.frontend]) /\ order.stake > 0
      /\ EscrowTotal(order) \in U64 /\ token[order.bettor] >= EscrowTotal(order)
      /\ token' = Moved(token, order.bettor, Escrow, EscrowTotal(order))
  BY DEF CommitBet, CanCommit
<1>3. config \in ConfigParams /\ frontends[order.frontend] \in [fee_bps : Nat]
  BY <1>1, <1>2 DEF TypeOK, Exists
<1>4. /\ config.protocol_fee_bps \in Nat /\ config.keeper_reward \in Nat
      /\ frontends[order.frontend].fee_bps \in Nat
  BY <1>3 DEF ConfigParams
<1>5. FrontendFeeOf(order) \in Nat /\ ProtocolFeeOf(order) \in Nat
  <2>1. FrontendFeeOf(order) \in U64 /\ ProtocolFeeOf(order) \in U64
    BY <1>1, <1>4, FeeFact DEF FrontendFeeOf, ProtocolFeeOf
  <2> QED
    BY <2>1, ConstantsAssumption DEF U64
<1>6. KeeperEscrow \in Nat
  BY <1>4 DEF KeeperEscrow, KEEPER_CRANKS
<1>7. EscrowTotal(order) > 0 /\ EscrowTotal(order) \in Nat
  BY <1>1, <1>2, <1>5, <1>6 DEF EscrowTotal
<1>8. /\ order.bettor \in TokenAccounts /\ Escrow \in TokenAccounts
      /\ order.bettor # Escrow /\ token \in [TokenAccounts -> Nat]
  BY <1>1, AccountsFact DEF TypeOK
<1>9. token'[order.bettor] = token[order.bettor] - EscrowTotal(order)
  BY <1>2, <1>7, <1>8, MovedFact
<1> QED
  BY <1>7, <1>8, <1>9

(* So a free address stays free while its bettor's wallet is not touched.  *)
LEMMA SlotStays ==
    ASSUME TypeOK, Next, NEW bettor \in Bettors, NEW nonce \in Nonces,
           ~IsBet(bettor, nonce), token'[bettor] = token[bettor]
    PROVE  ~IsBet(bettor, nonce)'
<1> DEFINE bn == <<bettor, nonce>>
<1>1. bets \in [Bettors \X Nonces -> Bet \cup {NoAccount}] /\ bets[bn] = NoAccount
  BY DEF TypeOK, IsBet, Exists
<1>2. CASE UNCHANGED bets
  BY <1>1, <1>2 DEF IsBet, Exists
<1>3. ASSUME NEW order \in Orders, CommitBet(order)
      PROVE  bets'[bn] = NoAccount
  <2>1. order.bettor # bettor
    BY <1>3, CommitDebits
  <2>2. OnlyBet(<<order.bettor, order.nonce>>,
                NewBet(order, Reservation(order), FrontendFeeOf(order), ProtocolFeeOf(order)))
    BY <1>3 DEF CommitBet, OnlyBet
  <2> QED
    BY <1>1, <2>1, <2>2 DEF OnlyBet
<1>4. ASSUME NEW b \in Bettors, NEW n \in Nonces, IsBet(b, n), NEW bet, OnlyBet(<<b, n>>, bet)
      PROVE  bets'[bn] = NoAccount
  BY <1>1, <1>4 DEF OnlyBet, IsBet, Exists
<1>5. ASSUME NEW b \in Bettors, NEW n \in Nonces,
             \/ \E cranker_token \in RewardAccounts :
                \/ \E commit_print \in prints, target_print \in prints :
                        FillBet(cranker_token, b, n, commit_print, target_print)
                \/ \E ev \in scores : SettleBet(cranker_token, b, n, ev)
                \/ VoidBet(cranker_token, b, n)
             \/ RefundCommit(b, n)
             \/ CloseBet(b, n)
      PROVE  bets'[bn] = NoAccount
  <2>1. IsBet(b, n)
    BY <1>5 DEF FillBet, CanFill, SettleBet, VoidBet, RefundCommit, CanRefund, CloseBet,
                InState
  <2>2. \E bet : OnlyBet(<<b, n>>, bet)
    <3>1. ASSUME NEW cranker_token \in RewardAccounts, NEW paid, NEW state,
                 ReleaseAndReward(cranker_token, b, n, paid, state)
          PROVE  \E bet : OnlyBet(<<b, n>>, bet)
      BY <3>1, ReleaseEndsOne
    <3>2. CASE \E cranker_token \in RewardAccounts,
                  commit_print \in prints, target_print \in prints :
                    FillBet(cranker_token, b, n, commit_print, target_print)
      BY <3>2 DEF FillBet, OnlyBet
    <3>3. CASE \E cranker_token \in RewardAccounts :
                \/ \E ev \in scores : SettleBet(cranker_token, b, n, ev)
                \/ VoidBet(cranker_token, b, n)
      BY <3>1, <3>3 DEF SettleBet, VoidBet
    <3>4. CASE RefundCommit(b, n)
      <4>1. OnlyBet(<<b, n>>, [bets[<<b, n>>] EXCEPT !.state = "Refunded"])
        BY <3>4 DEF RefundCommit, OnlyBet
      <4> QED
        BY <4>1
    <3>5. CASE CloseBet(b, n)
      BY <3>5 DEF CloseBet, OnlyBet
    <3> QED
      BY <1>5, <3>2, <3>3, <3>4, <3>5
  <2> QED
    BY <1>4, <2>1, <2>2
<1>6. bets'[bn] = NoAccount
  BY <1>1, <1>3, <1>5, BetsChange
<1> QED
  BY <1>6 DEF IsBet, Exists

(* A house nobody touched is as it was; so are an untouched wallet and     *)
(* config.                                                                 *)
LEMMA UntouchedStays ==
    ASSUME Chain
    PROVE  /\ touched \subseteq touched'
           /\ \A h \in Houses \ touched' :
                /\ houses'[h] = houses[h] /\ filters'[h] = filters[h] /\ token'[h] = token[h]
                /\ \A f \in Fixtures : exposures'[<<h, f>>] = exposures[<<h, f>>]
           /\ request.bettor \notin touched' => token'[request.bettor] = token[request.bettor]
           /\ "config" \notin touched' /\ cfg # NotYet => config' = config
  BY DEF Chain, Changed

LEMMA OddsSame ==
    ASSUME NEW h, houses'[h] = houses[h], UNCHANGED <<request, print>>,
           exposures'[<<h, request.fixture_id>>] = exposures[<<h, request.fixture_id>>]
    PROVE  OddsNow(h)' = OddsNow(h)
  BY DEF OddsNow, BookOf, NewExposure, Exists

(* What the program refused, it goes on refusing while nobody touches the  *)
(* house, the wallet or the config: time only adds reasons to refuse.      *)
LEMMA RefusalStays ==
    ASSUME TypeOK, TypeOK', NEW order \in Slip,
           houses'[order.house] = houses[order.house],
           filters'[order.house] = filters[order.house],
           token'[order.house] = token[order.house],
           exposures'[<<order.house, order.fixture_id>>]
                = exposures[<<order.house, order.fixture_id>>],
           token'[order.bettor] = token[order.bettor], config' = config,
           frontends'[order.frontend] = frontends[order.frontend],
           ~IsBet(order.bettor, order.nonce), request' = request,
           unix_timestamp <= unix_timestamp',
           Simulated(order)' = Ok
    PROVE  Simulated(order) = Ok
<1>1. request.hasSol /\ CanCommit(order)'
  <2>1. PassesAsProgram'
    BY SimulatedIsOk, PTL
  <2>2. Simulated(order)' = Ok <=> request'.hasSol /\ CanCommit(order)'
    BY <2>1 DEF PassesAsProgram
  <2> QED
    BY <2>2
<1> DEFINE book == BookOf(order.house, order.fixture_id)
           e == CommittedBook(order)
<1>2. book' = book
  BY DEF BookOf, NewExposure, Exists
<1>3. Reservation(order)' = Reservation(order)
  BY DEF Reservation
<1>4. e' = e
  BY <1>2, <1>3 DEF CommittedBook
<1>5. /\ FrontendFeeOf(order)' = FrontendFeeOf(order)
      /\ ProtocolFeeOf(order)' = ProtocolFeeOf(order)
      /\ KeeperEscrow' = KeeperEscrow
  BY DEF FrontendFeeOf, ProtocolFeeOf, KeeperEscrow
<1>6. EscrowTotal(order)' = EscrowTotal(order)
  BY <1>5 DEF EscrowTotal
<1> HIDE DEF e, book
<1>7. Resynced(order.house, e)' = Resynced(order.house, e)
  BY <1>4 DEF Resynced
<1>8. WithinRisk(order.house, locked(e.liability, e.stakes_collected), Resynced(order.house, e))'
        => WithinRisk(order.house, locked(e.liability, e.stakes_collected),
                      Resynced(order.house, e))
  BY <1>4, <1>7 DEF WithinRisk
<1>9. Offered(order.house, order.fixture_id)' => Offered(order.house, order.fixture_id)
  BY DEF Offered, Exists
<1>10. /\ now_ms' < order.start_time_ms => now_ms < order.start_time_ms
       /\ Exists(config) /\ now_ms' + config.commit_delay_ms <= MaxI64
            => now_ms + config.commit_delay_ms <= MaxI64
  <2>1. now_ms \in Int /\ now_ms' \in Int /\ now_ms <= now_ms'
    BY DEF TypeOK, now_ms
  <2>2. Exists(config) => config.commit_delay_ms \in Int
    BY DEF TypeOK, Exists, ConfigParams
  <2>3. order.start_time_ms \in Int
    BY DEF Slip
  <2> QED
    BY <2>1, <2>2, <2>3, ConstantsAssumption
<1>11. CanCommit(order)
  BY <1>1, <1>2, <1>3, <1>4, <1>6, <1>7, <1>8, <1>9, <1>10 DEF CanCommit, Exists, book, e
<1>12. PassesAsProgram
  BY SimulatedIsOk
<1> QED
  BY <1>1, <1>11, <1>12 DEF PassesAsProgram

-----------------------------------------------------------------------------
(* The invariant of the choice: what was listed, quoted and passed over    *)

(* A house is seen once it waits to be quoted, or was quoted as far as its *)
(* policy offers the match.                                                *)
Seen(h) ==
    \/ \E p \in pending : p.house = h
    \/ /\ competition # NotYet
       /\ offersFixture(filters[h], request.fixture_id, competition)
            => \E q \in quotes : q.house = h

(* What is listed and quoted of a house nobody touched is as it is now,    *)
(* and no house in business is missing; the address of the bet is free.    *)
Listed == pending # NotYet \/ competition # NotYet

MarketInv ==
    /\ print \in Feed \cup {NotYet, NoAccount}
    /\ Listed =>
        /\ pending \subseteq [house : Houses, params : HouseParams]
        /\ print \notin {NotYet, NoAccount}
        /\ \A p \in pending : p.house \notin touched => p.params = houses[p.house].params
        /\ \A h \in Houses \ touched : Exists(houses[h]) /\ ~houses[h].paused => Seen(h)
    /\ quotes \subseteq [house : Houses, effOdds : [Outcomes -> Int]]
    /\ \A q \in quotes :
        q.house \notin touched => q.effOdds[request.outcome] = OddsNow(q.house)
    /\ Committing => pending = {} /\ competition # NotYet /\ cfg # NotYet
    /\ request.bettor \notin touched => ~IsBet(request.bettor, request.nonce)

(* A house tried and left refused the bet, and still would.                *)
PassedOver(h) ==
    touched \cap {h, request.bettor, "config"} = {} => Simulated(OrderFor(h)) # Ok

(* Houses are passed over only for better ones; the one being tried is the *)
(* best of those left, and it is the one answered.                         *)
ChoiceInv ==
    /\ phase \in {"reading", "fees"} => current = NoAccount
    /\ phase = "routing" \/ HasTx =>
        /\ \A q \in quotes \ (untried \cup {current}) : PassedOver(q.house)
        /\ current # NoAccount => \A q \in untried \cup {current} :
                q.effOdds[request.outcome] <= current.effOdds[request.outcome]
    /\ HasTx => current # NoAccount /\ answer.odds = current.effOdds[request.outcome]

PriceInv == Running => MarketInv /\ ChoiceInv

(* An odds quote is a number.                                              *)
LEMMA EffOddsInt ==
    ASSUME NEW params \in HouseParams, NEW book \in FixtureExposure, NEW odds \in Odds,
           NEW o \in Outcomes
    PROVE  EffOdds(params, book, odds, o) \in Int
<1> DEFINE skew == skew_bps(params.skew_coeff_bps, book.liability, o,
                            params.max_risk_per_fixture)
<1>1. /\ params.skew_coeff_bps \in Nat /\ params.max_risk_per_fixture \in Nat
      /\ params.spread_bps \in Nat /\ params.odds_cap \in Nat
  BY DEF HouseParams
<1>2. book.liability \in [Outcomes -> Nat]
  BY ConstantsAssumption DEF FixtureExposure, U64
<1>3. skew \in Nat
  BY <1>1, <1>2, SkewFact
<1>4. odds.prices[o] \in Int
  BY DEF Odds
<1> HIDE DEF skew
<1>5. eff_odds(odds.prices[o], params.spread_bps, skew) \in Int
  <2>1. BPS - Lesser(params.spread_bps + skew, BPS) \in Int
    BY <1>1, <1>3 DEF BPS, Lesser
  <2>2. \A x \in Int, y \in Int : x * y \in Int
    OBVIOUS
  <2>3. \A x \in Int : x \div 10000 \in Int
    OBVIOUS
  <2> QED
    BY <1>4, <2>1, <2>2, <2>3 DEF eff_odds, BPS
<1> QED
  BY <1>1, <1>5 DEF EffOdds, Lesser, skew

(* A step that lists and quotes nothing, and leaves the chain alone.       *)
LEMMA MarketKept ==
    ASSUME MarketInv, UNCHANGED <<vars, request, print, pending, competition, quotes>>,
           touched \subseteq touched',
           Committing' => pending = {} /\ competition # NotYet /\ cfg' # NotYet
    PROVE  MarketInv'
<1>1. \A h : OddsNow(h)' = OddsNow(h)
  BY OddsSame DEF vars
<1>2. Listed' = Listed /\ \A h : Seen(h) => Seen(h)'
  BY DEF Listed, Seen, offersFixture, fixture_offered, Exists, vars
<1>3. IsBet(request.bettor, request.nonce)' = IsBet(request.bettor, request.nonce)
  BY DEF IsBet, Exists, vars
<1>4. \A q \in quotes : q.house \notin touched' =>
            q.effOdds[request.outcome]' = OddsNow(q.house)'
  BY <1>1 DEF MarketInv
<1>5. Listed' =>
        /\ \A p \in pending : p.house \notin touched' => p.params = houses'[p.house].params
        /\ \A h \in Houses \ touched' :
                Exists(houses[h])' /\ ~houses'[h].paused => Seen(h)'
  BY <1>2 DEF MarketInv, Exists, vars
<1>6. request'.bettor \notin touched' => ~IsBet(request.bettor, request.nonce)'
  BY <1>3 DEF MarketInv
<1> QED
  BY <1>2, <1>4, <1>5, <1>6 DEF MarketInv

LEMMA ListingMarket ==
    ASSUME TypeOK, QuotesInv, MarketInv, phase = "reading",
           ReadPrint \/ ReadHouses \/ ReadCompetition
    PROVE  MarketInv'
<1>1. /\ phase' = "reading" /\ ~Committing' /\ UNCHANGED <<vars, touched, request, quotes>>
  BY DEF ReadPrint, ReadHouses, ReadCompetition, Committing, HasTx, worldVars
<1>2. /\ IsBet(request.bettor, request.nonce)' = IsBet(request.bettor, request.nonce)
      /\ request.bettor' \notin touched' => ~IsBet(request.bettor, request.nonce)'
  BY <1>1 DEF IsBet, Exists, vars, MarketInv
<1>3. CASE ReadPrint
  <2>1. ~Listed /\ quotes = {}
    BY <1>3 DEF ReadPrint, MarketInv, Listed, QuotesInv
  <2>2. ~Listed' /\ print' \in Feed \cup {NotYet, NoAccount}
    BY <1>3, <2>1 DEF ReadPrint, NewestPrints, Listed
  <2> QED
    BY <1>1, <1>2, <2>1, <2>2 DEF MarketInv
<1>4. CASE ReadHouses
  <2>1. /\ print' = print /\ competition' = competition /\ print \notin {NotYet, NoAccount}
        /\ pending' = {[house |-> h, params |-> houses[h].params] :
                            h \in {g \in Houses : Exists(houses[g]) /\ ~houses[g].paused}}
    BY <1>4 DEF ReadHouses
  <2>2. pending' \subseteq [house : Houses, params : HouseParams]
    BY <2>1 DEF TypeOK, Exists, House
  <2>3. \A p \in pending' : p.params = houses'[p.house].params
    BY <1>1, <2>1 DEF vars
  <2>4. \A h \in Houses : Exists(houses[h])' /\ ~houses'[h].paused =>
            \E p \in pending' : p.house = h
    <3> SUFFICES ASSUME NEW h \in Houses, Exists(houses[h]), ~houses[h].paused
                 PROVE  \E p \in pending' : p.house = h
      BY <1>1 DEF vars, Exists
    <3>1. [house |-> h, params |-> houses[h].params] \in pending'
      BY <2>1
    <3> QED
      BY <3>1
  <2>5. \A h : OddsNow(h)' = OddsNow(h)
    BY <1>1, <2>1, OddsSame DEF vars
  <2>6. \A q \in quotes' : q.house \notin touched' =>
            q.effOdds[request.outcome]' = OddsNow(q.house)'
    BY <1>1, <2>5 DEF MarketInv
  <2> QED
    BY <1>1, <1>2, <2>1, <2>2, <2>3, <2>4, <2>6 DEF MarketInv, Seen
<1>5. CASE ReadCompetition
  <2>1. /\ print' = print /\ pending' = pending /\ competition = NotYet /\ pending # NotYet
        /\ quotes = {}
    BY <1>5 DEF ReadCompetition, QuotesInv
  <2>2. Listed /\ Listed'
    BY <2>1 DEF Listed
  <2>3. \A h \in Houses \ touched' : Exists(houses[h])' /\ ~houses'[h].paused =>
            \E p \in pending' : p.house = h
    BY <1>1, <2>1, <2>2 DEF MarketInv, Seen, Exists, vars
  <2> QED
    BY <1>1, <1>2, <2>1, <2>2, <2>3 DEF MarketInv, Seen, vars
<1> QED
  BY <1>3, <1>4, <1>5

LEMMA QuoteHouseMarket ==
    ASSUME TypeOK, StakingInv, MarketInv, phase = "reading", QuoteHouse
    PROVE  MarketInv'
<1> DEFINE f == request.fixture_id
           n(p, book) == [house |-> p.house, effOdds |->
                            [o \in Outcomes |-> EffOdds(p.params, book, print, o)]]
<1>1. /\ phase' = "reading" /\ ~Committing' /\ UNCHANGED <<vars, request, print, competition>>
      /\ competition # NotYet
  BY DEF QuoteHouse, Committing, HasTx
<1>2. f \in Fixtures /\ request.outcome \in Outcomes
  BY DEF StakingInv, Request
<1>3. PICK p \in pending : \E rules \in {filters[p.house], NoAccount} :
        \E book \in {BookOf(p.house, f), NewExposure} :
            /\ Misread(p.house, rules # filters[p.house] \/ book # BookOf(p.house, f))
            /\ pending' = pending \ {p}
            /\ quotes' = IF offersFixture(rules, f, competition)
                         THEN quotes \cup {n(p, book)} ELSE quotes
  BY DEF QuoteHouse
<1>4. PICK rules \in {filters[p.house], NoAccount} :
        \E book \in {BookOf(p.house, f), NewExposure} :
            /\ Misread(p.house, rules # filters[p.house] \/ book # BookOf(p.house, f))
            /\ pending' = pending \ {p}
            /\ quotes' = IF offersFixture(rules, f, competition)
                         THEN quotes \cup {n(p, book)} ELSE quotes
  BY <1>3
<1>5. PICK book \in {BookOf(p.house, f), NewExposure} :
        /\ Misread(p.house, rules # filters[p.house] \/ book # BookOf(p.house, f))
        /\ pending' = pending \ {p}
        /\ quotes' = IF offersFixture(rules, f, competition)
                     THEN quotes \cup {n(p, book)} ELSE quotes
  BY <1>4
<1>6. /\ touched \subseteq touched'
      /\ p.house \notin touched' => rules = filters[p.house] /\ book = BookOf(p.house, f)
  BY <1>5 DEF Misread
<1>7. Listed /\ Listed'
  BY <1>1 DEF Listed
<1>8. /\ p \in [house : Houses, params : HouseParams]
      /\ print \in Odds
  BY <1>7, ConstantsAssumption DEF MarketInv
<1>9. p.house \in Houses /\ p.params \in HouseParams /\ book \in FixtureExposure
  <2>1. NewExposure \in FixtureExposure
    BY ConstantsAssumption DEF NewExposure, FixtureExposure, U64
  <2> QED
    BY <1>2, <1>5, <1>8, <2>1, BookType
<1>10. n(p, book) \in [house : Houses, effOdds : [Outcomes -> Int]]
  BY <1>8, <1>9, EffOddsInt
<1>11. \A h : OddsNow(h)' = OddsNow(h)
  BY <1>1, OddsSame DEF vars
<1>12. p.house \notin touched' => n(p, book).effOdds[request.outcome] = OddsNow(p.house)
  <2> SUFFICES ASSUME p.house \notin touched'
               PROVE  n(p, book).effOdds[request.outcome] = OddsNow(p.house)
    OBVIOUS
  <2>1. p.params = houses[p.house].params /\ book = BookOf(p.house, f)
    BY <1>6, <1>7 DEF MarketInv
  <2>2. n(p, book).effOdds[request.outcome] = EffOdds(p.params, book, print, request.outcome)
    BY <1>2
  <2> QED
    BY <2>1, <2>2 DEF OddsNow
<1>13. n(p, book).house = p.house
  OBVIOUS
<1> HIDE DEF n
<1>14. \A q \in quotes' : q.house \notin touched' =>
            q.effOdds[request.outcome]' = OddsNow(q.house)'
  <2>1. quotes' \subseteq quotes \cup {n(p, book)}
    BY <1>5
  <2>2. \A q \in quotes : q.house \notin touched' =>
            q.effOdds[request.outcome] = OddsNow(q.house)
    BY <1>6 DEF MarketInv
  <2>3. \A q \in quotes' : q.house \notin touched' =>
            q.effOdds[request.outcome] = OddsNow(q.house)
    BY <1>12, <1>13, <2>1, <2>2
  <2> QED
    BY <1>1, <1>11, <2>3
<1>15. \A h \in Houses \ touched' : Exists(houses[h])' /\ ~houses'[h].paused => Seen(h)'
  <2> SUFFICES ASSUME NEW h \in Houses \ touched', Exists(houses[h]), ~houses[h].paused
               PROVE  Seen(h)'
    BY <1>1 DEF vars, Exists
  <2>1. Seen(h)
    BY <1>6, <1>7 DEF MarketInv
  <2>2. quotes \subseteq quotes' /\ \A r \in pending : r = p \/ r \in pending'
    BY <1>5
  <2>3. offersFixture(filters[h], f, competition)' = offersFixture(filters[h], f, competition)
    BY <1>1 DEF vars, offersFixture, fixture_offered, Exists
  <2>4. CASE p.house = h
    <3>1. rules = filters[h]
      BY <1>6, <2>4
    <3>2. offersFixture(filters[h], f, competition) => n(p, book) \in quotes'
      BY <1>5, <3>1
    <3> QED
      BY <1>1, <1>13, <2>3, <2>4, <3>2 DEF Seen
  <2>5. CASE p.house # h
    BY <1>1, <2>1, <2>2, <2>3, <2>5 DEF Seen
  <2> QED
    BY <2>4, <2>5
<1>16. quotes' \subseteq [house : Houses, effOdds : [Outcomes -> Int]]
  BY <1>5, <1>10 DEF MarketInv
<1>17. /\ pending' \subseteq pending
       /\ \A r \in pending' : r.house \notin touched' => r.params = houses'[r.house].params
  BY <1>1, <1>5, <1>6, <1>7 DEF MarketInv, vars
<1>18. request.bettor' \notin touched' => ~IsBet(request.bettor, request.nonce)'
  BY <1>1, <1>6 DEF MarketInv, IsBet, Exists, vars
<1> QED
  BY <1>1, <1>7, <1>14, <1>15, <1>16, <1>17, <1>18 DEF MarketInv

LEMMA ChainMarket ==
    ASSUME VaultInv, QuotesInv, StakingInv, MarketInv, Chain
    PROVE  MarketInv'
<1>1. /\ Next /\ UNCHANGED <<request, phase, quoteVars, answer>> /\ Committing' = Committing
  BY DEF Chain, requestVars, Committing, HasTx
<1>2. /\ touched \subseteq touched'
      /\ \A h \in Houses \ touched' :
            /\ houses'[h] = houses[h] /\ filters'[h] = filters[h]
            /\ \A f \in Fixtures : exposures'[<<h, f>>] = exposures[<<h, f>>]
      /\ request.bettor \notin touched' => token'[request.bettor] = token[request.bettor]
  BY UntouchedStays
<1>3. request \in Request /\ request.fixture_id \in Fixtures
  BY DEF StakingInv, Request
<1>4. \A h \in Houses \ touched' : OddsNow(h)' = OddsNow(h)
  BY <1>1, <1>2, <1>3, OddsSame DEF quoteVars
<1>5. \A h \in Houses \ touched' : Seen(h) => Seen(h)'
  BY <1>1, <1>2 DEF Seen, offersFixture, fixture_offered, Exists, quoteVars
<1>6. \A q \in quotes : q.house \in Houses
  BY DEF MarketInv
<1>7. \A q \in quotes' : q.house \notin touched' =>
            q.effOdds[request.outcome]' = OddsNow(q.house)'
  <2>1. \A q \in quotes : q.house \notin touched' =>
            q.effOdds[request.outcome] = OddsNow(q.house)'
    BY <1>2, <1>4, <1>6 DEF MarketInv
  <2> QED
    BY <1>1, <2>1 DEF quoteVars
<1>8. Listed' = Listed
  BY <1>1 DEF Listed, quoteVars
<1>9. Listed' =>
        /\ \A p \in pending' : p.house \notin touched' => p.params = houses'[p.house].params
        /\ \A h \in Houses \ touched' :
                Exists(houses[h])' /\ ~houses'[h].paused => Seen(h)'
  <2> SUFFICES ASSUME Listed
               PROVE  /\ \A p \in pending : p.house \notin touched' =>
                                p.params = houses'[p.house].params
                      /\ \A h \in Houses \ touched' :
                            Exists(houses[h])' /\ ~houses'[h].paused => Seen(h)'
    BY <1>1, <1>8 DEF quoteVars
  <2>1. \A p \in pending : p.house \in Houses
    BY DEF MarketInv
  <2> QED
    BY <1>2, <1>5, <2>1 DEF MarketInv, Exists
<1>10. request.bettor' \notin touched' => ~IsBet(request.bettor, request.nonce)'
  <2> SUFFICES ASSUME request.bettor \notin touched'
               PROVE  ~IsBet(request.bettor, request.nonce)'
    BY <1>1
  <2>1. request.bettor \in Bettors /\ request.nonce \in Nonces
    BY <1>3 DEF Request
  <2>2. ~IsBet(request.bettor, request.nonce) /\ token'[request.bettor] = token[request.bettor]
    BY <1>2 DEF MarketInv
  <2>3. PICK b \in Bettors, k \in Nonces : b = request.bettor /\ k = request.nonce
    BY <2>1
  <2>4. ~IsBet(b, k)'
    BY <1>1, <2>2, <2>3, SlotStays DEF VaultInv
  <2> QED
    BY <1>1, <2>3, <2>4 DEF IsBet
<1> QED
  BY <1>1, <1>7, <1>8, <1>9, <1>10 DEF MarketInv, quoteVars

-----------------------------------------------------------------------------
(* Passing houses over *)

(* The order simulated for a house.                                        *)
LEMMA OrderFact ==
    ASSUME StakingInv, Committing, NEW h \in Houses
    PROVE  /\ OrderFor(h) \in Slip
           /\ OrderFor(h).house = h /\ OrderFor(h).bettor = request.bettor
           /\ OrderFor(h).fixture_id = request.fixture_id
           /\ OrderFor(h).frontend = frontend /\ OrderFor(h).nonce = request.nonce
<1>1. request \in Request /\ frontend \in Frontends /\ fixture \in FixtureEntry /\ s \in Nat
  BY DEF StakingInv, StakeInv
<1> QED
  BY <1>1 DEF OrderFor, Slip, Request, FixtureEntry

(* The order by any other name.                                            *)
OrdersNamed == \A h, order : order = OrderFor(h) => Simulated(order) = Simulated(OrderFor(h))

LEMMA NamedOrder == OrdersNamed
  BY DEF OrdersNamed

(* A house passed over stays so, whoever moves.                            *)
LEMMA ChainPassesOver ==
    ASSUME VaultInv, StakingInv, MarketInv, Committing, Chain,
           NEW h \in Houses, PassedOver(h)
    PROVE  PassedOver(h)'
<1> SUFFICES ASSUME touched' \cap {h, request.bettor, "config"} = {}, Simulated(OrderFor(h))' = Ok
             PROVE  FALSE
  BY DEF PassedOver, Chain, requestVars
<1>1. /\ Next /\ UNCHANGED <<request, frontend, fixture, s, cfg>>
  BY DEF Chain, requestVars, quoteVars, feesVars
<1>2. VaultInv'
  BY <1>1, NextVaultInv
<1>3. /\ touched \subseteq touched' /\ h \notin touched'
      /\ request.bettor \notin touched' /\ "config" \notin touched'
  BY UntouchedStays
<1>4. PICK order \in Slip : order = OrderFor(h)
  BY OrderFact
<1>5. /\ order.house = h /\ order.bettor = request.bettor
      /\ order.fixture_id = request.fixture_id
      /\ order.frontend = frontend /\ order.nonce = request.nonce
  BY <1>4, OrderFact
<1>6. OrderFor(h)' = order
  BY <1>1, <1>4 DEF OrderFor
<1>7. Simulated(order)' = Ok
  <2>1. OrdersNamed'
    BY NamedOrder, PTL
  <2> QED
    BY <1>6, <2>1 DEF OrdersNamed
<1>8. request.fixture_id \in Fixtures /\ cfg # NotYet
  BY DEF StakingInv, Request, MarketInv
<1>9. /\ houses'[h] = houses[h] /\ filters'[h] = filters[h] /\ token'[h] = token[h]
      /\ exposures'[<<h, request.fixture_id>>] = exposures[<<h, request.fixture_id>>]
      /\ token'[request.bettor] = token[request.bettor] /\ config' = config
  BY <1>3, <1>8, UntouchedStays
<1>10. ~IsBet(request.bettor, request.nonce)
  BY <1>3 DEF MarketInv
<1>11. frontends'[frontend] = frontends[frontend]
  BY <1>1, FrontendsStay DEF StakingInv, VaultInv
<1>12. unix_timestamp <= unix_timestamp'
  BY <1>1, ClockForward DEF VaultInv
<1>13. Simulated(order) = Ok
  BY <1>1, <1>2, <1>5, <1>7, <1>9, <1>10, <1>11, <1>12, RefusalStays DEF VaultInv
<1> QED
  BY <1>3, <1>4, <1>13 DEF PassedOver

(* A step of the request leaves the simulations as they were.              *)
LEMMA SimulatedSame ==
    ASSUME UNCHANGED <<vars, request>>, NEW order
    PROVE  Simulated(order)' = Simulated(order)
<1>1. CommitChecks(order)' = CommitChecks(order)
  BY DEF CommitChecks, CanCommit, CommittedBook, BookOf, NewExposure, Exists, Resynced,
         Reservation, Offered, WithinRisk, EscrowTotal, FrontendFeeOf, ProtocolFeeOf,
         KeeperEscrow, TruncatedFee, IsBet, now_ms, vars
<1> QED
  BY <1>1 DEF Simulated

LEMMA RoutedSame ==
    ASSUME UNCHANGED <<vars, request, frontend, fixture, s>>, NEW h
    PROVE  Simulated(OrderFor(h))' = Simulated(OrderFor(h))
<1>1. PICK order : order = OrderFor(h)
  OBVIOUS
<1>2. OrderFor(h)' = order
  BY <1>1 DEF OrderFor
<1>3. Simulated(order)' = Simulated(order)
  BY SimulatedSame
<1>4. OrdersNamed'
  BY NamedOrder, PTL
<1> QED
  BY <1>1, <1>2, <1>3, <1>4 DEF OrdersNamed

LEMMA PassedOverKept ==
    ASSUME UNCHANGED <<vars, request, frontend, fixture, s>>, touched \subseteq touched',
           NEW h, PassedOver(h)
    PROVE  PassedOver(h)'
  BY RoutedSame DEF PassedOver

-----------------------------------------------------------------------------
(* No step of the request or of others breaks the invariant of the choice  *)

LEMMA InitPriceInv == RouterInit => PriceInv
<1> SUFFICES ASSUME RouterInit
             PROVE  MarketInv /\ ChoiceInv
  BY DEF PriceInv
<1>1. /\ phase = "reading" /\ ~Committing /\ ~HasTx /\ current = NoAccount
      /\ ~Listed /\ quotes = {} /\ print = NotYet /\ ~IsBet(request.bettor, request.nonce)
  BY DEF RouterInit, Committing, HasTx, Listed
<1> QED
  BY <1>1 DEF MarketInv, ChoiceInv

(* An answer other than a transaction ends the request.                    *)
LEMMA NotATransaction ==
    ASSUME NEW kind, kind # "tx", answer'.kind = kind, phase' = "answered"
    PROVE  PriceInv'
  BY DEF PriceInv, Running, HasTx

LEMMA ReadingPrice ==
    ASSUME VaultInv, QuotesInv, StakingInv, MarketInv, ChoiceInv,
           \/ ReadFixture \/ ReadConfig \/ ReadPrint \/ ReadHouses \/ ReadCompetition
           \/ QuoteHouse
    PROVE  PriceInv'
<1>1. phase = "reading" /\ phase' = "reading" /\ ~HasTx' /\ ~Committing' /\ UNCHANGED current
  BY DEF ReadFixture, ReadConfig, ReadPrint, ReadHouses, ReadCompetition, QuoteHouse,
         loopVars, HasTx, Committing
<1>2. ChoiceInv'
  BY <1>1 DEF ChoiceInv
<1>3. CASE ReadFixture \/ ReadConfig
  <2>1. UNCHANGED <<vars, touched, request, print, pending, competition, quotes>>
    BY <1>3 DEF ReadFixture, ReadConfig, worldVars
  <2>2. MarketInv'
    BY <1>1, <2>1, MarketKept
  <2> QED
    BY <1>2, <2>2 DEF PriceInv
<1>4. CASE ReadPrint \/ ReadHouses \/ ReadCompetition
  BY <1>1, <1>2, <1>4, ListingMarket DEF PriceInv, VaultInv
<1>5. CASE QuoteHouse
  BY <1>1, <1>2, <1>5, QuoteHouseMarket DEF PriceInv, VaultInv
<1> QED
  BY <1>3, <1>4, <1>5

LEMMA FailedPrice ==
    ASSUME ReadFails \/ NoMarket
    PROVE  PriceInv'
<1>1. /\ answer'.kind \in {"failed", "no fixture", "no quotes", "no frontend"}
      /\ phase' = "answered"
  <2>1. CASE ReadFails
    BY <2>1, Refused DEF ReadFails
  <2>2. CASE NoMarket
    <3> DEFINE kind == CASE ~Exists(fixture) -> "no fixture"
                         [] Exists(fixture) /\ ~Exists(print) -> "no quotes"
                         [] OTHER -> "no frontend"
    <3>1. kind \in {"no fixture", "no quotes", "no frontend"}
      OBVIOUS
    <3>2. Refuse(kind)
      BY <2>2 DEF NoMarket
    <3> HIDE DEF kind
    <3> QED
      BY <3>1, <3>2, Refused
  <2> QED
    BY <2>1, <2>2
<1> QED
  BY <1>1, NotATransaction

LEMMA StakingPrice ==
    ASSUME MarketInv, ChoiceInv, QuotesInv, ReadFrontend \/ StakeForCharge \/ StakeFound
    PROVE  PriceInv'
<1>1. CASE ReadFrontend
  <2>1. /\ phase' = "fees" /\ phase = "reading" /\ pending = {} /\ competition # NotYet
        /\ cfg # NotYet
        /\ UNCHANGED <<vars, touched, request, print, pending, competition, quotes, cfg, current>>
    BY <1>1 DEF ReadFrontend, MarketRead, Exists, worldVars, loopVars
  <2>2. MarketInv'
    BY <2>1, MarketKept
  <2>3. ChoiceInv'
    BY <2>1 DEF ChoiceInv, HasTx
  <2> QED
    BY <2>2, <2>3 DEF PriceInv
<1>2. CASE StakeForCharge
  <2>1. /\ phase' = "fees" /\ phase = "fees"
        /\ UNCHANGED <<vars, touched, request, print, pending, competition, quotes, cfg, current>>
    BY <1>2 DEF StakeForCharge, worldVars, quoteVars, loopVars
  <2>2. MarketInv'
    BY <2>1, MarketKept DEF MarketInv, Committing
  <2>3. ChoiceInv'
    BY <2>1 DEF ChoiceInv, HasTx
  <2> QED
    BY <2>2, <2>3 DEF PriceInv
<1>3. CASE StakeFound /\ s = 0
  <2>1. answer'.kind = "too small" /\ phase' = "answered"
    BY <1>3, Refused DEF StakeFound
  <2> QED
    BY <2>1, NotATransaction
<1>4. CASE StakeFound /\ s # 0
  <2>1. /\ phase' = "routing" /\ phase = "fees" /\ untried' = quotes
        /\ UNCHANGED <<vars, touched, request, print, pending, competition, quotes, cfg, current>>
    BY <1>4 DEF StakeFound, worldVars, quoteVars
  <2>2. MarketInv'
    BY <2>1, MarketKept DEF MarketInv, Committing
  <2>3. current' = NoAccount /\ ~HasTx'
    BY <2>1 DEF ChoiceInv, HasTx
  <2>4. ChoiceInv'
    BY <2>1, <2>3 DEF ChoiceInv
  <2> QED
    BY <2>2, <2>4 DEF PriceInv
<1> QED
  BY <1>1, <1>2, <1>3, <1>4

LEMMA ReadHeadroomPrice ==
    ASSUME MarketInv, ChoiceInv, QuotesInv, ReadHeadroom
    PROVE  PriceInv'
<1>1. PICK q \in BestOf(untried) :
        \E book \in {BookOf(q.house, request.fixture_id), NewExposure} :
            /\ Misread(q.house, book # BookOf(q.house, request.fixture_id))
            /\ current' = q
            /\ untried' = untried \ {q}
            /\ bestMax' = Max({bestMax, MaxSpend(q.house, book)})
  BY DEF ReadHeadroom
<1>2. /\ phase = "routing" /\ phase' = "routing" /\ current = NoAccount
      /\ UNCHANGED <<vars, request, print, pending, competition, quotes, cfg, frontend,
                     fixture, s, answer>>
  BY DEF ReadHeadroom, quoteVars, feesVars
<1>3. /\ current' = q /\ untried' = untried \ {q} /\ touched \subseteq touched'
      /\ q \in untried
      /\ \A other \in untried :
            other.effOdds[request.outcome] <= q.effOdds[request.outcome]
  BY <1>1 DEF BestOf, Misread
<1>4. MarketInv'
  BY <1>2, <1>3, MarketKept DEF MarketInv, Committing
<1>5. \A other \in quotes' \ (untried' \cup {current'}) : PassedOver(other.house)'
  <2> SUFFICES ASSUME NEW other \in quotes \ (untried \cup {q})
               PROVE  PassedOver(other.house)'
    BY <1>2, <1>3
  <2>1. other # current
    BY <1>2, RouterAssumption DEF MarketInv
  <2>2. PassedOver(other.house)
    BY <1>2, <2>1 DEF ChoiceInv
  <2> QED
    BY <1>2, <1>3, <2>2, PassedOverKept
<1>6. \A other \in untried' \cup {current'} :
        other.effOdds[request'.outcome] <= current'.effOdds[request'.outcome]
  <2>1. untried' \cup {current'} \subseteq untried /\ request' = request /\ current' = q
    BY <1>2, <1>3
  <2> QED
    BY <1>3, <2>1
<1>7. ChoiceInv'
  <2>1. phase' = "routing" /\ ~HasTx'
    BY <1>2 DEF HasTx
  <2> QED
    BY <1>5, <1>6, <2>1 DEF ChoiceInv
<1> QED
  BY <1>4, <1>7 DEF PriceInv

LEMMA SimulatePrice ==
    ASSUME MarketInv, ChoiceInv, QuotesInv, Simulate
    PROVE  PriceInv'
<1>1. /\ phase = "routing" /\ current # NoAccount
      /\ UNCHANGED <<vars, touched, request, print, pending, competition, quotes, cfg,
                     frontend, fixture, s, untried>>
  BY DEF Simulate, worldVars, quoteVars, feesVars
<1> DEFINE code == Simulated(OrderFor(current.house))
<1>2. MarketInv'
  BY <1>1, MarketKept DEF MarketInv, Committing
<1>3. \A h : PassedOver(h) => PassedOver(h)'
  BY <1>1, PassedOverKept
<1>4. \/ Refuse(IF code = NoCode THEN "no SOL" ELSE "kicked off")
      \/ /\ Respond("tx", current.house, current.effOdds[request.outcome], 0)
         /\ UNCHANGED <<current, capacityBlocked>>
      \/ code # Ok /\ current' = NoAccount /\ UNCHANGED <<answer, phase>>
  BY DEF Simulate
<1>5. CASE Refuse(IF code = NoCode THEN "no SOL" ELSE "kicked off")
  <2>1. answer'.kind \in {"no SOL", "kicked off"} /\ phase' = "answered"
    <3> HIDE DEF code
    <3> QED
      BY <1>5, Refused
  <2> QED
    BY <2>1, NotATransaction
<1>6. CASE /\ Respond("tx", current.house, current.effOdds[request.outcome], 0)
           /\ UNCHANGED <<current, capacityBlocked>>
  <2>1. /\ phase' = "answered" /\ answer'.odds = current.effOdds[request.outcome]
        /\ UNCHANGED current
    BY <1>6 DEF Respond
  <2>2. \A q \in quotes' \ (untried' \cup {current'}) : PassedOver(q.house)'
    BY <1>1, <1>3, <2>1 DEF ChoiceInv
  <2>3. ChoiceInv'
    BY <1>1, <2>1, <2>2 DEF ChoiceInv
  <2> QED
    BY <1>2, <2>3 DEF PriceInv
<1>7. CASE code # Ok /\ current' = NoAccount /\ UNCHANGED <<answer, phase>>
  <2>1. PassedOver(current.house)
    BY <1>7 DEF PassedOver
  <2>2. \A q \in quotes' \ (untried' \cup {current'}) : PassedOver(q.house)'
    <3> SUFFICES ASSUME NEW q \in quotes \ untried
                 PROVE  PassedOver(q.house)'
      BY <1>1
    <3>1. CASE q = current
      BY <1>3, <2>1, <3>1
    <3>2. CASE q # current
      BY <1>1, <1>3, <3>2 DEF ChoiceInv
    <3> QED
      BY <3>1, <3>2
  <2>3. ChoiceInv'
    BY <1>1, <1>7, <2>2 DEF ChoiceInv, HasTx
  <2> QED
    BY <1>2, <2>3 DEF PriceInv
<1> HIDE DEF code
<1> QED
  BY <1>4, <1>5, <1>6, <1>7

LEMMA NoHousePrice ==
    ASSUME NoHouse
    PROVE  PriceInv'
<1>1. answer'.kind \in {"capacity", "refused"} /\ phase' = "answered"
  BY Refused, Responded DEF NoHouse
<1> QED
  BY <1>1, NotATransaction

LEMMA ChainPrice ==
    ASSUME VaultInv, QuotesInv, StakingInv, MarketInv, ChoiceInv, Chain
    PROVE  PriceInv'
<1>1. MarketInv'
  BY ChainMarket
<1>2. UNCHANGED <<request, phase, quotes, untried, current, answer>> /\ HasTx' = HasTx
  BY DEF Chain, requestVars, quoteVars, loopVars, HasTx
<1>3. ASSUME phase = "routing" \/ HasTx
      PROVE  \A q \in quotes \ (untried \cup {current}) : PassedOver(q.house)'
  <2> SUFFICES ASSUME NEW q \in quotes \ (untried \cup {current})
               PROVE  PassedOver(q.house)'
    OBVIOUS
  <2>1. PassedOver(q.house) /\ q.house \in Houses /\ Committing
    BY <1>3 DEF ChoiceInv, MarketInv, Committing
  <2> QED
    BY <2>1, ChainPassesOver
<1>4. ChoiceInv'
  BY <1>2, <1>3 DEF ChoiceInv
<1> QED
  BY <1>1, <1>4 DEF PriceInv

LEMMA OutsidePrice ==
    ASSUME MarketInv, ChoiceInv, QuotesInv, Relist \/ UNCHANGED routerVars
    PROVE  PriceInv'
<1>1. UNCHANGED <<vars, touched, request, phase, print, pending, competition, quotes, cfg,
                  frontend, fixture, s, untried, current, answer>>
  BY DEF Relist, routerVars, requestVars, worldVars, quoteVars, loopVars, feesVars
<1>2. MarketInv'
  BY <1>1, MarketKept DEF MarketInv, Committing, HasTx
<1>3. \A h : PassedOver(h) => PassedOver(h)'
  BY <1>1, PassedOverKept
<1>4. ChoiceInv'
  BY <1>1, <1>3 DEF ChoiceInv, HasTx
<1> QED
  BY <1>2, <1>4 DEF PriceInv

(* Nothing moves a request that is over.                                   *)
LEMMA OverIsOver ==
    ASSUME ~Running, [RouterNext]_routerVars
    PROVE  UNCHANGED routerVars
<1>1. phase \notin {"reading", "fees", "routing"} /\ ~HasTx
  BY DEF Running
<1>2. ~RequestNext
  BY <1>1 DEF RequestNext, ReadFixture, ReadConfig, ReadPrint, ReadHouses, ReadCompetition,
              QuoteHouse, ReadFails, ReadsLeft, NoMarket, ReadFrontend, StakeForCharge, StakeFound,
              ReadHeadroom, Simulate, NoHouse
<1> QED
  BY <1>1, <1>2 DEF RouterNext, Land, GiveUp, Chain, Relist, Running

LEMMA NextPriceInv == RouterInv /\ PriceInv /\ [RouterNext]_routerVars => PriceInv'
<1> SUFFICES ASSUME RouterInv, PriceInv, [RouterNext]_routerVars
             PROVE  PriceInv'
  OBVIOUS
<1>1. CASE ~Running
  <2>1. UNCHANGED <<phase, answer>>
    BY <1>1, OverIsOver DEF routerVars, requestVars
  <2> QED
    BY <1>1, <2>1 DEF PriceInv, Running, HasTx
<1>2. CASE Running
  <2>1. VaultInv /\ QuotesInv /\ StakingInv /\ MarketInv /\ ChoiceInv
    BY <1>2 DEF RouterInv, PriceInv, Running, HasTx
  <2>2. CASE RequestNext
    BY <2>1, <2>2, ReadingPrice, FailedPrice, StakingPrice, ReadHeadroomPrice,
       SimulatePrice, NoHousePrice DEF RequestNext
  <2>3. CASE Land \/ GiveUp
    BY <2>3 DEF Land, GiveUp, PriceInv, Running, HasTx
  <2>4. CASE Chain \/ Relist \/ UNCHANGED routerVars
    BY <2>1, <2>4, ChainPrice, OutsidePrice
  <2> QED
    BY <2>2, <2>3, <2>4 DEF RouterNext
<1> QED
  BY <1>1, <1>2

(* Whoever moves while the market is read and the houses are tried: no     *)
(* house that nobody touched would take the bet at better odds than the    *)
(* ones answered.                                                          *)
THEOREM AlwaysBestPriceFirst == RouterSpec => []BestPriceFirst
<1>1. RouterInv /\ PriceInv => BestPriceFirst
  <2> SUFFICES ASSUME RouterInv, PriceInv, HasTx,
                      touched \cap {request.bettor, "config"} = {},
                      competition \in {fixture.CompetitionId, NoAccount},
                      NEW h \in Houses \ touched, Exists(houses[h]), TakesIt(h)
               PROVE  OddsNow(h) <= answer.odds
    BY DEF BestPriceFirst
  <2>1. StakingInv /\ MarketInv /\ ChoiceInv /\ Committing
    BY DEF RouterInv, PriceInv, Running, HasTx, Committing
  <2>2. ~houses[h].paused /\ Allowed(h) /\ Simulated(OrderFor(h)) = Ok
    BY DEF TakesIt
  <2>3. offersFixture(filters[h], request.fixture_id, competition)
    BY <2>2 DEF Allowed, offersFixture
  <2>4. pending = {} /\ competition # NotYet /\ Seen(h)
    BY <2>1, <2>2 DEF MarketInv, Listed
  <2>5. PICK q \in quotes : q.house = h
    BY <2>3, <2>4 DEF Seen
  <2>6. q.effOdds[request.outcome] = OddsNow(h)
    BY <2>1, <2>5 DEF MarketInv
  <2>7. ~PassedOver(h)
    BY <2>2 DEF PassedOver
  <2>8. q \in untried \cup {current}
    BY <2>1, <2>5, <2>7 DEF ChoiceInv
  <2> QED
    BY <2>1, <2>6, <2>8 DEF ChoiceInv
<1>2. RouterSpec => []PriceInv
  <2>1. RouterInit => PriceInv
    BY InitPriceInv
  <2> QED
    BY <2>1, NextPriceInv, RouterInvHolds, PTL DEF RouterSpec
<1> QED
  BY <1>1, <1>2, RouterInvHolds, PTL

-----------------------------------------------------------------------------
(* The invariant of a request in an idle market: every house listed is     *)
(* open, the config is the one read, and the maximum named is the spend    *)
(* for the room of a house quoted, kept only for a request that has SOL.   *)
OpenHouse(h) == h \in Houses /\ Exists(houses[h]) /\ ~houses[h].paused

MaximumInv ==
    /\ phase \in {"reading", "fees"} => bestMax = 0 /\ ~capacityBlocked
    /\ capacityBlocked => request.hasSol
    /\ bestMax = 0 \/ \E q \in quotes :
            bestMax = MaxSpend(q.house, BookOf(q.house, request.fixture_id))

IdleInv ==
    /\ touched = {} /\ ParamsValid
    /\ cfg # NotYet => config = cfg
    /\ Listed => \A p \in pending : OpenHouse(p.house)
    /\ \A q \in quotes : OpenHouse(q.house)
    /\ MaximumInv

GuideInv == moves \in Nat /\ (Running /\ moves = 0 => IdleInv)

(* Balances are u64 with room for what a book may have to pay beside what  *)
(* its vault holds, and the clock is far from the end of i64.              *)
AmountsFit ==
    /\ \A b \in Bettors : token[b] \in U64
    /\ \A h \in Houses, f \in Fixtures, o \in Outcomes :
            BookOf(h, f).liability[o] + token[h] \in U64
    /\ Exists(config) => now_ms + config.commit_delay_ms <= MaxI64

(* The room of a house, when there is any, is within its three bounds.     *)
LEMMA LargestOfTwo ==
    ASSUME NEW a \in Int, NEW b \in Int
    PROVE  Max({a, b}) = IF a <= b THEN b ELSE a
<1>1. \E x \in {a, b} : \A y \in {a, b} : x >= y
  OBVIOUS
<1> QED
  BY <1>1 DEF Max

LEMMA LeastOfThree ==
    ASSUME NEW a \in Int, NEW b \in Int, NEW c \in Int
    PROVE  /\ Min({a, b, c}) \in {a, b, c}
           /\ Min({a, b, c}) <= a /\ Min({a, b, c}) <= b /\ Min({a, b, c}) <= c
<1>1. \E x \in {a, b, c} : \A y \in {a, b, c} : x <= y
  OBVIOUS
<1> QED
  BY <1>1 DEF Min

LEMMA HeadroomIs ==
    ASSUME TypeOK, NEW h \in Houses, Exists(houses[h]), NEW book \in FixtureExposure
    PROVE  /\ Headroom(h, book) \in Nat
           /\ Headroom(h, book) > 0 =>
                /\ Headroom(h, book) + book.locked <= houses[h].params.max_risk_per_fixture
                /\ Headroom(h, book) + houses[h].total_locked <= houses[h].params.max_total_risk
                /\ Headroom(h, book) + houses[h].total_locked <= token[h]
<1> DEFINE a == houses[h].params.max_risk_per_fixture - book.locked
           b == houses[h].params.max_total_risk - houses[h].total_locked
           c == token[h] - houses[h].total_locked
<1>1. /\ houses[h].params.max_risk_per_fixture \in Nat
      /\ houses[h].params.max_total_risk \in Nat
      /\ houses[h].total_locked \in Nat /\ token[h] \in Nat /\ book.locked \in Nat
  BY AccountsFact, ConstantsAssumption
     DEF TypeOK, Exists, House, HouseParams, FixtureExposure, U64
<1>2. a \in Int /\ b \in Int /\ c \in Int
  BY <1>1
<1>3. Headroom(h, book) = Max({0, Min({a, b, c})})
  BY DEF Headroom
<1>4. /\ Min({a, b, c}) \in Int
      /\ Min({a, b, c}) <= a /\ Min({a, b, c}) <= b /\ Min({a, b, c}) <= c
  BY <1>2, LeastOfThree
<1> HIDE DEF a, b, c
<1>5. Headroom(h, book) = IF 0 <= Min({a, b, c}) THEN Min({a, b, c}) ELSE 0
  <2> DEFINE least == Min({a, b, c})
  <2>1. least \in Int /\ Headroom(h, book) = Max({0, least})
    BY <1>3, <1>4
  <2> HIDE DEF least
  <2>2. Headroom(h, book) = IF 0 <= least THEN least ELSE 0
    BY <2>1, LargestOfTwo
  <2> QED
    BY <2>2 DEF least
<1>6. /\ Headroom(h, book) \in Nat
      /\ Headroom(h, book) > 0 =>
            Headroom(h, book) <= a /\ Headroom(h, book) <= b /\ Headroom(h, book) <= c
  BY <1>2, <1>4, <1>5
<1> QED
  BY <1>1, <1>6 DEF a, b, c

LEMMA MaxSpendNat ==
    ASSUME TypeOK, ParamsValid, m \in FeeModel, NEW h \in Houses, Exists(houses[h]),
           NEW book \in FixtureExposure
    PROVE  /\ houses[h].params.odds_cap \in Nat \ {0}
           /\ (Headroom(h, book) * ODDS_SCALE) \div houses[h].params.odds_cap \in Nat
           /\ MaxSpend(h, book) \in Nat
<1>1. houses[h].params.odds_cap \in Nat \ {0}
  BY DEF ParamsValid, validate, TypeOK, Exists, House, HouseParams, ODDS_SCALE
<1>2. Headroom(h, book) * ODDS_SCALE \in Nat
  BY HeadroomIs DEF ODDS_SCALE
<1>3. (Headroom(h, book) * ODDS_SCALE) \div houses[h].params.odds_cap \in Nat
  BY <1>1, <1>2, DivFact
<1> QED
  BY <1>1, <1>3, ChargeMonotone DEF MaxSpend

(* A larger stake is debited more.                                         *)
LEMMA ChargeGrows ==
    ASSUME m \in FeeModel, NEW a \in Nat, NEW b \in Nat, a < b
    PROVE  chargeForStake(a) < chargeForStake(b)
<1> DEFINE f == m.frontendFeeBps
           p == m.protocolFeeBps
<1>1. f \in Nat /\ p \in Nat /\ m.keeperUusdc \in Nat /\ a <= b
  BY DEF FeeModel
<1>2. FeeOf(a, f) \in Nat /\ FeeOf(b, f) \in Nat /\ FeeOf(a, f) <= FeeOf(b, f)
  BY <1>1, FeeMonotone
<1>3. FeeOf(a, p) \in Nat /\ FeeOf(b, p) \in Nat /\ FeeOf(a, p) <= FeeOf(b, p)
  BY <1>1, FeeMonotone
<1> HIDE DEF f, p
<1>4. /\ chargeForStake(a) = a + (FeeOf(a, f) + FeeOf(a, p) + m.keeperUusdc)
      /\ chargeForStake(b) = b + (FeeOf(b, f) + FeeOf(b, p) + m.keeperUusdc)
  BY DEF chargeForStake, feesOnStake, f, p
<1> QED
  BY <1>1, <1>2, <1>3, <1>4

(* The stake a spend comes to is debited at most that.                     *)
LEMMA StakeOfIs ==
    ASSUME NEW spend \in Nat, StakeOf(spend) > 0
    PROVE  StakeOf(spend) \in 1..spend /\ chargeForStake(StakeOf(spend)) <= spend
<1> DEFINE S == {0} \cup {stake \in 1..spend : chargeForStake(stake) <= spend}
           N == {spend - x : x \in S}
<1>1. S \subseteq 0..spend /\ 0 \in S
  OBVIOUS
<1>2. N \in SUBSET Nat /\ N # {}
  BY <1>1
<1>3. PICK n \in N : \A k \in N : n <= k
  BY <1>2, LeastNatural
<1>4. PICK top \in S : n = spend - top
  OBVIOUS
<1>5. \A x \in S : top >= x
  <2> SUFFICES ASSUME NEW x \in S
               PROVE  top >= x
    OBVIOUS
  <2>1. spend - x \in N
    OBVIOUS
  <2> HIDE DEF N, S
  <2> QED
    BY <1>1, <1>3, <1>4, <2>1
<1> HIDE DEF S, N
<1>6. Max(S) \in S
  BY <1>4, <1>5 DEF Max
<1>7. StakeOf(spend) \in S
  BY <1>6 DEF StakeOf, S
<1> QED
  BY <1>7 DEF S

(* A reservation raises the lock of a book by no more than itself.         *)
LEMMA LockGrowth ==
    ASSUME NEW L \in [Outcomes -> Nat], NEW o \in Outcomes, NEW r \in Nat, NEW c \in Nat
    PROVE  LET raised == [L EXCEPT ![o] = @ + r]
           IN  /\ locked(L, c) \in Nat /\ locked(raised, c) \in Nat
               /\ locked(L, c) <= locked(raised, c) /\ locked(raised, c) <= locked(L, c) + r
<1> DEFINE raised == [L EXCEPT ![o] = @ + r]
<1>1. raised \in [Outcomes -> Nat]
  OBVIOUS
<1>2. \A x \in Outcomes : L[x] <= raised[x] /\ raised[x] <= L[x] + r
  OBVIOUS
<1> HIDE DEF raised
<1>3. Heaviest(L) \in Nat /\ Heaviest(raised) \in Nat
  BY <1>1, HeaviestIs
<1>4. Heaviest(L) <= Heaviest(raised)
  <2>1. PICK x \in Outcomes : L[x] = Heaviest(L)
    BY HeaviestIs
  <2>2. raised[x] <= Heaviest(raised) /\ L[x] <= raised[x] /\ raised[x] \in Nat /\ L[x] \in Nat
    BY <1>1, <1>2, HeaviestIs
  <2> QED
    BY <1>3, <2>1, <2>2
<1>5. Heaviest(raised) <= Heaviest(L) + r
  <2>1. PICK x \in Outcomes : raised[x] = Heaviest(raised)
    BY <1>1, HeaviestIs
  <2>2. L[x] <= Heaviest(L) /\ raised[x] <= L[x] + r /\ raised[x] \in Nat /\ L[x] \in Nat
    BY <1>1, <1>2, HeaviestIs
  <2> QED
    BY <1>3, <2>1, <2>2
<1>6. /\ locked(L, c) \in Nat /\ locked(raised, c) \in Nat
      /\ locked(L, c) <= locked(raised, c) /\ locked(raised, c) <= locked(L, c) + r
  BY <1>3, <1>4, <1>5 DEF locked, SatSub
<1> QED
  BY <1>6 DEF raised

(* A reservation that fits in the room of its house passes its risk checks. *)
LEMMA RoomIsEnough ==
    ASSUME TypeOK, LocksInSync, AmountsFit, NEW order \in Slip, Exists(houses[order.house]),
           Reservation(order) \in Nat,
           Headroom(order.house, BookOf(order.house, order.fixture_id)) > 0,
           Reservation(order) <= Headroom(order.house, BookOf(order.house, order.fixture_id))
    PROVE  LET e == CommittedBook(order)
           IN  /\ BookOf(order.house, order.fixture_id).liability[order.outcome]
                    + Reservation(order) \in U64
               /\ Resynced(order.house, e) \in U64
               /\ WithinRisk(order.house, locked(e.liability, e.stakes_collected),
                             Resynced(order.house, e))
<1> DEFINE h == order.house
           f == order.fixture_id
           o == order.outcome
           r == Reservation(order)
           book == BookOf(h, f)
           room == Headroom(h, book)
           e == CommittedBook(order)
           lock == locked(e.liability, e.stakes_collected)
           total == houses[h].total_locked
<1>1. h \in Houses /\ f \in Fixtures /\ o \in Outcomes
  BY DEF Slip
<1>2. /\ book \in FixtureExposure /\ book.locked \in Nat /\ book.stakes_collected \in Nat
      /\ book.liability[o] \in Nat /\ book.liability \in [Outcomes -> Nat]
  BY <1>1, BookType, ConstantsAssumption DEF FixtureExposure, U64
<1>3. /\ room \in Nat /\ r \in Nat /\ r <= room
      /\ room + book.locked <= houses[h].params.max_risk_per_fixture
      /\ room + total <= houses[h].params.max_total_risk /\ room + total <= token[h]
  BY <1>1, <1>2, HeadroomIs
<1>4. /\ total \in Nat /\ token[h] \in Nat
      /\ houses[h].params.max_risk_per_fixture \in Nat
      /\ houses[h].params.max_total_risk \in Nat
  BY <1>1, AccountsFact, ConstantsAssumption DEF TypeOK, Exists, House, HouseParams, U64
<1>5. book.liability[o] + token[h] \in U64
  BY <1>1 DEF AmountsFit
<1>6. book.locked = locked(book.liability, book.stakes_collected)
  <2>1. CASE Exists(exposures[<<h, f>>])
    BY <1>1, <2>1 DEF BookOf, LocksInSync
  <2>2. CASE ~Exists(exposures[<<h, f>>])
    <3>1. book = NewExposure
      BY <2>2 DEF BookOf
    <3>2. book.locked = 0 /\ book.stakes_collected = 0
      BY <3>1 DEF NewExposure
    <3>3. \A x \in Outcomes : book.liability[x] = 0
      BY <3>1 DEF NewExposure
    <3> HIDE DEF book
    <3>4. Heaviest(book.liability) = 0
      BY <1>2, <3>3, HeaviestIs
    <3> QED
      BY <3>2, <3>4 DEF locked, SatSub
  <2> QED
    BY <2>1, <2>2
<1>7. /\ e.liability = [book.liability EXCEPT ![o] = @ + r]
      /\ e.stakes_collected = book.stakes_collected /\ e.locked = book.locked
  <2>1. e = [book EXCEPT !.liability[o] = @ + r, !.open_bets = @ + 1]
    BY DEF CommittedBook
  <2> HIDE DEF e, book, r
  <2> QED
    BY <1>2, <2>1 DEF FixtureExposure
<1>8. lock \in Nat /\ book.locked <= lock /\ lock <= book.locked + r
  <2> HIDE DEF book, r, e
  <2> QED
    BY <1>1, <1>2, <1>3, <1>6, <1>7, LockGrowth
<1>9. Resynced(h, e) = total + lock - book.locked
  BY <1>7 DEF Resynced
<1> HIDE DEF h, f, o, r, book, room, e, lock, total
<1>10. book.liability[o] + r \in U64
  BY <1>2, <1>3, <1>4, <1>5, ConstantsAssumption DEF U64
<1>11. Resynced(h, e) \in U64 /\ Resynced(h, e) <= total + r
  BY <1>2, <1>3, <1>4, <1>5, <1>8, <1>9, ConstantsAssumption DEF U64
<1>12. WithinRisk(h, lock, Resynced(h, e))
  <2>1. lock <= houses[h].params.max_risk_per_fixture
    BY <1>2, <1>3, <1>4, <1>8
  <2>2. Resynced(h, e) \in Nat
    BY <1>11, ConstantsAssumption DEF U64
  <2>3. Resynced(h, e) <= houses[h].params.max_total_risk /\ Resynced(h, e) <= token[h]
    BY <1>3, <1>4, <1>11, <2>2
  <2> QED
    BY <2>1, <2>3 DEF WithinRisk
<1> QED
  BY <1>10, <1>11, <1>12 DEF h, f, o, r, book, e, lock

(* A stake that is debited at most the maximum of a house is reserved      *)
(* within its room.                                                        *)
LEMMA ReservedInRoom ==
    ASSUME m \in FeeModel, NEW room \in Nat, NEW cap \in Nat \ {0}, NEW t \in Nat,
           NEW k \in Nat, k = (room * ODDS_SCALE) \div cap,
           chargeForStake(t) <= chargeForStake(k)
    PROVE  reserved(t, cap) <= room /\ reserved(t, cap) \in Nat
<1>1. t <= k
  <2>1. CASE k < t
    <3>1. chargeForStake(k) < chargeForStake(t)
      BY <2>1, ChargeGrows
    <3>2. chargeForStake(k) \in Nat /\ chargeForStake(t) \in Nat
      BY ChargeMonotone
    <3> QED
      BY <3>1, <3>2
  <2> QED
    BY <2>1
<1>2. k * cap <= room * 1000
  <2>1. \A a \in Nat, d \in Nat \ {0} : (a \div d) * d <= a
    OBVIOUS
  <2>2. room * ODDS_SCALE \in Nat
    BY DEF ODDS_SCALE
  <2>3. k * cap <= room * ODDS_SCALE
    BY <2>1, <2>2
  <2> QED
    BY <2>3 DEF ODDS_SCALE
<1>3. t * cap <= k * cap /\ t * cap \in Nat /\ k * cap \in Nat
  <2>1. cap * t <= cap * k
    BY <1>1, TimesMonotone
  <2>2. t * cap \in Nat /\ k * cap \in Nat /\ cap * t = t * cap /\ cap * k = k * cap
    BY TimesFact
  <2> QED
    BY <2>1, <2>2
<1> DEFINE owed == t * cap
<1>4. owed \in Nat /\ owed <= room * 1000
  BY <1>2, <1>3
<1> HIDE DEF owed
<1>5. owed \div 1000 <= room /\ owed \div 1000 \in Nat
  BY <1>4
<1> QED
  BY <1>5 DEF reserved, AtOdds, ODDS_SCALE, owed

(* What commit_bet takes of a bettor is at most what the slip says it does. *)
LEMMA EscrowedIsCharged ==
    ASSUME StakingInv, Committing, config = cfg, NEW order \in Slip,
           order.frontend = frontend
    PROVE  EscrowTotal(order) \in Nat /\ EscrowTotal(order) <= chargeForStake(order.stake)
<1> DEFINE t == order.stake
           f == frontends[frontend].fee_bps
           p == cfg.protocol_fee_bps
           reward == cfg.keeper_reward * KEEPER_CRANKS
<1>1. /\ cfg \in ConfigParams /\ frontends[frontend] \in [fee_bps : Nat]
      /\ m = feeModel(frontends[frontend].fee_bps, cfg.protocol_fee_bps, cfg.keeper_reward)
  BY DEF StakingInv
<1>2. f \in Nat /\ p \in Nat /\ reward \in Nat /\ t \in Nat
  BY <1>1 DEF ConfigParams, KEEPER_CRANKS, Slip
<1>3. EscrowTotal(order) = t + TruncatedFee(t, f) + TruncatedFee(t, p) + reward
  BY DEF EscrowTotal, FrontendFeeOf, ProtocolFeeOf, KeeperEscrow
<1>4. m.frontendFeeBps = f /\ m.protocolFeeBps = p /\ m.keeperUusdc = reward
  BY <1>1 DEF feeModel
<1>5. chargeForStake(t) = t + (FeeOf(t, f) + FeeOf(t, p) + reward)
  BY <1>4 DEF chargeForStake, feesOnStake
<1> HIDE DEF f, p, reward, t
<1>6. TruncatedFee(t, f) \in Nat /\ FeeOf(t, f) \in Nat /\ TruncatedFee(t, f) <= FeeOf(t, f)
  BY <1>2, TruncatedIsLess
<1>7. TruncatedFee(t, p) \in Nat /\ FeeOf(t, p) \in Nat /\ TruncatedFee(t, p) <= FeeOf(t, p)
  BY <1>2, TruncatedIsLess
<1>8. EscrowTotal(order) \in Nat /\ EscrowTotal(order) <= chargeForStake(t)
  BY <1>2, <1>3, <1>5, <1>6, <1>7
<1> QED
  BY <1>8 DEF t

(* The order for a house at another stake.                                 *)
LEMMA RestakedFact ==
    ASSUME StakingInv, Committing, NEW h \in Houses, NEW t \in Nat
    PROVE  LET order == [OrderFor(h) EXCEPT !.stake = t]
           IN  /\ order \in Slip /\ order.house = h /\ order.bettor = request.bettor
               /\ order.fixture_id = request.fixture_id /\ order.outcome = request.outcome
               /\ order.frontend = frontend /\ order.nonce = request.nonce
               /\ order.stake = t /\ order.start_time_ms = fixture.StartTime
<1>1. request \in Request /\ frontend \in Frontends /\ fixture \in FixtureEntry /\ s \in Nat
  BY DEF StakingInv, StakeInv
<1>2. [OrderFor(h) EXCEPT !.stake = t] =
        [bettor |-> request.bettor, house |-> h, frontend |-> frontend,
         fixture_id |-> request.fixture_id, outcome |-> request.outcome, stake |-> t,
         nonce |-> request.nonce, start_time_ms |-> fixture.StartTime]
  BY DEF OrderFor
<1> QED
  BY <1>1, <1>2 DEF Slip, Request, FixtureEntry

(* The maximum found in an idle market can be spent, or less.              *)
RestakedPasses(h, spend) ==
    Simulated([OrderFor(h) EXCEPT !.stake = StakeOf(spend)]) = Ok

Guided ==
    \A spend \in Nat :
        (/\ spend <= bestMax /\ now_ms < fixture.StartTime
         /\ token[request.bettor] >= spend /\ StakeOf(spend) > 0)
        => \E h \in Houses : RestakedPasses(h, spend)

LEMMA IdleIsGuided ==
    ASSUME VaultInv, QuotesInv, StakingInv, MarketInv, IdleInv, AmountsFit,
           phase = "routing", capacityBlocked
    PROVE  Guided
<1> SUFFICES ASSUME NEW spend \in Nat, spend <= bestMax, now_ms < fixture.StartTime,
                    token[request.bettor] >= spend, StakeOf(spend) > 0
             PROVE  \E h \in Houses : RestakedPasses(h, spend)
  BY DEF Guided
<1> DEFINE t == StakeOf(spend)
<1>1. /\ TypeOK /\ LocksInSync /\ Committing /\ request \in Request
      /\ touched = {} /\ cfg \in ConfigParams /\ config = cfg /\ ParamsValid
      /\ Exists(frontends[frontend]) /\ frontend \in Frontends /\ request.hasSol
      /\ m = feeModel(frontends[frontend].fee_bps, cfg.protocol_fee_bps, cfg.keeper_reward)
      /\ frontends[frontend] \in [fee_bps : Nat]
  BY DEF VaultInv, StakingInv, MarketInv, Committing, IdleInv, MaximumInv
<1>2. m \in FeeModel
  <2>1. cfg.keeper_reward * KEEPER_CRANKS \in Nat /\ cfg.protocol_fee_bps \in Nat
    BY <1>1 DEF ConfigParams, KEEPER_CRANKS
  <2> QED
    BY <1>1, <2>1 DEF feeModel, FeeModel
<1>3. t \in 1..spend /\ chargeForStake(t) <= spend
  BY StakeOfIs
<1>4. bestMax # 0
  BY <1>3
<1>5. PICK q \in quotes : bestMax = MaxSpend(q.house, BookOf(q.house, request.fixture_id))
  BY <1>4 DEF IdleInv, MaximumInv
<1> DEFINE h == q.house
           book == BookOf(h, request.fixture_id)
           order == [OrderFor(h) EXCEPT !.stake = t]
           cap == houses[h].params.odds_cap
           room == Headroom(h, book)
           k == (room * ODDS_SCALE) \div cap
<1>6. h \in Houses /\ Exists(houses[h]) /\ ~houses[h].paused
  BY DEF IdleInv, OpenHouse
<1>7. book \in FixtureExposure
  BY <1>1, <1>6, BookType DEF Request
<1>8. /\ order \in Slip /\ order.house = h /\ order.bettor = request.bettor
      /\ order.fixture_id = request.fixture_id /\ order.outcome = request.outcome
      /\ order.frontend = frontend /\ order.nonce = request.nonce
      /\ order.stake = t /\ order.start_time_ms = fixture.StartTime
  BY <1>1, <1>3, <1>6, RestakedFact
<1>9. cap \in Nat \ {0} /\ k \in Nat /\ room \in Nat /\ bestMax = chargeForStake(k)
      /\ bestMax \in Nat
  BY <1>1, <1>2, <1>5, <1>6, <1>7, MaxSpendNat, HeadroomIs DEF MaxSpend
<1>10. chargeForStake(t) \in Nat /\ t \in Nat
  BY <1>2, <1>3, ChargeMonotone
<1> HIDE DEF t, order, book, h, cap, room, k
<1>11. reserved(t, cap) <= room /\ reserved(t, cap) \in Nat
  <2>1. chargeForStake(t) <= chargeForStake(k)
    BY <1>3, <1>9, <1>10
  <2> QED
    BY <1>2, <1>9, <1>10, <2>1, ReservedInRoom DEF k
<1>12. Reservation(order) = reserved(t, cap)
  BY <1>8 DEF Reservation, cap
<1>13. room > 0
  <2> SUFFICES ASSUME room = 0
               PROVE  FALSE
    BY <1>9
  <2>1. k = 0
    BY <1>9 DEF k, ODDS_SCALE
  <2>2. 0 < t
    BY <1>3
  <2>3. chargeForStake(0) < chargeForStake(t)
    BY <1>2, <1>10, <2>2, ChargeGrows
  <2>4. chargeForStake(0) \in Nat
    BY <1>2, ChargeMonotone
  <2> QED
    BY <1>3, <1>9, <1>10, <2>1, <2>3, <2>4
<1>14. /\ BookOf(order.house, order.fixture_id).liability[order.outcome]
            + Reservation(order) \in U64
       /\ Resynced(order.house, CommittedBook(order)) \in U64
       /\ WithinRisk(order.house,
            locked(CommittedBook(order).liability, CommittedBook(order).stakes_collected),
            Resynced(order.house, CommittedBook(order)))
  <2>1. Headroom(order.house, BookOf(order.house, order.fixture_id)) = room
    BY <1>8 DEF room, book
  <2> QED
    BY <1>1, <1>6, <1>8, <1>9, <1>11, <1>12, <1>13, <2>1, RoomIsEnough
<1>15. EscrowTotal(order) \in U64 /\ token[order.bettor] >= EscrowTotal(order)
  <2>1. EscrowTotal(order) \in Nat /\ EscrowTotal(order) <= chargeForStake(t)
    BY <1>1, <1>8, EscrowedIsCharged
  <2>2. request.bettor \in Bettors /\ token[request.bettor] \in U64
    BY <1>1 DEF Request, AmountsFit
  <2> QED
    BY <1>3, <1>8, <1>10, <2>1, <2>2, ConstantsAssumption DEF U64
<1>16. Offered(h, request.fixture_id)
  <2>1. Honours(q)
    BY DEF QuotesInv
  <2> QED
    BY <1>1, <2>1 DEF Honours, offersFixture, Offered, h
<1>17. ~IsBet(request.bettor, request.nonce)
  BY <1>1 DEF MarketInv
<1>18. Exists(config)
  BY <1>1, NoAccountAssumption DEF Exists
<1>19. now_ms + config.commit_delay_ms <= MaxI64
  BY <1>18 DEF AmountsFit
<1>20. CanCommit(order)
  BY <1>1, <1>3, <1>6, <1>8, <1>14, <1>15, <1>16, <1>17, <1>18, <1>19 DEF CanCommit, t
<1>21. Simulated(order) = Ok
  BY <1>1, <1>8, <1>20, SimulatedIsOk DEF PassesAsProgram
<1> QED
  BY <1>6, <1>21 DEF RestakedPasses, order, t

-----------------------------------------------------------------------------
(* No step of an idle request breaks its invariant                         *)

LEMMA OpenKept ==
    ASSUME UNCHANGED vars, NEW h, OpenHouse(h)
    PROVE  OpenHouse(h)'
  BY DEF OpenHouse, Exists, vars

(* What a house could surely reserve depends on the chain and the fees.    *)
LEMMA MaxSpendSame ==
    ASSUME UNCHANGED <<vars, request, m>>, NEW h
    PROVE  MaxSpend(h, BookOf(h, request.fixture_id))'
                = MaxSpend(h, BookOf(h, request.fixture_id))
  BY DEF MaxSpend, chargeForStake, feesOnStake, Headroom, BookOf, NewExposure, Exists, vars

(* A step that reads nothing of houses, and names no other maximum.        *)
LEMMA IdleKept ==
    ASSUME IdleInv, UNCHANGED <<vars, touched, request, pending, competition, quotes, bestMax>>,
           cfg' = cfg \/ cfg' = config,
           phase' \in {"reading", "fees"} => bestMax = 0 /\ ~capacityBlocked',
           capacityBlocked' => request.hasSol,
           bestMax = 0 \/ UNCHANGED m
    PROVE  IdleInv'
<1>1. /\ touched' = {} /\ ParamsValid' /\ (cfg' # NotYet => config' = cfg')
  BY DEF IdleInv, ParamsValid, validate, Exists, vars
<1>2. Listed' = Listed /\ \A p \in pending : p.house' = p.house
  BY DEF Listed
<1>3. (Listed => \A p \in pending : OpenHouse(p.house)') /\ \A q \in quotes : OpenHouse(q.house)'
  BY OpenKept DEF IdleInv
<1>4. MaximumInv'
  <2>1. bestMax' = 0 \/ \E q \in quotes :
            bestMax' = MaxSpend(q.house, BookOf(q.house, request.fixture_id))'
    <3>1. CASE bestMax = 0
      BY <3>1
    <3>2. CASE bestMax # 0
      <4>1. PICK q \in quotes : bestMax = MaxSpend(q.house, BookOf(q.house, request.fixture_id))
        BY <3>2 DEF IdleInv, MaximumInv
      <4>2. bestMax' = MaxSpend(q.house, BookOf(q.house, request.fixture_id))'
        BY <3>2, <4>1, MaxSpendSame
      <4> QED
        BY <4>2
    <3> QED
      BY <3>1, <3>2
  <2> QED
    BY <2>1 DEF MaximumInv
<1> QED
  BY <1>1, <1>2, <1>3, <1>4 DEF IdleInv

LEMMA InitGuideInv == ParamsValid /\ RouterInit => GuideInv
<1> SUFFICES ASSUME ParamsValid, RouterInit
             PROVE  moves \in Nat /\ IdleInv
  BY DEF GuideInv
<1>1. /\ moves = 0 /\ touched = {} /\ cfg = NotYet /\ ~Listed /\ quotes = {}
      /\ capacityBlocked = FALSE /\ bestMax = 0
  BY DEF RouterInit, Listed
<1> QED
  BY <1>1 DEF IdleInv, MaximumInv

LEMMA ReadingIdle ==
    ASSUME IdleInv, moves = 0, moves' = 0,
           \/ ReadFixture \/ ReadConfig \/ ReadPrint \/ ReadHouses \/ ReadCompetition
           \/ QuoteHouse
    PROVE  IdleInv'
<1>1. /\ phase = "reading" /\ phase' = "reading"
      /\ UNCHANGED <<vars, request, bestMax, capacityBlocked, m>>
  BY DEF ReadFixture, ReadConfig, ReadPrint, ReadHouses, ReadCompetition, QuoteHouse,
         worldVars, loopVars, feesVars
<1>2. bestMax = 0 /\ ~capacityBlocked
  BY <1>1 DEF IdleInv, MaximumInv
<1>3. MaximumInv'
  BY <1>1, <1>2 DEF MaximumInv
<1>4. ParamsValid' /\ (cfg' \in {cfg, config} => (cfg' # NotYet => config' = cfg'))
  BY <1>1 DEF IdleInv, ParamsValid, validate, Exists, vars
<1>5. CASE ReadFixture \/ ReadConfig \/ ReadPrint
  <2>1. /\ UNCHANGED <<touched, pending, competition, quotes>>
        /\ cfg' = cfg \/ cfg' = config
    BY <1>5 DEF ReadFixture, ReadConfig, ReadPrint, worldVars
  <2> QED
    BY <1>1, <1>2, <2>1, IdleKept
<1>6. CASE ReadHouses
  <2>1. /\ UNCHANGED <<touched, cfg, quotes, competition>>
        /\ pending' = {[house |-> h, params |-> houses[h].params] :
                        h \in {g \in Houses : Exists(houses[g]) /\ ~houses[g].paused}}
    BY <1>6 DEF ReadHouses, worldVars
  <2>2. \A p \in pending' : OpenHouse(p.house)
    BY <2>1 DEF OpenHouse
  <2>3. \A p \in pending' : OpenHouse(p.house)'
    BY <1>1, <2>2, OpenKept
  <2>4. \A q \in quotes' : OpenHouse(q.house)'
    BY <1>1, <2>1, OpenKept DEF IdleInv
  <2> QED
    BY <1>3, <1>4, <2>1, <2>3, <2>4 DEF IdleInv
<1>7. CASE ReadCompetition
  <2>1. UNCHANGED <<touched, cfg, quotes, pending>> /\ pending # NotYet
    BY <1>7 DEF ReadCompetition, worldVars
  <2>2. \A p \in pending' : OpenHouse(p.house)'
    BY <1>1, <2>1, OpenKept DEF IdleInv, Listed
  <2>3. \A q \in quotes' : OpenHouse(q.house)'
    BY <1>1, <2>1, OpenKept DEF IdleInv
  <2> QED
    BY <1>3, <1>4, <2>1, <2>2, <2>3 DEF IdleInv
<1>8. CASE QuoteHouse
  <2> DEFINE f == request.fixture_id
  <2>1. UNCHANGED cfg /\ competition # NotYet
    BY <1>8 DEF QuoteHouse
  <2>2. PICK p \in pending :
            \E rules \in {filters[p.house], NoAccount},
               book \in {BookOf(p.house, f), NewExposure} :
                /\ Misread(p.house, rules # filters[p.house] \/ book # BookOf(p.house, f))
                /\ pending' = pending \ {p}
                /\ quotes' =
                    IF offersFixture(rules, f, competition)
                    THEN quotes \cup {[house |-> p.house, effOdds |->
                            [o \in Outcomes |-> EffOdds(p.params, book, print, o)]]}
                    ELSE quotes
    BY <1>8 DEF QuoteHouse
  <2>3. touched' = touched
    BY <2>2 DEF Misread
  <2>4. \A q \in quotes' : q \in quotes \/ q.house = p.house
    BY <2>2
  <2>5. pending' \subseteq pending /\ \A r \in pending : OpenHouse(r.house)
    BY <2>1, <2>2 DEF IdleInv, Listed
  <2>6. \A q \in quotes' : OpenHouse(q.house)
    BY <2>4, <2>5 DEF IdleInv
  <2>7. (\A r \in pending' : OpenHouse(r.house)') /\ \A q \in quotes' : OpenHouse(q.house)'
    BY <1>1, <2>5, <2>6, OpenKept
  <2> QED
    BY <1>3, <1>4, <2>1, <2>3, <2>7 DEF IdleInv
<1> QED
  BY <1>5, <1>6, <1>7, <1>8

(* A request that is answered without a transaction is over.               *)
LEMMA AnsweredIsOver ==
    ASSUME NEW kind, kind # "tx", answer'.kind = kind, phase' = "answered"
    PROVE  ~Running'
  BY DEF Running, HasTx

LEMMA FailedIsOver ==
    ASSUME ReadFails \/ NoMarket
    PROVE  ~Running' /\ answer'.kind # "capacity"
<1>1. /\ answer'.kind \in {"failed", "no fixture", "no quotes", "no frontend"}
      /\ phase' = "answered"
  <2>1. CASE ReadFails
    BY <2>1, Refused DEF ReadFails
  <2>2. CASE NoMarket
    <3> DEFINE kind == CASE ~Exists(fixture) -> "no fixture"
                         [] Exists(fixture) /\ ~Exists(print) -> "no quotes"
                         [] OTHER -> "no frontend"
    <3>1. kind \in {"no fixture", "no quotes", "no frontend"}
      OBVIOUS
    <3>2. Refuse(kind)
      BY <2>2 DEF NoMarket
    <3> HIDE DEF kind
    <3> QED
      BY <3>1, <3>2, Refused
  <2> QED
    BY <2>1, <2>2
<1> QED
  BY <1>1, AnsweredIsOver

LEMMA StakingIdle ==
    ASSUME IdleInv, Running', ReadFrontend \/ StakeForCharge \/ StakeFound
    PROVE  IdleInv'
<1>1. /\ phase \in {"reading", "fees"}
      /\ UNCHANGED <<vars, touched, request, cfg, pending, competition, quotes, bestMax,
                     capacityBlocked>>
  BY DEF ReadFrontend, StakeForCharge, StakeFound, worldVars, quoteVars, loopVars
<1>2. bestMax = 0 /\ ~capacityBlocked
  BY <1>1 DEF IdleInv, MaximumInv
<1> QED
  BY <1>1, <1>2, IdleKept

LEMMA SpendNat ==
    ASSUME TypeOK, StakingInv, IdleInv, phase = "routing", NEW q \in quotes
    PROVE  MaxSpend(q.house, BookOf(q.house, request.fixture_id)) \in Nat
<1>1. q.house \in Houses /\ Exists(houses[q.house]) /\ ParamsValid
  BY DEF IdleInv, OpenHouse
<1>2. BookOf(q.house, request.fixture_id) \in FixtureExposure
  BY <1>1, BookType DEF StakingInv, Request
<1>3. m \in FeeModel
  BY DEF StakingInv, StakeInv, Committing
<1> QED
  BY <1>1, <1>2, <1>3, MaxSpendNat

LEMMA MaximumNat ==
    ASSUME TypeOK, StakingInv, IdleInv, phase = "routing"
    PROVE  bestMax \in Nat
  BY SpendNat DEF IdleInv, MaximumInv

LEMMA HeadroomIdle ==
    ASSUME TypeOK, QuotesInv, StakingInv, IdleInv, moves = 0, moves' = 0, ReadHeadroom
    PROVE  IdleInv'
<1>1. PICK q \in BestOf(untried) :
        \E book \in {BookOf(q.house, request.fixture_id), NewExposure} :
            /\ Misread(q.house, book # BookOf(q.house, request.fixture_id))
            /\ bestMax' = Max({bestMax, MaxSpend(q.house, book)})
  BY DEF ReadHeadroom
<1>2. /\ phase = "routing" /\ phase' = "routing"
      /\ UNCHANGED <<vars, request, cfg, pending, competition, quotes, capacityBlocked, m>>
  BY DEF ReadHeadroom, quoteVars, feesVars
<1> DEFINE spend(x) == MaxSpend(x.house, BookOf(x.house, request.fixture_id))
<1>3. touched' = touched /\ bestMax' = Max({bestMax, spend(q)}) /\ q \in quotes
  BY <1>1 DEF Misread, BestOf, QuotesInv
<1>4. \A x \in quotes : spend(x) \in Nat
  BY <1>2, SpendNat
<1>5. bestMax' = 0 \/ \E x \in quotes : bestMax' = spend(x)
  <2>1. bestMax = 0 \/ \E x \in quotes : bestMax = spend(x)
    BY DEF IdleInv, MaximumInv
  <2>2. bestMax \in Int /\ spend(q) \in Int
    <3>1. bestMax \in Nat
      BY <1>2, MaximumNat
    <3> HIDE DEF spend
    <3> QED
      BY <1>3, <1>4, <3>1
  <2> HIDE DEF spend
  <2>3. bestMax' \in {bestMax, spend(q)}
    <3>1. PICK b \in Int : b = bestMax
      BY <2>2
    <3>2. PICK c \in Int : c = spend(q)
      BY <2>2
    <3>3. Max({b, c}) \in {b, c}
      BY LargestOfTwo
    <3> QED
      BY <1>3, <3>1, <3>2, <3>3
  <2> QED
    BY <1>3, <2>1, <2>3
<1>6. \A x \in quotes : spend(x)' = spend(x)
  BY <1>2, MaxSpendSame
<1>7. MaximumInv'
  <2>1. bestMax' = 0 \/ \E x \in quotes' : bestMax' = spend(x)'
    BY <1>2, <1>5, <1>6
  <2>2. capacityBlocked' => request'.hasSol
    BY <1>2 DEF IdleInv, MaximumInv
  <2> QED
    BY <1>2, <2>1, <2>2 DEF MaximumInv
<1>8. /\ touched' = {} /\ ParamsValid' /\ (cfg' # NotYet => config' = cfg')
  BY <1>2, <1>3 DEF IdleInv, ParamsValid, validate, Exists, vars
<1>9. /\ Listed' => \A p \in pending' : OpenHouse(p.house)'
      /\ \A x \in quotes' : OpenHouse(x.house)'
  BY <1>2, OpenKept DEF IdleInv, Listed
<1> QED
  BY <1>7, <1>8, <1>9 DEF IdleInv

LEMMA SimulateIdle ==
    ASSUME IdleInv, Running', Simulate
    PROVE  IdleInv'
<1>1. /\ phase = "routing"
      /\ UNCHANGED <<vars, touched, request, cfg, pending, competition, quotes, bestMax, m>>
  BY DEF Simulate, worldVars, quoteVars, feesVars
<1> DEFINE code == Simulated(OrderFor(current.house))
<1>2. \/ Refuse(IF code = NoCode THEN "no SOL" ELSE "kicked off")
      \/ /\ Respond("tx", current.house, current.effOdds[request.outcome], 0)
         /\ UNCHANGED capacityBlocked
      \/ /\ code # NoCode /\ UNCHANGED phase
  BY DEF Simulate
<1>3. CASE Refuse(IF code = NoCode THEN "no SOL" ELSE "kicked off")
  <2> HIDE DEF code
  <2>1. answer'.kind \in {"no SOL", "kicked off"} /\ phase' = "answered"
    BY <1>3, Refused
  <2> QED
    BY <2>1, AnsweredIsOver
<1>4. CASE /\ Respond("tx", current.house, current.effOdds[request.outcome], 0)
           /\ UNCHANGED capacityBlocked
  <2>1. phase' = "answered"
    BY <1>4 DEF Respond
  <2>2. capacityBlocked' => request.hasSol
    BY <1>4 DEF IdleInv, MaximumInv
  <2> QED
    BY <1>1, <2>1, <2>2, IdleKept
<1>5. CASE code # NoCode /\ UNCHANGED phase
  <2>1. request.hasSol
    BY <1>5, NoSolIsFirst
  <2> QED
    BY <1>1, <1>5, <2>1, IdleKept
<1> HIDE DEF code
<1> QED
  BY <1>2, <1>3, <1>4, <1>5

(* Only the end of the list answers that a request is at capacity.         *)
LEMMA AtCapacity ==
    ASSUME NoHouse
    PROVE  /\ phase = "routing" /\ phase' = "answered" /\ ~Running'
           /\ answer'.kind = "capacity" =>
                capacityBlocked /\ answer'.max = bestMax \div USDC
<1>1. CASE capacityBlocked
  <2>1. Respond("capacity", NoAccount, 0, bestMax \div USDC)
    BY <1>1 DEF NoHouse
  <2> QED
    BY <1>1, <2>1, Responded, AnsweredIsOver DEF Respond, NoHouse
<1>2. CASE ~capacityBlocked
  <2>1. Refuse("refused")
    BY <1>2 DEF NoHouse
  <2>2. answer'.kind = "refused" /\ phase' = "answered"
    BY <2>1, Refused
  <2> QED
    BY <2>2, AnsweredIsOver DEF NoHouse
<1> QED
  BY <1>1, <1>2

LEMMA NextGuideInv == RouterInv /\ GuideInv /\ [RouterNext]_routerVars => GuideInv'
<1> SUFFICES ASSUME RouterInv, GuideInv, [RouterNext]_routerVars
             PROVE  GuideInv'
  OBVIOUS
<1>1. moves' = moves \/ moves' = moves + 1
  BY DEF RouterNext, RequestNext, ReadFixture, ReadConfig, ReadPrint, ReadHouses,
         ReadCompetition, QuoteHouse, ReadFails, ReadsLeft, NoMarket, ReadFrontend, StakeForCharge,
         StakeFound, ReadHeadroom, Simulate, NoHouse, Misread, Land, GiveUp, Chain, Relist,
         routerVars, worldVars
<1>2. moves' \in Nat /\ (moves' = 0 => moves = 0)
  BY <1>1 DEF GuideInv
<1>3. ASSUME Running', moves' = 0
      PROVE  IdleInv'
  <2>1. moves = 0
    BY <1>2, <1>3
  <2>2. Running
    <3>1. ~Running => UNCHANGED <<phase, answer>>
      BY OverIsOver DEF routerVars, requestVars
    <3> QED
      BY <1>3, <3>1 DEF Running, HasTx
  <2>3. IdleInv /\ TypeOK /\ QuotesInv /\ StakingInv
    BY <2>1, <2>2 DEF GuideInv, RouterInv, Running, HasTx, VaultInv
  <2>4. CASE RequestNext
    BY <1>3, <2>1, <2>3, <2>4, ReadingIdle, FailedIsOver, StakingIdle, HeadroomIdle,
       SimulateIdle, AtCapacity DEF RequestNext
  <2>5. ~Land /\ ~GiveUp
    BY <1>3 DEF Land, GiveUp, Running, HasTx
  <2>6. ~Chain /\ ~Relist
    BY <1>3, <2>1 DEF Chain, Relist
  <2>7. CASE UNCHANGED routerVars
    <3>1. UNCHANGED <<vars, touched, request, cfg, pending, competition, quotes, bestMax, m,
                      capacityBlocked, phase>>
      BY <2>7 DEF routerVars, requestVars, worldVars, quoteVars, loopVars, feesVars
    <3> QED
      BY <2>3, <3>1, IdleKept DEF IdleInv, MaximumInv
  <2> QED
    BY <2>4, <2>5, <2>6, <2>7 DEF RouterNext
<1> QED
  BY <1>2, <1>3 DEF GuideInv

-----------------------------------------------------------------------------
(* The guidance *)

(* What the same request would be told, while chain and fees are the same. *)
LEMMA StakeOfSame ==
    ASSUME UNCHANGED m, NEW spend
    PROVE  StakeOf(spend)' = StakeOf(spend)
  BY DEF StakeOf, chargeForStake, feesOnStake

LEMMA RestakedSame ==
    ASSUME UNCHANGED <<vars, request, frontend, fixture, s, m>>, NEW h, NEW spend
    PROVE  RestakedPasses(h, spend)' = RestakedPasses(h, spend)
<1>1. PICK order : order = [OrderFor(h) EXCEPT !.stake = StakeOf(spend)]
  OBVIOUS
<1>2. [OrderFor(h) EXCEPT !.stake = StakeOf(spend)]' = order
  BY <1>1, StakeOfSame DEF OrderFor
<1>3. RestakedPasses(h, spend) <=> Simulated(order) = Ok
  BY <1>1 DEF RestakedPasses
<1>4. RestakedPasses(h, spend)' <=> Simulated(order)' = Ok
  BY <1>2 DEF RestakedPasses
<1>5. Simulated(order)' = Simulated(order)
  BY SimulatedSame
<1> QED
  BY <1>3, <1>4, <1>5 DEF RestakedPasses

(* The guidance said of every spend, not of the number answered.           *)
FollowedBy(spend) ==
    (/\ now_ms < fixture.StartTime
     /\ token[request.bettor] >= spend /\ StakeOf(spend) > 0)
        => \E h \in Houses : RestakedPasses(h, spend)

GuidanceNamed ==
    GuidanceIsTakeable <=>
        (phase = "answered" /\ answer.kind = "capacity" /\ moves = 0
            => \A spend : spend = answer.max * USDC => FollowedBy(spend))

LEMMA NamedGuidance == GuidanceNamed
  BY DEF GuidanceNamed, GuidanceIsTakeable, FollowedBy, RestakedPasses

LEMMA FollowedSame ==
    ASSUME UNCHANGED <<vars, request, frontend, fixture, s, m>>, NEW spend, FollowedBy(spend)
    PROVE  FollowedBy(spend)'
<1>1. \A h : RestakedPasses(h, spend)' = RestakedPasses(h, spend)
  BY RestakedSame
<1>2. StakeOf(spend)' = StakeOf(spend)
  BY StakeOfSame
<1> QED
  BY <1>1, <1>2 DEF FollowedBy, now_ms, vars

(* The maximum is rounded down to whole USDC.                              *)
LEMMA WholeUsdc ==
    ASSUME NEW max \in Nat
    PROVE  (max \div USDC) * USDC \in Nat /\ (max \div USDC) * USDC <= max
<1>1. \A a \in Nat, d \in Nat \ {0} : a \div d \in Nat /\ (a \div d) * d <= a
  OBVIOUS
<1>2. max \div USDC \in Nat /\ (max \div USDC) * USDC <= max
  BY <1>1, RouterAssumption
<1> QED
  BY <1>2, TimesFact, RouterAssumption

LEMMA NextGuidance ==
    RouterInv /\ PriceInv /\ GuideInv /\ AmountsFit /\ GuidanceIsTakeable
        /\ [RouterNext]_routerVars => GuidanceIsTakeable'
<1> SUFFICES ASSUME RouterInv, PriceInv, GuideInv, AmountsFit, GuidanceIsTakeable,
                    [RouterNext]_routerVars,
                    phase' = "answered", answer'.kind = "capacity", moves' = 0,
                    NEW spend, spend = answer'.max * USDC
             PROVE  FollowedBy(spend)'
  <2>1. GuidanceNamed'
    BY NamedGuidance, PTL
  <2> QED
    BY <2>1 DEF GuidanceNamed
<1>1. CASE UNCHANGED routerVars
  <2>1. UNCHANGED <<vars, request, frontend, fixture, s, m, phase, answer, moves>>
    BY <1>1 DEF routerVars, requestVars, worldVars, quoteVars, feesVars
  <2>2. FollowedBy(spend)
    BY <2>1, NamedGuidance DEF GuidanceNamed
  <2> QED
    BY <2>1, <2>2, FollowedSame
<1>2. CASE Running /\ RouterNext
  <2>1. NoHouse
    <3>1. ~Land /\ ~GiveUp
      BY DEF Land, GiveUp
    <3>2. ~Chain /\ ~Relist
      BY <1>2 DEF Chain, Relist, requestVars, Running, HasTx
    <3>3. RequestNext
      BY <1>2, <3>1, <3>2 DEF RouterNext
    <3>4. ~ReadFixture /\ ~ReadConfig /\ ~ReadPrint /\ ~ReadHouses /\ ~ReadCompetition
            /\ ~QuoteHouse /\ ~ReadFrontend /\ ~StakeForCharge /\ ~ReadHeadroom
      BY DEF ReadFixture, ReadConfig, ReadPrint, ReadHouses, ReadCompetition, QuoteHouse,
             ReadFrontend, StakeForCharge, ReadHeadroom
    <3>5. ~ReadFails /\ ~NoMarket
      BY FailedIsOver
    <3>6. ~StakeFound
      <4>1. StakeFound => Refuse("too small") \/ phase' = "routing"
        BY DEF StakeFound
      <4>2. ASSUME Refuse("too small")
            PROVE  FALSE
        <5>1. answer'.kind = "too small"
          BY <4>2, Refused
        <5> QED
          BY <5>1
      <4> QED
        BY <4>1, <4>2
    <3>7. ~Simulate
      <4> SUFFICES ASSUME Simulate
                   PROVE  FALSE
        OBVIOUS
      <4> DEFINE code == Simulated(OrderFor(current.house))
      <4>1. \/ Refuse(IF code = NoCode THEN "no SOL" ELSE "kicked off")
            \/ Respond("tx", current.house, current.effOdds[request.outcome], 0)
            \/ UNCHANGED phase /\ phase = "routing"
        BY DEF Simulate
      <4> HIDE DEF code
      <4>2. ASSUME Refuse(IF code = NoCode THEN "no SOL" ELSE "kicked off")
            PROVE  FALSE
        <5>1. answer'.kind \in {"no SOL", "kicked off"}
          BY <4>2, Refused
        <5> QED
          BY <5>1
      <4>3. ASSUME Respond("tx", current.house, current.effOdds[request.outcome], 0)
            PROVE  FALSE
        <5>1. answer'.kind = "tx"
          BY <4>3, Responded
        <5> QED
          BY <5>1
      <4> QED
        BY <4>1, <4>2, <4>3
    <3> QED
      BY <3>3, <3>4, <3>5, <3>6, <3>7 DEF RequestNext
  <2>2. /\ phase = "routing" /\ capacityBlocked /\ answer'.max = bestMax \div USDC
        /\ UNCHANGED <<vars, request, frontend, fixture, s, m, moves>>
    BY <2>1, AtCapacity DEF NoHouse, worldVars, quoteVars, feesVars
  <2>3. /\ VaultInv /\ QuotesInv /\ StakingInv /\ MarketInv /\ IdleInv
    BY <1>2, <2>2 DEF RouterInv, PriceInv, GuideInv
  <2>4. Guided
    BY <2>2, <2>3, IdleIsGuided
  <2>5. bestMax \in Nat
    BY <2>2, <2>3, MaximumNat DEF VaultInv
  <2>6. spend \in Nat /\ spend <= bestMax
    BY <2>2, <2>5, WholeUsdc
  <2>7. FollowedBy(spend)
    BY <2>4, <2>6 DEF Guided, FollowedBy
  <2> QED
    BY <2>2, <2>7, FollowedSame
<1>3. CASE ~Running
  BY <1>1, <1>3, OverIsOver
<1> QED
  BY <1>1, <1>2, <1>3

(* Asking again for the maximum of a capacity answer finds a house, unless *)
(* something changed, whatever the houses' terms and books, as long as the *)
(* amounts at stake fit their types.                                       *)
THEOREM GuidanceAlwaysTakeable == RouterSpec /\ []AmountsFit => []GuidanceIsTakeable
<1>1. RouterInit => GuidanceIsTakeable
  BY DEF RouterInit, GuidanceIsTakeable
<1>2. RouterSpec => []GuideInv
  BY InitGuideInv, NextGuideInv, RouterInvHolds, PTL DEF RouterSpec
<1>3. RouterSpec => []PriceInv
  BY InitPriceInv, NextPriceInv, RouterInvHolds, PTL DEF RouterSpec
<1> QED
  BY <1>1, <1>2, <1>3, NextGuidance, RouterInvHolds, PTL DEF RouterSpec
=============================================================================
