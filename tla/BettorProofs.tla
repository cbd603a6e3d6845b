---------------------------- MODULE BettorProofs ----------------------------
(***************************************************************************)
(* Theorems about the bettor's side: the page commits a pick twice only    *)
(* when the wallet misreported, and the driving scripts keep their limit   *)
(* of bets that wait.                                                      *)
(***************************************************************************)
EXTENDS BettorPage, Drivers, FiniteSetTheorems, TLAPS

-----------------------------------------------------------------------------
(* One tap is one bet *)

(* A pick that was sent is done with: it is neither on the slip nor being  *)
(* placed, unless the wallet misreported it or has not reported yet.       *)
DoneWith(p) ==
    \/ p \in misreported
    \/ pick # p /\ (placing # Idle => placing.pick # p)
    \/ placing # Idle /\ placing.at = "sent" /\ placing.pick = p

PlacementOK ==
    placing = Idle \/ (placing.at \in {"asking", "signing", "sent"} /\ placing.pick \in Nat)

PickInv ==
    /\ picks \in Nat
    /\ pick \in 0..picks \cup {NoPick}
    /\ PlacementOK
    /\ placing # Idle => placing.pick <= picks
    /\ \A tx \in history : tx.pick \in 0..picks /\ DoneWith(tx.pick)
    /\ TwiceOnlyIfMisreported

LEMMA IdleAt == Idle.at = "idle"
  BY DEF Idle

LEMMA PickInvKept ==
    ASSUME PickInv, UNCHANGED <<picks, pick, placing, history, misreported>>
    PROVE  PickInv'
  BY DEF PickInv, PlacementOK, DoneWith, TwiceOnlyIfMisreported

LEMMA SlipKeepsPicks ==
    ASSUME PickInv, SlipNext
    PROVE  PickInv'
<1> USE PageAssumption DEF PickInv, PlacementOK
<1>1. CASE Connect \/ PickWallet \/ Disconnect
  BY <1>1, PickInvKept DEF Connect, PickWallet, Disconnect, slipVars, sentVars
<1>2. CASE Tap
  BY <1>2 DEF Tap, sentVars, DoneWith, TwiceOnlyIfMisreported
<1>3. CASE CloseSlip
  BY <1>3 DEF CloseSlip, sentVars, DoneWith, TwiceOnlyIfMisreported
<1>4. CASE PlaceBet
  BY <1>4 DEF PlaceBet, sentVars, DoneWith, TwiceOnlyIfMisreported, Idle
<1>5. CASE RouterRefuses
  BY <1>5, IdleAt DEF RouterRefuses, sentVars, DoneWith, TwiceOnlyIfMisreported
<1>6. CASE RouterAnswers
  BY <1>6, IdleAt DEF RouterAnswers, sentVars, DoneWith, TwiceOnlyIfMisreported, Idle
<1>7. CASE WalletSends
  BY <1>7, IdleAt DEF WalletSends, DoneWith, TwiceOnlyIfMisreported, Transaction, Idle
<1>8. CASE WalletReports
  BY <1>8, IdleAt DEF WalletReports, ClearSlip, sentVars, DoneWith, TwiceOnlyIfMisreported
<1>9. CASE WalletThrows
  BY <1>9, IdleAt DEF WalletThrows, DoneWith, TwiceOnlyIfMisreported
<1> QED
  BY <1>1, <1>2, <1>3, <1>4, <1>5, <1>6, <1>7, <1>8, <1>9 DEF SlipNext

LEMMA NextPickInv ==
    ASSUME PickInv, [PageNext]_tabVars
    PROVE  PickInv'
<1>1. CASE PollNext
  <2>1. UNCHANGED <<slipVars, sentVars>>
    BY <1>1 DEF PollNext, NewCallback, Interval, CouponOnly, ServerReads, BetsAnswer,
                BetsFail, ReceiptAnswers
  <2> QED
    BY <2>1, PickInvKept DEF slipVars, sentVars
<1>2. CASE ChainNext
  <2>1. UNCHANGED <<slipVars, history, misreported>>
    BY <1>2 DEF ChainNext, ChainCranks, Lands, Expires, pageVars, sentVars
  <2> QED
    BY <2>1, PickInvKept DEF slipVars
<1>3. CASE UNCHANGED tabVars
  BY <1>3, PickInvKept DEF tabVars, pageVars, slipVars, sentVars
<1> QED
  BY <1>1, <1>2, <1>3, SlipKeepsPicks DEF PageNext

(* However often the user taps, places, declines and switches wallets, and *)
(* whatever router, wallet and cluster do: one pick is committed a second  *)
(* time only after the wallet reported that the first had failed.          *)
THEOREM TwiceOnlyAfterMisreport == PageSpec => []TwiceOnlyIfMisreported
<1>1. PageInit /\ picks \in Nat => PickInv
  BY DEF PageInit, PickInv, PlacementOK, TwiceOnlyIfMisreported
<1>2. PickInv /\ [PageNext]_tabVars => PickInv'
  BY NextPickInv
<1>3. PickInv => TwiceOnlyIfMisreported
  BY DEF PickInv
<1> QED
  BY <1>1, <1>2, <1>3, PTL DEF PageSpec

-----------------------------------------------------------------------------
(* The scripts' limit *)

SlipSet == Bettors \X Nonces
Slip == [terms : Terms, prize : Int, state : Ended \cup {"Pending", "Active"}]
SlipsOK == slips \in [SlipSet -> Slip \cup {NoSlip}]

(* What the demo counted is of its last look, and between a look and the   *)
(* commit that follows bets only leave Pending.                            *)
LimitInv ==
    /\ script \in {"live", "demo"}
    /\ SlipsOK /\ pending \in Nat
    /\ Cardinality(PendingBets) <= MaxPending
    /\ script = "demo" /\ at = "print" => Cardinality(PendingBets) <= pending
    /\ Running /\ at = "commit" => Cardinality(PendingBets) < MaxPending

LEMMA PendingFinite == IsFiniteSet(PendingBets) /\ Cardinality(PendingBets) \in Nat
<1>1. PendingBets \in SUBSET SlipSet
  BY DEF PendingBets, SlipSet
<1> QED
  BY <1>1, DriverAssumption, FS_Subset, FS_CardinalityType DEF SlipSet

LEMMA CountPrimed == ASSUME SlipsOK' PROVE Cardinality(PendingBets') \in Nat
<1>1. PendingBets' \in SUBSET SlipSet
  BY DEF PendingBets, SlipSet
<1> QED
  BY <1>1, DriverAssumption, FS_Subset, FS_CardinalityType DEF SlipSet

(* What a crank makes of a slip is a slip, in the state it gives it. *)
LEMMA StateRewritten ==
    ASSUME NEW slip \in Slip, NEW new \in Ended
    PROVE  [slip EXCEPT !.state = new] \in Slip /\ [slip EXCEPT !.state = new].state = new
  BY DEF Slip

LEMMA FillRewritten ==
    ASSUME NEW slip \in Slip, NEW p \in Int
    PROVE  /\ [slip EXCEPT !.prize = p, !.state = "Active"] \in Slip
           /\ [slip EXCEPT !.prize = p, !.state = "Active"].state = "Active"
<1>1. [slip EXCEPT !.prize = p, !.state = "Active"] \in Slip
  BY DEF Slip
<1>2. [slip EXCEPT !.prize = p, !.state = "Active"].state = "Active"
  BY DEF Slip
<1> QED
  BY <1>1, <1>2

(* A slip rewritten, and no longer pending. *)
LEMMA OneLessPending ==
    ASSUME SlipsOK, NEW bn \in SlipSet, NEW slip \in Slip, slip.state # "Pending",
           slips' = [slips EXCEPT ![bn] = slip]
    PROVE  SlipsOK' /\ Cardinality(PendingBets') <= Cardinality(PendingBets)
<1>1. SlipsOK'
  BY DEF SlipsOK
<1>2. /\ slips'[bn] = slip
      /\ \A other \in SlipSet : other # bn => slips'[other] = slips[other]
  BY DEF SlipsOK
<1>3. PendingBets' \subseteq PendingBets
  BY <1>2 DEF PendingBets, Is, SlipSet
<1> QED
  BY <1>1, <1>3, PendingFinite, FS_Subset

(* No crank puts a bet back into Pending. *)
LEMMA CranksOnlyFewer ==
    ASSUME SlipsOK, NEW bettor \in Bettors, NEW nonce \in Nonces,
           \/ Fill(bettor, nonce) \/ Refund(bettor, nonce) \/ Win(bettor, nonce)
           \/ Lose(bettor, nonce) \/ Void(bettor, nonce)
    PROVE  SlipsOK' /\ Cardinality(PendingBets') <= Cardinality(PendingBets)
<1> DEFINE bn == <<bettor, nonce>>
           slip == slips[bn]
<1>1. bn \in SlipSet
  BY DEF SlipSet
<1>2. slip \in Slip
  BY <1>1 DEF SlipsOK, Fill, Refund, Win, Lose, Void, Is
<1>3. \/ \E new \in Int : slips' = [slips EXCEPT ![bn] =
                            [slip EXCEPT !.prize = new, !.state = "Active"]]
      \/ \E new \in Ended : slips' = [slips EXCEPT ![bn] = [slip EXCEPT !.state = new]]
  <2>1. CASE Fill(bettor, nonce)
    <3>1. PICK new \in 0..slip.terms.most :
            slips' = [slips EXCEPT ![bn] = [slip EXCEPT !.prize = new, !.state = "Active"]]
      BY <2>1 DEF Fill
    <3>2. new \in Int
      OBVIOUS
    <3> HIDE DEF bn, slip
    <3> QED
      BY <3>1, <3>2
  <2>2. CASE Refund(bettor, nonce) \/ Win(bettor, nonce) \/ Lose(bettor, nonce)
                \/ Void(bettor, nonce)
    <3>1. \/ slips' = [slips EXCEPT ![bn] = [slip EXCEPT !.state = "Refunded"]]
          \/ slips' = [slips EXCEPT ![bn] = [slip EXCEPT !.state = "Won"]]
          \/ slips' = [slips EXCEPT ![bn] = [slip EXCEPT !.state = "Lost"]]
          \/ slips' = [slips EXCEPT ![bn] = [slip EXCEPT !.state = "Voided"]]
      BY <2>2 DEF Refund, Win, Lose, Void, Becomes
    <3> HIDE DEF bn, slip
    <3> QED
      BY <3>1 DEF Ended
  <2> QED
    BY <2>1, <2>2
<1> HIDE DEF bn, slip
<1>4. "Active" # "Pending" /\ \A s \in Ended : s # "Pending"
  BY DEF Ended
<1>5. \E new \in Slip : new.state # "Pending" /\ slips' = [slips EXCEPT ![bn] = new]
  <2>1. CASE \E p \in Int : slips' = [slips EXCEPT ![bn] =
                                [slip EXCEPT !.prize = p, !.state = "Active"]]
    <3>1. PICK p \in Int : slips' = [slips EXCEPT ![bn] =
                                [slip EXCEPT !.prize = p, !.state = "Active"]]
      BY <2>1
    <3> DEFINE new == [slip EXCEPT !.prize = p, !.state = "Active"]
    <3>2. new \in Slip /\ new.state = "Active"
      BY <1>2, FillRewritten
    <3> HIDE DEF new
    <3> QED
      BY <1>4, <3>1, <3>2 DEF new
  <2>2. CASE \E s \in Ended : slips' = [slips EXCEPT ![bn] = [slip EXCEPT !.state = s]]
    <3>1. PICK s \in Ended : slips' = [slips EXCEPT ![bn] = [slip EXCEPT !.state = s]]
      BY <2>2
    <3> DEFINE new == [slip EXCEPT !.state = s]
    <3>2. new \in Slip /\ new.state = s
      BY <1>2, StateRewritten
    <3>3. slips' = [slips EXCEPT ![bn] = new]
      BY <3>1
    <3> HIDE DEF new
    <3> QED
      BY <1>4, <3>2, <3>3
  <2> QED
    BY <1>3, <2>1, <2>2
<1> QED
  BY <1>1, <1>5, OneLessPending

(* A commit puts one bet into it. *)
LEMMA CommitAddsOne ==
    ASSUME SlipsOK, NEW nonce, NEW terms \in Terms, Place(Driver, nonce, terms)
    PROVE  SlipsOK' /\ Cardinality(PendingBets') <= Cardinality(PendingBets) + 1
<1> DEFINE bn == <<Driver, nonce>>
           slip == [terms |-> terms, prize |-> 0, state |-> "Pending"]
<1>1. slips' = [slips EXCEPT ![bn] = slip]
  BY DEF Place
<1>2. slip \in Slip
  BY DEF Slip
<1> HIDE DEF bn, slip
<1>3. SlipsOK'
  BY <1>1, <1>2 DEF SlipsOK
<1>4. PendingBets' \subseteq PendingBets \cup {bn}
  BY <1>1 DEF PendingBets, Is, SlipsOK, SlipSet
<1>5. /\ IsFiniteSet(PendingBets \cup {bn})
      /\ Cardinality(PendingBets \cup {bn}) <= Cardinality(PendingBets) + 1
  <2> DEFINE before == PendingBets
  <2>1. IsFiniteSet(before) /\ Cardinality(before) \in Nat
    BY PendingFinite
  <2> HIDE DEF before
  <2>2. /\ IsFiniteSet(before \cup {bn})
        /\ Cardinality(before \cup {bn}) \in {Cardinality(before), Cardinality(before) + 1}
    BY <2>1, FS_AddElement
  <2> QED
    BY <2>1, <2>2 DEF before
<1>6. Cardinality(PendingBets') <= Cardinality(PendingBets \cup {bn})
  BY <1>4, <1>5, FS_Subset
<1>7. /\ Cardinality(PendingBets') \in Nat /\ Cardinality(PendingBets) \in Nat
      /\ Cardinality(PendingBets \cup {bn}) \in Nat
  BY <1>4, <1>5, FS_Subset, PendingFinite, FS_CardinalityType
<1> QED
  BY <1>3, <1>5, <1>6, <1>7

-----------------------------------------------------------------------------
(* A step that leaves the bets alone, and takes the script no nearer its   *)
(* commit, keeps the limit.                                                *)
LEMMA LimitKept ==
    ASSUME LimitInv, UNCHANGED <<slips, script>>,
           pending' \in Nat,
           at' = "print" /\ script = "demo" =>
                (pending' = Cardinality(PendingBets) \/ UNCHANGED <<at, pending>>),
           Running' /\ at' = "commit" =>
                (Cardinality(PendingBets) < MaxPending \/ (Running /\ UNCHANGED at))
    PROVE  LimitInv'
<1>1. PendingBets' = PendingBets
  BY DEF PendingBets, Is
<1>2. SlipsOK'
  BY DEF LimitInv, SlipsOK
<1> QED
  BY <1>1, <1>2, PendingFinite DEF LimitInv

LEMMA NextLimitInv ==
    ASSUME LimitInv, [DriverNext]_scriptVars
    PROVE  LimitInv'
<1>0. pending \in Nat /\ Cardinality(PendingBets) \in Nat
  BY PendingFinite DEF LimitInv
<1>1. CASE PickFixture
  BY <1>1, <1>0, LimitKept DEF PickFixture, At, ledgerVars
<1>2. CASE LookLive
  BY <1>2, <1>0, LimitKept DEF LookLive, At, ledgerVars
<1>3. CASE LookDemo
  BY <1>3, <1>0, LimitKept DEF LookDemo, At, ledgerVars
<1>4. CASE ReadPrint
  <2>1. script = "demo" => Cardinality(PendingBets) <= pending
    BY <1>4 DEF ReadPrint, At, LimitInv
  <2>2. script = "demo" /\ at' = "commit" => Cardinality(PendingBets) < MaxPending
    BY <1>4, <2>1, PendingFinite, DriverAssumption DEF ReadPrint, Commits, Skips, LimitInv
  <2> QED
    BY <1>4, <2>1, <2>2, <1>0, LimitKept DEF ReadPrint, At, ledgerVars, Commits, Skips, LimitInv
<1>5. CASE CountPending
  BY <1>5, <1>0, LimitKept DEF CountPending, At, ledgerVars, Commits, Skips
<1>6. CASE Commit
  <2>1. Running /\ at = "commit" /\ UNCHANGED <<script, pending>> /\ at' = "look"
    BY <1>6 DEF Commit, At
  <2>2. SlipsOK' /\ Cardinality(PendingBets') <= Cardinality(PendingBets) + 1
    BY <1>6, CommitAddsOne DEF Commit, LimitInv
  <2>3. Cardinality(PendingBets) < MaxPending
    BY <2>1 DEF LimitInv
  <2> QED
    BY <2>1, <2>2, <2>3, CountPrimed, PendingFinite, DriverAssumption DEF LimitInv
<1>7. CASE Throws
  <2>1. CASE UNCHANGED ledgerVars
    BY <1>7, <2>1, <1>0, LimitKept DEF Throws, ledgerVars
  <2>2. CASE at = "commit" /\ \E terms \in Terms : Place(Driver, commits, terms)
    <3>1. /\ Running /\ at = "commit" /\ UNCHANGED <<script, pending, at>> /\ exit' = "crash"
      BY <1>7, <2>2 DEF Throws
    <3>2. SlipsOK' /\ Cardinality(PendingBets') <= Cardinality(PendingBets) + 1
      BY <2>2, CommitAddsOne DEF LimitInv
    <3>3. Cardinality(PendingBets) < MaxPending /\ ~Running'
      BY <3>1 DEF LimitInv, Running
    <3> QED
      BY <3>1, <3>2, <3>3, CountPrimed, PendingFinite, DriverAssumption DEF LimitInv
  <2> QED
    BY <1>7, <2>1, <2>2 DEF Throws
<1>8. CASE DeadlinePasses \/ NewPrint \/ GrowsOld
  BY <1>8, <1>0, LimitKept DEF DeadlinePasses, NewPrint, GrowsOld, ledgerVars, Running
<1>9. CASE KeeperCranks
  <2>1. /\ Running /\ UNCHANGED driverVars
        /\ SlipsOK' /\ Cardinality(PendingBets') <= Cardinality(PendingBets)
    BY <1>9, CranksOnlyFewer DEF KeeperCranks, LimitInv
  <2> QED
    BY <2>1, CountPrimed, PendingFinite, DriverAssumption DEF LimitInv, driverVars, Running
<1>10. CASE UNCHANGED scriptVars
  BY <1>10, <1>0, LimitKept DEF scriptVars, driverVars, ledgerVars, Running
<1> QED
  BY <1>1, <1>2, <1>3, <1>4, <1>5, <1>6, <1>7, <1>8, <1>9, <1>10
  DEF DriverNext, ScriptSteps

(* However the fills and refunds fall between its reads, and wherever it   *)
(* stops, a script that bets never has more bets waiting than MaxPending.  *)
THEOREM PendingAlwaysWithinLimit == DriverSpec => []PendingWithinLimit
<1>1. LedgerInit /\ script \in {"live", "demo"} /\ DriverInit => LimitInv
  <2> SUFFICES ASSUME LedgerInit, script \in {"live", "demo"}, DriverInit
               PROVE  LimitInv
    OBVIOUS
  <2>1. SlipsOK
    BY DEF LedgerInit, SlipsOK, SlipSet
  <2>2. PendingBets = {}
    BY DEF PendingBets, Is, LedgerInit
  <2>3. Cardinality(PendingBets) = 0
    BY <2>2, FS_EmptySet
  <2> QED
    BY <2>1, <2>3, DriverAssumption DEF LimitInv, DriverInit
<1>2. LimitInv /\ [DriverNext]_scriptVars => LimitInv'
  BY NextLimitInv
<1>3. LimitInv => PendingWithinLimit
  BY DEF LimitInv, PendingWithinLimit
<1> QED
  BY <1>1, <1>2, <1>3, PTL DEF DriverSpec
=============================================================================
