----------------------------- MODULE BettorPage -----------------------------
(***************************************************************************)
(* The bettor's page (bettor.tsx) and its wallet (wallet.tsx), in one tab, *)
(* against the ledger of bets the program implements (BetLedger).  Every   *)
(* five seconds, and whenever the wallet or the receipts change, the page  *)
(* polls; nothing stops a poll from overtaking another or from outliving   *)
(* the wallet it was started for.  Placing a bet asks the router for a     *)
(* transaction, which the wallet signs and sends; what the wallet reports  *)
(* and what becomes of the transaction are two things.                     *)
(* A bet's fixture is taken to be its nonce, and some outcome to be priced *)
(* always; names, figures, error texts and layout are left out.            *)
(***************************************************************************)
EXTENDS BetLedger, FiniteSetsExt

CONSTANTS
    NoOne,              \* no wallet connected
    NoPick,             \* nothing on the slip
    NoPoll,             \* a slot of polls that is free
    MaxPolls,           \* bound on polls in flight, or fewer: DOMAIN polls
    MaxPicks,           \* bound on outcomes tapped
    MaxSwitches,        \* bound on changes of wallet
    MaxFailures         \* bound on requests that fail

VARIABLES
    owner,              \* address of the wallet session
    modal,              \* whether the wallet picker is open
    busy,               \* whether the wallet is signing
    timer,              \* what the poll callback closes over
    polls,              \* polls in flight
    bets, betsReady,    \* "My bets", and whether they are shown
    results,            \* the receipts fetched
    pick,               \* the outcome on the slip
    placing,            \* the placement under way
    sent,               \* transactions given to the cluster and still good
    history,            \* every transaction sent, with the pick it is for
    misreported,        \* picks whose wallet reported failure, yet had sent
    picks, switches, failures

ASSUME PageAssumption == NoPick \notin Nat

sessionVars == <<owner, modal, switches>>
pollVars == <<timer, polls, bets, betsReady, results>>
slipVars == <<busy, pick, placing, picks>>
sentVars == <<sent, history, misreported>>
pageVars == <<sessionVars, pollVars, slipVars, sentVars, failures>>
tabVars == <<ledgerVars, pageVars>>

Idle == [at |-> "idle"]

Fails == failures < MaxFailures /\ failures' = failures + 1

-----------------------------------------------------------------------------
(* The server's view of a wallet's bets (api/bets) *)

View(w) ==
    [nonce \in Nonces |->
        IF slips[<<w, nonce>>] = NoSlip THEN "none" ELSE slips[<<w, nonce>>].state]
NoBets == [of |-> NoOne, view |-> [nonce \in Nonces |-> "none"]]

-----------------------------------------------------------------------------
(* Polling *)

(* useCallback's dependencies. *)
Closure_Results == [of |-> timer.of, results |-> results]
Closure == [of |-> owner, results |-> results]

Started(closure) == [of |-> closure.of, results |-> closure.results,
                     at |-> "asking", view |-> NoBets.view, todo |-> {}]

Free == {i \in DOMAIN polls : polls[i] = NoPoll}
Waiting(i, at) == i \in DOMAIN polls \ Free /\ polls[i].at = at

Start(closure) ==
    /\ Free # {}
    /\ polls' = [polls EXCEPT ![Min(Free)] = Started(closure)]
GoesOn(i, p) == polls' = [polls EXCEPT ![i] = p]
Ends(i) == GoesOn(i, NoPoll)

(* The callback is made again and called at once. *)
NewCallback ==
    /\ timer # Closure
    /\ timer' = Closure
    /\ Start(Closure)
    /\ UNCHANGED <<ledgerVars, sessionVars, bets, betsReady, results, slipVars,
                   sentVars, failures>>

Interval ==
    /\ Start(timer)
    /\ UNCHANGED <<ledgerVars, sessionVars, timer, bets, betsReady, results, slipVars,
                   sentVars, failures>>

(* Without a wallet the poll ends with the coupon. *)
CouponOnly(i) ==
    /\ Waiting(i, "asking") /\ polls[i].of = NoOne
    /\ bets' = NoBets
    /\ Ends(i)
    /\ UNCHANGED <<ledgerVars, sessionVars, timer, betsReady, results, slipVars,
                   sentVars, failures>>

ServerReads(i) ==
    /\ Waiting(i, "asking") /\ polls[i].of # NoOne
    /\ GoesOn(i, [polls[i] EXCEPT !.at = "answer", !.view = View(polls[i].of)])
    /\ UNCHANGED <<ledgerVars, sessionVars, timer, bets, betsReady, results, slipVars,
                   sentVars, failures>>

(* Settled bets without a receipt, as far as the callback knows. *)
Unresolved_WonOnly(view, seen) == {n \in Nonces : view[n] = "Won"} \ seen
Unresolved(view, seen) == {n \in Nonces : view[n] \in {"Won", "Lost"}} \ seen

(* The skeletons give way last, after the receipts. *)
Receipts(i, todo) ==
    IF todo = {}
    THEN Ends(i) /\ betsReady' = TRUE
    ELSE /\ GoesOn(i, [polls[i] EXCEPT !.at = "receipts", !.todo = todo])
         /\ UNCHANGED betsReady

BetsAnswer(i) ==
    /\ Waiting(i, "answer")
    /\ bets' = [of |-> polls[i].of, view |-> polls[i].view]
    /\ Receipts(i, Unresolved(polls[i].view, polls[i].results))
    /\ UNCHANGED <<ledgerVars, sessionVars, timer, results, slipVars, sentVars,
                   failures>>

BetsFail(i) ==
    /\ Waiting(i, "asking") /\ polls[i].of # NoOne
    /\ Fails
    /\ Ends(i)
    /\ betsReady' = TRUE
    /\ UNCHANGED <<ledgerVars, sessionVars, timer, bets, results, slipVars, sentVars>>

(* One receipt at a time (api/result); one that fails is left for later. *)
ReceiptAnswers(i) ==
    /\ Waiting(i, "receipts")
    /\ \E n \in polls[i].todo :
        /\ \/ results' = results \cup {n} /\ UNCHANGED failures
           \/ Fails /\ UNCHANGED results
        /\ Receipts(i, polls[i].todo \ {n})
    /\ UNCHANGED <<ledgerVars, sessionVars, timer, bets, slipVars, sentVars>>

-----------------------------------------------------------------------------
(* The wallet *)

(* "connect wallet" opens the picker, over everything else. *)
Connect ==
    /\ owner = NoOne /\ ~modal
    /\ modal' = TRUE
    /\ UNCHANGED <<ledgerVars, owner, switches, pollVars, slipVars, sentVars, failures>>

(* The user picks a wallet, or closes the picker.  A new session brings    *)
(* the skeletons back.                                                     *)
PickWallet ==
    /\ modal
    /\ modal' = FALSE
    /\ \/ UNCHANGED <<owner, betsReady, switches>>
       \/ /\ switches < MaxSwitches
          /\ owner' \in Bettors
          /\ betsReady' = FALSE
          /\ switches' = switches + 1
    /\ UNCHANGED <<ledgerVars, timer, polls, bets, results, slipVars, sentVars, failures>>

Disconnect ==
    /\ owner # NoOne
    /\ switches < MaxSwitches
    /\ owner' = NoOne
    /\ betsReady' = FALSE
    /\ switches' = switches + 1
    /\ UNCHANGED <<ledgerVars, modal, timer, polls, bets, results, slipVars, sentVars,
                   failures>>

-----------------------------------------------------------------------------
(* The slip *)

(* A cell of the coupon can be tapped also while a bet is being placed. *)
Tap ==
    /\ picks < MaxPicks /\ ~modal
    /\ pick' = picks + 1
    /\ picks' = picks + 1
    /\ UNCHANGED <<ledgerVars, sessionVars, pollVars, busy, placing, sentVars, failures>>

CloseSlip ==
    /\ pick # NoPick /\ ~modal
    /\ pick' = NoPick
    /\ UNCHANGED <<ledgerVars, sessionVars, pollVars, busy, placing, picks, sentVars,
                   failures>>

(* Without a wallet the button opens the picker and nothing is placed. *)
PlaceBet ==
    /\ pick # NoPick /\ placing = Idle /\ ~busy /\ ~modal
    /\ IF owner = NoOne
       THEN modal' = TRUE /\ UNCHANGED placing
       ELSE /\ placing' = [at |-> "asking", pick |-> pick, bettor |-> owner,
                            closure |-> Closure]
            /\ UNCHANGED modal
    /\ UNCHANGED <<ledgerVars, owner, switches, pollVars, busy, pick, picks, sentVars,
                   failures>>

(* The router refuses, or cannot be reached. *)
RouterRefuses ==
    /\ placing.at = "asking"
    /\ Fails
    /\ placing' = Idle
    /\ UNCHANGED <<ledgerVars, sessionVars, pollVars, busy, pick, picks, sentVars>>

(* It answers with a transaction for an account that does not exist yet;   *)
(* which one does not matter.                                              *)
RouterAnswers ==
    /\ placing.at = "asking"
    /\ \E nonce \in Nonces, terms \in Terms :
        /\ nonce = Cardinality(history) + 1
        /\ placing' = [at |-> "signing", pick |-> placing.pick,
                       bettor |-> placing.bettor, closure |-> placing.closure,
                       nonce |-> nonce, terms |-> terms]
    /\ busy' = TRUE
    /\ UNCHANGED <<ledgerVars, sessionVars, pollVars, pick, picks, sentVars, failures>>

Transaction == [pick |-> placing.pick, bettor |-> placing.bettor,
                nonce |-> placing.nonce, terms |-> placing.terms]

(* The wallet signs and sends; what it reports comes later. *)
WalletSends ==
    /\ placing.at = "signing"
    /\ sent' = sent \cup {Transaction}
    /\ history' = history \cup {Transaction}
    /\ placing' = [placing EXCEPT !.at = "sent"]
    /\ UNCHANGED <<ledgerVars, sessionVars, pollVars, busy, pick, picks, misreported,
                   failures>>

ClearSlip_Kept == UNCHANGED pick
ClearSlip == pick' = NoPick

(* The slip is cleared, whatever is on it by now, and the page polls as it *)
(* was when Place was tapped.                                              *)
WalletReports ==
    /\ placing.at = "sent"
    /\ ClearSlip
    /\ Start(placing.closure)
    /\ placing' = Idle /\ busy' = FALSE
    /\ UNCHANGED <<ledgerVars, sessionVars, timer, bets, betsReady, results, picks,
                   sentVars, failures>>

(* The user declines, or the wallet fails, before sending or after.  The   *)
(* pick stays on the slip.                                                 *)
WalletThrows ==
    /\ placing.at \in {"signing", "sent"}
    /\ Fails
    /\ misreported' =
        IF placing.at = "sent" THEN misreported \cup {placing.pick} ELSE misreported
    /\ placing' = Idle /\ busy' = FALSE
    /\ UNCHANGED <<ledgerVars, sessionVars, pollVars, pick, picks, sent, history>>

-----------------------------------------------------------------------------
(* The chain: transactions land or expire, keepers crank. *)

Lands(tx) ==
    /\ tx \in sent
    /\ Place(tx.bettor, tx.nonce, tx.terms)
    /\ sent' = sent \ {tx}
    /\ UNCHANGED <<sessionVars, pollVars, slipVars, history, misreported, failures>>

Expires(tx) ==
    /\ tx \in sent
    /\ sent' = sent \ {tx}
    /\ UNCHANGED <<ledgerVars, sessionVars, pollVars, slipVars, history, misreported,
                   failures>>

ChainCranks ==
    /\ \E bettor \in Bettors, nonce \in Nonces :
        \/ Fill(bettor, nonce) \/ Refund(bettor, nonce) \/ Win(bettor, nonce)
        \/ Lose(bettor, nonce) \/ Void(bettor, nonce) \/ Close(bettor, nonce)
    /\ UNCHANGED pageVars

-----------------------------------------------------------------------------
(* A fresh tab, or one where a wallet has connected and a poll has ended.  *)
PageInit ==
    /\ modal = FALSE /\ busy = FALSE
    /\ timer = [of |-> owner, results |-> {}]
    /\ polls \in {[i \in 1..n |-> NoPoll] : n \in 1..MaxPolls}
    /\ bets = IF owner = NoOne THEN NoBets ELSE [of |-> owner, view |-> View(owner)]
    /\ betsReady = (owner # NoOne)
    /\ results = {}
    /\ pick = NoPick /\ placing = Idle
    /\ sent = {} /\ history = {} /\ misreported = {}
    /\ failures = 0

PollNext ==
    \/ NewCallback \/ Interval
    \/ \E i \in 1..MaxPolls : CouponOnly(i) \/ ServerReads(i) \/ BetsAnswer(i)
                              \/ BetsFail(i) \/ ReceiptAnswers(i)

SlipNext ==
    \/ Connect \/ PickWallet \/ Disconnect \/ Tap \/ CloseSlip \/ PlaceBet
    \/ RouterRefuses \/ RouterAnswers \/ WalletSends \/ WalletReports \/ WalletThrows

ChainNext == ChainCranks \/ \E tx \in sent : Lands(tx) \/ Expires(tx)

PageNext == PollNext \/ SlipNext \/ ChainNext

(* Whatever bets there are when the page is opened. *)
PageSpec == PageInit /\ picks \in Nat /\ [][PageNext]_tabVars

(* Effects run, the interval fires and requests are answered.  An effect   *)
(* waits for nothing: only MaxPolls can keep the new callback waiting,     *)
(* hence strong fairness.                                                  *)
PageFairness ==
    /\ SF_pageVars(NewCallback) /\ WF_pageVars(Interval)
    /\ \A i \in 1..MaxPolls :
        WF_pageVars(CouponOnly(i) \/ ServerReads(i) \/ BetsAnswer(i) \/ ReceiptAnswers(i))

-----------------------------------------------------------------------------
(* A page that polls without end, out of order and across wallets, still   *)
(* comes to show the bets of the wallet that stays connected as they are,  *)
(* once they change no more: no late answer of an earlier poll, or of an   *)
(* earlier wallet, stays up.                                               *)
ShownCatchesUp ==
    <>[](owner # NoOne => betsReady /\ bets = [of |-> owner, view |-> View(owner)])

(* A bet that was won or lost gets its receipt, though each poll only      *)
(* asks for those its callback did not know of, one at a time, and any of  *)
(* them can fail.                                                          *)
ReceiptFollows ==
    <>[](owner # NoOne =>
            {n \in Nonces : View(owner)[n] \in {"Won", "Lost"}} \subseteq results)

(* One tick on the coupon is one bet: a pick is only ever committed a      *)
(* second time when the wallet said the first had failed.                  *)
TwiceOnlyIfMisreported ==
    \A tx1, tx2 \in history :
        tx1 # tx2 /\ tx1.pick = tx2.pick => tx1.pick \in misreported
=============================================================================
