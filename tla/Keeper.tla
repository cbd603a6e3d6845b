------------------------------- MODULE Keeper -------------------------------
(***************************************************************************)
(* The repository's keeper (keeper.ts, one tick per cron invocation)       *)
(* against the program.  A tick works through a snapshot of the bets, one  *)
(* request or transaction at a time; between any two of them the program   *)
(* may take any step of Bethehouse.  The keeper is one more cranker: its   *)
(* transactions are the instructions of Bethehouse, and one the program    *)
(* refuses is an exception.  The lookup table and the keeper's own token   *)
(* account are taken as there; the host's clock is the cluster's.          *)
(***************************************************************************)
EXTENDS BethehouseProperties, SequencesExt

CONSTANTS
    Self,               \* the user the keeper signs as
    DISCOVERY_EVERY,    \* ticks from one full discovery to the next
    COMMIT_LOOKBACK_MS, FILL_TOLERANCE_MS, FRESH_GRACE_MS, COMMIT_EXPIRY_MS,
    MaxFailures         \* bound on failed requests and lost instances

VARIABLES
    known,              \* PDAs of the bets seen so far
    tickCount,          \* ticks so far, modulo DISCOVERY_EVERY
    step,               \* where the tick is
    batch,              \* the snapshot's bets still to be looked at
    nowMs,              \* the clock as the tick read it
    choice,             \* the two prints picked for the first bet of batch
    toProve,            \* of these, the records still to be proven
    failures

tickVars == <<step, batch, nowMs, choice, toProve>>
keeperVars == <<known, tickCount, tickVars, failures>>
allVars == <<vars, keeperVars>>

Steps == {"idle", "fetched", "next", "proofs", "check", "send", "fill",
          "refund", "settle"}

ASSUME KeeperAssumption ==
    /\ Self \in Users
    /\ DISCOVERY_EVERY \in Nat \ {0, 1}
    /\ {COMMIT_LOOKBACK_MS, FILL_TOLERANCE_MS, FRESH_GRACE_MS, COMMIT_EXPIRY_MS}
            \subseteq Nat
    /\ MaxFailures \in Nat

pda == Head(batch).publicKey
account == Head(batch).account

-----------------------------------------------------------------------------
(* Leaving a step; none of these is an action by itself. *)

NoChoice == <<>>

Goto(s) ==
    /\ step' = s
    /\ UNCHANGED <<batch, nowMs, choice, toProve>>

(* On to the next bet of the snapshot. *)
NextBet_Break ==
    /\ step' = "next"
    /\ batch' = <<>>
    /\ choice' = NoChoice
    /\ toProve' = <<>>
    /\ UNCHANGED nowMs
NextBet ==
    /\ step' = "next"
    /\ batch' = Tail(batch)
    /\ choice' = NoChoice
    /\ toProve' = <<>>
    /\ UNCHANGED nowMs

(* The end of the tick, and what an exception makes of it: nothing after   *)
(* the bet that threw is looked at.                                        *)
Return ==
    /\ step' = "idle"
    /\ batch' = <<>>
    /\ nowMs' = 0
    /\ choice' = NoChoice
    /\ toProve' = <<>>

Keeps == UNCHANGED <<known, tickCount, failures>>
Reads == Keeps /\ UNCHANGED vars

-----------------------------------------------------------------------------
(* Starting a tick *)

(* Full discovery lists every bet; in between, the known ones are polled   *)
(* and those closed meanwhile forgotten.                                   *)
fetchBets_KnownOnly(count) ==
    LET asked == IF known = {} THEN DOMAIN bets ELSE known
    IN  {bn \in asked : Exists(bets[bn])}
fetchBets(count) ==
    LET asked == IF known = {} \/ count = 1 THEN DOMAIN bets ELSE known
    IN  {bn \in asked : Exists(bets[bn])}

(* The accounts found, in whatever order the node lists them. *)
Snapshots(found) ==
    SetToSeqs({[publicKey |-> bn, account |-> bets[bn]] : bn \in found})

(* The cron route starts no tick while one is in flight. *)
StartTick ==
    /\ step = "idle"
    /\ tickCount' = (tickCount + 1) % DISCOVERY_EVERY
    /\ known' = fetchBets(tickCount')
    /\ batch' \in Snapshots(known')
    /\ step' = "fetched"
    /\ UNCHANGED <<vars, nowMs, choice, toProve, failures>>

ReadClock ==
    /\ step = "fetched"
    /\ nowMs' = now_ms
    /\ step' = "next"
    /\ UNCHANGED <<batch, choice, toProve>>
    /\ Reads

EndTick ==
    /\ step = "next"
    /\ batch = <<>>
    /\ Return
    /\ Reads

(* Bets that ended, and pending ones whose target time has not come. *)
Skip ==
    /\ step = "next"
    /\ batch # <<>>
    /\ \/ account.state \in Terminal
       \/ account.state = "Pending" /\ nowMs < account.target_ts_ms
    /\ NextBet
    /\ Reads

-----------------------------------------------------------------------------
(* Filling *)

(* The 1X2 records of a fixture the oracle has published so far. *)
oddsUpdates(f) ==
    {r \in Feed : r.fixture_id = f /\ Published(r) /\ check_1x2_record(r)}

Latest(records) == CHOOSE r \in records : \A q \in records : q.ts <= r.ts
Earliest(records) == CHOOSE r \in records : \A q \in records : q.ts >= r.ts

CommitRecords(bet) ==
    {r \in oddsUpdates(bet.fixture_id) :
        bet.commit_ts_ms - COMMIT_LOOKBACK_MS <= r.ts /\ r.ts <= bet.commit_ts_ms}

TargetRecords_Any(bet, commit) ==
    {r \in oddsUpdates(bet.fixture_id) :
        r.ts > commit.ts /\ bet.target_ts_ms <= r.ts}
TargetRecords(bet, commit) ==
    {r \in oddsUpdates(bet.fixture_id) :
        /\ r.ts > commit.ts
        /\ bet.target_ts_ms <= r.ts
        /\ r.ts <= bet.target_ts_ms + FILL_TOLERANCE_MS}

(* The prints to fill with, if any: the latest record before the commit    *)
(* and the earliest from the target on; the former for both once the grace *)
(* for a fresher one is over.                                              *)
GraceOver_AtOnce(bet) == TRUE
GraceOver(bet) == now_ms >= bet.target_ts_ms + FRESH_GRACE_MS

pickPrints(bet) ==
    LET commit == Latest(CommitRecords(bet))
        targets == TargetRecords(bet, commit)
    IN  CASE CommitRecords(bet) = {} -> {}
          [] CommitRecords(bet) # {} /\ targets # {} ->
                {[commit |-> commit, target |-> Earliest(targets)]}
          [] CommitRecords(bet) # {} /\ targets = {} /\ GraceOver(bet) ->
                {[commit |-> commit, target |-> commit]}
          [] OTHER -> {}

(* A bet not filled is refunded once it expired, by the time the tick      *)
(* started.                                                                *)
Unfilled ==
    IF nowMs > account.target_ts_ms + COMMIT_EXPIRY_MS THEN Goto("refund") ELSE NextBet

TryFill ==
    /\ step = "next"
    /\ batch # <<>>
    /\ account.state = "Pending"
    /\ nowMs >= account.target_ts_ms
    /\ \/ /\ pickPrints(account) = {}
          /\ Unfilled
       \/ \E picked \in pickPrints(account) :
            /\ choice' = picked
            /\ toProve' = IF picked.commit = picked.target
                          THEN <<picked.commit>>
                          ELSE <<picked.commit, picked.target>>
            /\ step' = "proofs"
            /\ UNCHANGED <<batch, nowMs>>
    /\ Reads

GetProofs ==
    /\ step = "proofs"
    /\ Goto("check")
    /\ Reads

(* The batch root of one of the records is not published yet: 404. *)
ProofsMissing ==
    /\ step = "proofs"
    /\ failures < MaxFailures
    /\ failures' = failures + 1
    /\ Unfilled
    /\ UNCHANGED <<vars, known, tickCount>>

(* provePrint looks for the print before it sends the transaction. *)
CheckPrint_Blind ==
    /\ step = "check"
    /\ IF toProve = <<>> THEN Goto("fill") ELSE Goto("send")
    /\ Reads
CheckPrint ==
    /\ step = "check"
    /\ IF toProve = <<>> THEN Goto("fill")
       ELSE IF \E print \in prints : SamePrint(print, Head(toProve))
       THEN toProve' = Tail(toProve) /\ UNCHANGED <<step, batch, nowMs, choice>>
       ELSE Goto("send")
    /\ Reads

SendProvePrint ==
    /\ step = "send"
    /\ \/ /\ ProvePrint(Self, Head(toProve))
          /\ toProve' = Tail(toProve)
          /\ step' = "check"
          /\ UNCHANGED <<batch, nowMs, choice>>
       \/ /\ ~ENABLED ProvePrint(Self, Head(toProve))
          /\ Return
          /\ UNCHANGED vars
    /\ Keeps

(* The print accounts the transaction names, by fixture and time. *)
PrintsOf(odds) == {print \in prints : SamePrint(print, odds)}

Fill ==
    \E commit_print \in PrintsOf(choice.commit), target_print \in PrintsOf(choice.target) :
        FillBet(Self, pda[1], pda[2], commit_print, target_print)

SendFill ==
    /\ step = "fill"
    /\ \/ Fill /\ NextBet
       \/ ~ENABLED Fill /\ Return /\ UNCHANGED vars
    /\ Keeps

(* Refused refunds are caught. *)
TryRefund ==
    /\ step = "refund"
    /\ \/ RefundCommit(pda[1], pda[2])
       \/ ~ENABLED RefundCommit(pda[1], pda[2]) /\ UNCHANGED vars
    /\ NextBet
    /\ Keeps

-----------------------------------------------------------------------------
(* Settling *)

Finalised(f) ==
    {ev \in scores : ev.fixture_id = f /\ ev.period = PERIOD_GAME_FINALISED}

TrySettle ==
    /\ step = "next"
    /\ batch # <<>>
    /\ account.state = "Active"
    /\ IF Finalised(account.fixture_id) = {} THEN NextBet ELSE Goto("settle")
    /\ Reads

(* The scores request failed, which is taken as no coverage yet. *)
ScoresMissing ==
    /\ step = "next"
    /\ batch # <<>>
    /\ account.state = "Active"
    /\ failures < MaxFailures
    /\ failures' = failures + 1
    /\ NextBet
    /\ UNCHANGED <<vars, known, tickCount>>

Settle ==
    \E ev \in Finalised(account.fixture_id) : SettleBet(Self, pda[1], pda[2], ev)

SendSettle ==
    /\ step = "settle"
    /\ \/ Settle /\ NextBet
       \/ ~ENABLED Settle /\ Return /\ UNCHANGED vars
    /\ Keeps

-----------------------------------------------------------------------------
(* Failures: a request or the confirmation of a transaction throws and     *)
(* ends the tick; the instance goes away and the next starts cold.         *)

(* The fetch itself throws: the tick counts, but nothing is discovered. *)
FetchFails ==
    /\ step = "idle"
    /\ failures < MaxFailures
    /\ failures' = failures + 1
    /\ tickCount' = (tickCount + 1) % DISCOVERY_EVERY
    /\ UNCHANGED <<vars, known, tickVars>>

RequestFails ==
    /\ step # "idle"
    /\ failures < MaxFailures
    /\ failures' = failures + 1
    /\ Return
    /\ UNCHANGED <<vars, known, tickCount>>

ColdStart ==
    /\ failures < MaxFailures
    /\ failures' = failures + 1
    /\ known' = {}
    /\ tickCount' = 0
    /\ Return
    /\ UNCHANGED vars

-----------------------------------------------------------------------------
(* Specification: the keeper among everything else that happens. *)

KeeperInit ==
    /\ known = {}
    /\ tickCount = 0
    /\ step = "idle"
    /\ batch = <<>>
    /\ nowMs = 0
    /\ choice = NoChoice
    /\ toProve = <<>>
    /\ failures = 0

KeeperStep ==
    \/ StartTick \/ ReadClock \/ EndTick \/ Skip
    \/ TryFill \/ GetProofs \/ CheckPrint \/ SendProvePrint \/ SendFill
    \/ TryRefund \/ TrySettle \/ SendSettle

KeeperFailure ==
    ProofsMissing \/ ScoresMissing \/ FetchFails \/ RequestFails \/ ColdStart

Elsewhere == Next /\ UNCHANGED keeperVars

KeeperNext == KeeperStep \/ KeeperFailure \/ Elsewhere

KeeperSpec == Init /\ KeeperInit /\ [][KeeperNext]_allVars

-----------------------------------------------------------------------------
(* What the keeper is to do *)

Picked == step \in {"proofs", "check", "send", "fill"}

(* "Mirror the on-chain Config": the keeper's windows are no wider than    *)
(* those of any config the admin may choose, nor is the grace than the     *)
(* tolerance; a target time lies after its commit and adds up in 64 bits.  *)
WindowsMirrored ==
    /\ FRESH_GRACE_MS <= FILL_TOLERANCE_MS
    /\ \A c \in ConfigChoices :
        /\ COMMIT_LOOKBACK_MS <= c.staleness_window_ms
        /\ FILL_TOLERANCE_MS <= c.fill_tolerance_ms
        /\ c.commit_delay_ms > 0
        /\ \A d \in ConfigChoices :
            MaxTime * 1000 + d.commit_delay_ms + c.fill_tolerance_ms <= MaxI64

(* "Mirror the on-chain Config": whatever the keeper is about to prove and *)
(* fill with lies in the windows fill_bet accepts for the bet it looked    *)
(* at, however long the tick has been running.                             *)
PicksFitWindows ==
    Picked =>
        /\ InCommitWindow(account, choice.commit)
        /\ InTargetWindow(account, choice.commit, choice.target)

(* "Worse-of-two protection when a fresh price exists": the keeper fills   *)
(* at the commit price alone only when the oracle has no pre-match record  *)
(* between the target time and the end of the grace.                       *)
FallsBackOnlyInLull ==
    Picked /\ choice.commit = choice.target =>
        ~\E r \in Feed :
            /\ r.fixture_id = account.fixture_id
            /\ check_1x2_record(r)
            /\ account.target_ts_ms <= r.ts
            /\ r.ts < account.target_ts_ms + FRESH_GRACE_MS

(* keeper.ts: "so the keeper never picks a print the program would reject".*)
PicksAreAccepted ==
    Picked => Qualify(account, choice.commit, choice.target)

(* The cron route is invoked again and again, and the clock runs.  Some    *)
(* KeeperStep is enabled in every state, so its weak fairness says that    *)
(* the tick moves, other than by a failure, for ever.                      *)
KeeperFairness ==
    /\ []<><<failures' = failures>>_tickVars
    /\ WF_vars(Tick)

(* The keeper alone, whatever others do, gets every bet out of Pending: it *)
(* sees it, and fills it or refunds it once it expired, although requests  *)
(* fail, instances die and its transactions lose races.                    *)
KeeperFillsOrRefunds ==
    \A bn \in Bettors \X Nonces :
        InState(bn[1], bn[2], "Pending") ~> ~InState(bn[1], bn[2], "Pending")

(* The keeper alone settles every active bet whose fixture is final, while *)
(* the vault is ample.                                                     *)
KeeperSettles ==
    \A bn \in Bettors \X Nonces :
        (InState(bn[1], bn[2], "Active") /\ FinalOf(bets[bn].fixture_id) # {})
            ~> ~InState(bn[1], bn[2], "Active")
=============================================================================
