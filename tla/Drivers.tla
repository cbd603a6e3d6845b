------------------------------ MODULE Drivers ------------------------------
(***************************************************************************)
(* The two scripts that drive a whole deployment, live-e2e.ts and demo.ts, *)
(* once it is set up: a loop that looks at the bets, stops or waits, and   *)
(* commits a small bet whenever the feed has a fresh print, against the    *)
(* ledger of bets the program implements (BetLedger).  The keeper runs in  *)
(* the script's own process, so the chain goes no further than the script. *)
(***************************************************************************)
EXTENDS BetLedger, FiniteSets

CONSTANTS
    Driver,             \* the bettor the script signs for
    MaxCommits,         \* 12 in both scripts
    MaxPending,         \* 3 in both scripts
    MaxPrints           \* bound on prints of the feed

VARIABLES
    script,             \* "off", "live", "demo", or "watch": DEMO_AUTOBET=0
    at,                 \* where in its loop the script is
    pending,            \* the demo's count of pending bets
    feed,               \* prints so far, and whether the last is fresh
    lastPrint, commits,
    overdue,            \* whether DEADLINE_MS has passed
    exit                \* how the script ended

ASSUME DriverAssumption == IsFiniteSet(Bettors \X Nonces) /\ MaxPending \in Nat

driverVars == <<script, at, pending, feed, lastPrint, commits, overdue, exit>>
scriptVars == <<ledgerVars, driverVars>>

Running == script # "off" /\ exit = "none"

PendingBets == {bn \in Bettors \X Nonces : Is(bn, "Pending")}
Active == \E bn \in Bettors \X Nonces : Is(bn, "Active")
Settled == \E bn \in Bettors \X Nonces : Is(bn, "Won") \/ Is(bn, "Lost")

At(step) == Running /\ at = step

-----------------------------------------------------------------------------
(* live-e2e takes the fixture it is given or the next one that is quoted.  *)
PickFixture ==
    /\ At("pick")
    /\ \/ at' = "look" /\ UNCHANGED exit
       \/ exit' = "no fixture" /\ UNCHANGED at
    /\ UNCHANGED <<ledgerVars, script, pending, feed, lastPrint, commits, overdue>>

(* live-e2e stops at the first fill it sees, and at the deadline. *)
LookLive ==
    /\ At("look") /\ script = "live"
    /\ exit' = CASE Active -> "ok"
                 [] ~Active /\ overdue -> "deadline"
                 [] OTHER -> "none"
    /\ at' = "print"
    /\ UNCHANGED <<ledgerVars, script, pending, feed, lastPrint, commits, overdue>>

LookDemo_WaitsForAll ==
    /\ At("look") /\ script \in {"demo", "watch"}
    /\ LET bets == script = "demo" /\ ~Active
       IN  /\ exit' = CASE Settled /\ ~Active -> "ok"
                        [] ~Settled /\ bets /\ overdue -> "deadline"
                        [] OTHER -> "none"
           /\ at' = IF bets THEN "print" ELSE "look"
    /\ pending' = Cardinality(PendingBets)
    /\ UNCHANGED <<ledgerVars, script, feed, lastPrint, commits, overdue>>

(* The demo stays up for the settlement; only without a fill does it stop  *)
(* at the deadline or bet again, and without autobet it does neither.      *)
LookDemo ==
    /\ At("look") /\ script \in {"demo", "watch"}
    /\ LET bets == script = "demo" /\ ~Active
       IN  /\ exit' = CASE Settled -> "ok"
                        [] ~Settled /\ bets /\ overdue -> "deadline"
                        [] OTHER -> "none"
           /\ at' = IF bets THEN "print" ELSE "look"
    /\ pending' = Cardinality(PendingBets)
    /\ UNCHANGED <<ledgerVars, script, feed, lastPrint, commits, overdue>>

Usable == feed.fresh /\ feed.prints # lastPrint /\ commits < MaxCommits

(* The print and the commit are counted before the commit is sent. *)
Commits ==
    /\ lastPrint' = feed.prints
    /\ commits' = commits + 1
    /\ at' = "commit"
Skips == at' = "look" /\ UNCHANGED <<lastPrint, commits>>

(* live-e2e asks for its pending bets now, the demo knows them already. *)
ReadPrint ==
    /\ At("print")
    /\ IF ~Usable THEN Skips
       ELSE IF script = "live" THEN at' = "count" /\ UNCHANGED <<lastPrint, commits>>
       ELSE IF pending < MaxPending THEN Commits ELSE Skips
    /\ UNCHANGED <<ledgerVars, script, pending, feed, overdue, exit>>

CountPending_AtMost ==
    /\ At("count")
    /\ IF Cardinality(PendingBets) <= MaxPending THEN Commits ELSE Skips
    /\ UNCHANGED <<ledgerVars, script, pending, feed, overdue, exit>>
CountPending ==
    /\ At("count")
    /\ IF Cardinality(PendingBets) < MaxPending THEN Commits ELSE Skips
    /\ UNCHANGED <<ledgerVars, script, pending, feed, overdue, exit>>

(* Nonces are counted up from one of the script's own. *)
Commit ==
    /\ At("commit")
    /\ \E terms \in Terms : Place(Driver, commits, terms)
    /\ at' = "look"
    /\ UNCHANGED <<script, pending, feed, lastPrint, commits, overdue, exit>>

(* Nothing is caught: a read or a commit that fails ends the process, also *)
(* when the commit did land.                                               *)
Throws ==
    /\ Running
    /\ exit' = "crash"
    /\ \/ UNCHANGED ledgerVars
       \/ at = "commit" /\ \E terms \in Terms : Place(Driver, commits, terms)
    /\ UNCHANGED <<script, at, pending, feed, lastPrint, commits, overdue>>

-----------------------------------------------------------------------------
DeadlinePasses ==
    /\ Running /\ ~overdue
    /\ overdue' = TRUE
    /\ UNCHANGED <<ledgerVars, script, at, pending, feed, lastPrint, commits, exit>>

NewPrint ==
    /\ Running /\ feed.prints < MaxPrints
    /\ feed' = [prints |-> feed.prints + 1, fresh |-> TRUE]
    /\ UNCHANGED <<ledgerVars, script, at, pending, lastPrint, commits, overdue, exit>>

(* A print is old news after 25 seconds. *)
GrowsOld ==
    /\ Running /\ feed.fresh
    /\ feed' = [feed EXCEPT !.fresh = FALSE]
    /\ UNCHANGED <<ledgerVars, script, at, pending, lastPrint, commits, overdue, exit>>

(* Whatever the keeper's cranks come to. *)
KeeperCranks ==
    /\ Running
    /\ \E bettor \in Bettors, nonce \in Nonces :
        \/ Fill(bettor, nonce) \/ Refund(bettor, nonce) \/ Win(bettor, nonce)
        \/ Lose(bettor, nonce) \/ Void(bettor, nonce)
    /\ UNCHANGED driverVars

-----------------------------------------------------------------------------
DriverInit ==
    /\ at = IF script = "live" THEN "pick" ELSE "look"
    /\ pending = 0
    /\ feed = [prints |-> 0, fresh |-> FALSE]
    /\ lastPrint = 0 /\ commits = 0
    /\ overdue = FALSE
    /\ exit = "none"

ScriptSteps ==
    PickFixture \/ LookLive \/ LookDemo \/ ReadPrint \/ CountPending \/ Commit

DriverNext ==
    ScriptSteps \/ Throws \/ DeadlinePasses \/ NewPrint \/ GrowsOld \/ KeeperCranks

(* A script that bets starts on a fresh fork. *)
DriverSpec ==
    /\ LedgerInit /\ script \in {"live", "demo"} /\ DriverInit
    /\ [][DriverNext]_scriptVars

(* The loop goes on while the process lives, and time passes. *)
DriverFairness == WF_driverVars(ScriptSteps) /\ WF_driverVars(DeadlinePasses)

-----------------------------------------------------------------------------
(* However the fills and refunds fall between its reads, the script never  *)
(* has more bets waiting for a fill than it allows itself.                 *)
PendingWithinLimit ==
    script \in {"live", "demo"} => Cardinality(PendingBets) <= MaxPending

(* No run hangs: live-e2e always ends, the demo waits only for a fill to   *)
(* be settled, and reports it when it is.                                  *)
ScriptEnds ==
    <>[](\/ ~Running
         \/ script = "demo" /\ Active /\ ~Settled
         \/ script = "watch" /\ ~Settled)
=============================================================================
