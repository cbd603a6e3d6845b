----------------------------- MODULE MCBettors -----------------------------
(***************************************************************************)
(* The ledger of bets with the bettor's page, or with a driving script, on *)
(* small instances.  What a behaviour is about is chosen at the start, so  *)
(* that the questions add up instead of multiplying.                       *)
(***************************************************************************)
EXTENDS BettorPage, Drivers

(* One way to bet: the page and the scripts do not look at figures. *)
OneTerms == {[stake |-> 1, cost |-> 1, most |-> 0]}

Slip(state) == [terms |-> [stake |-> 1, cost |-> 1, most |-> 0],
                prize |-> 0, state |-> state]
NoSlips == [bn \in Bettors \X Nonces |-> NoSlip]

Slots(n) == [i \in 1..n |-> NoPoll]

(* Wallets come and go over bets that are there already. *)
WalletsChange ==
    /\ picks = MaxPicks /\ switches = 0
    /\ owner = NoOne /\ polls = Slots(MaxPolls)
    /\ slips = [bn \in Bettors \X Nonces |->
                    CASE bn = <<Driver, 1>> -> Slip("Active")
                      [] bn # <<Driver, 1>> /\ bn[2] = 1 -> Slip("Won")
                      [] OTHER -> NoSlip]
    /\ script = "off"

(* One bettor places bets. *)
BetsArePlaced ==
    /\ picks = 0 /\ switches = MaxSwitches
    /\ owner = Driver /\ polls = Slots(1)
    /\ slips = NoSlips
    /\ script = "off"

(* A fresh fork; where the demo does not bet itself, others do. *)
ScriptRuns ==
    /\ picks = MaxPicks /\ switches = MaxSwitches
    /\ owner = NoOne /\ polls = Slots(1)
    /\ \/ script \in {"live", "demo"} /\ slips = NoSlips
       \/ script = "watch" /\ slips = [bn \in Bettors \X Nonces |->
                                        IF bn[2] = 1 THEN Slip("Pending") ELSE NoSlip]

MCInit ==
    /\ WalletsChange \/ BetsArePlaced \/ ScriptRuns
    /\ PageInit /\ DriverInit
    /\ wallet = [b \in Bettors |-> IF script = "off" THEN 1 ELSE MaxCommits]

MCNext ==
    \/ script = "off" /\ PageNext /\ UNCHANGED driverVars
    \/ DriverNext /\ UNCHANGED pageVars

MCSpec ==
    /\ MCInit /\ [][MCNext]_<<tabVars, driverVars>>
    /\ (script = "off" => PageFairness) /\ DriverFairness
=============================================================================
