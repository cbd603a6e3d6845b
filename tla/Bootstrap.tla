----------------------------- MODULE Bootstrap -----------------------------
(***************************************************************************)
(* How a deployment comes to stand and wallets come to hold test USDC:     *)
(* deploy-devnet.ts, which can be run again after it stopped half-way, the *)
(* same steps at the head of live-e2e.ts and demo.ts, and the faucet of    *)
(* the app and airdrop-usdc.ts, all as calls of the program or of the test *)
(* mint.                                                                   *)
(***************************************************************************)
EXTENDS Bethehouse, SequencesExt

CONSTANTS
    Admin,              \* mint authority and owner of the houses
    AdminFrontend,
    Parameters,         \* what init_config is called with
    FrontendFee,
    HOUSES,             \* houses to create: house, params, deposit
    MintFloor,          \* below this the admin is minted to,
    MintAmount,         \* this much
    FaucetAmount,
    MaxRuns,            \* bound on runs of the script
    MaxGrants           \* bound on calls of the faucet

VARIABLES
    boot,               \* where the script is: at a step, and a house
    runs,
    orphans,            \* houses a run left between creation and deposit
    cluster,            \* "devnet", or "surfnet" with its cheatcodes
    faucet,             \* a call of the faucet under way
    grants

ASSUME BootAssumption ==
    /\ Admin \in Users /\ AdminFrontend \in Frontends
    /\ IsFiniteSet(TokenAccounts)
    /\ HOUSES \in Seq([house : Houses, params : HouseParams, deposit : Nat])
    /\ HOUSES # <<>>
    /\ \A i, j \in DOMAIN HOUSES : HOUSES[i].house = HOUSES[j].house => i = j
    /\ {MintFloor, MintAmount, FaucetAmount} \subseteq Nat

(* What the script calls is among what admins, owners and depositors may. *)
ASSUME CallsAssumption ==
    /\ Parameters \in ConfigChoices
    /\ FrontendFee \in FrontendFees
    /\ \A i \in DOMAIN HOUSES :
        /\ HOUSES[i].params \in HouseChoices
        /\ [depositor |-> Admin, house |-> HOUSES[i].house, amount |-> HOUSES[i].deposit]
                \in Deposits

bootVars == <<boot, runs, orphans>>
faucetVars == <<cluster, faucet, grants>>

At(step) == boot.at = step
Goes(step, i) == boot' = [at |-> step, house |-> i]

Keeps == UNCHANGED <<config, frontends, houses, filters, exposures, prints, bets,
                     unix_timestamp, scores>>

-----------------------------------------------------------------------------
(* deploy-devnet: each step is skipped when its account is already there.  *)

BootConfig ==
    /\ At("config")
    /\ IF Exists(config) THEN UNCHANGED vars ELSE InitConfig(Parameters)
    /\ Goes("mint", 1)
    /\ UNCHANGED <<runs, orphans, faucetVars>>

BootMint ==
    /\ At("mint")
    /\ token' = IF token[Admin] < MintFloor
                THEN [token EXCEPT ![Admin] = @ + MintAmount]
                ELSE token
    /\ Goes("frontend", 1)
    /\ Keeps /\ UNCHANGED <<runs, orphans, faucetVars>>

BootFrontend_Again ==
    /\ At("frontend")
    /\ RegisterFrontend(AdminFrontend, FrontendFee)
    /\ Goes("house", 1)
    /\ UNCHANGED <<runs, orphans, faucetVars>>
BootFrontend ==
    /\ At("frontend")
    /\ IF Exists(frontends[AdminFrontend])
       THEN UNCHANGED vars
       ELSE RegisterFrontend(AdminFrontend, FrontendFee)
    /\ Goes("house", 1)
    /\ UNCHANGED <<runs, orphans, faucetVars>>

NextHouse(i) == IF i < Len(HOUSES) THEN Goes("house", i + 1) ELSE Goes("done", 1)

BootHouse_TopsUp ==
    /\ At("house")
    /\ LET h == HOUSES[boot.house]
       IN  IF Exists(houses[h.house])
           THEN UNCHANGED vars
           ELSE CreateHouse(h.house, h.params)
    /\ Goes("deposit", boot.house)
    /\ UNCHANGED <<runs, orphans, faucetVars>>
BootHouse_Breaks ==
    /\ At("house")
    /\ LET h == HOUSES[boot.house]
       IN  IF Exists(houses[h.house])
           THEN UNCHANGED vars /\ Goes("done", 1)
           ELSE CreateHouse(h.house, h.params) /\ Goes("deposit", boot.house)
    /\ UNCHANGED <<runs, orphans, faucetVars>>
BootHouse ==
    /\ At("house")
    /\ LET h == HOUSES[boot.house]
       IN  IF Exists(houses[h.house])
           THEN UNCHANGED vars /\ NextHouse(boot.house)
           ELSE CreateHouse(h.house, h.params) /\ Goes("deposit", boot.house)
    /\ UNCHANGED <<runs, orphans, faucetVars>>

BootDeposit ==
    /\ At("deposit")
    /\ LET h == HOUSES[boot.house]
       IN  Deposit([depositor |-> Admin, house |-> h.house, amount |-> h.deposit])
    /\ NextHouse(boot.house)
    /\ UNCHANGED <<runs, orphans, faucetVars>>

(* Nothing is caught: a call that fails, landed or not, ends the run. *)
StopsHere ==
    /\ Goes("stopped", 1)
    /\ orphans' = IF At("deposit") THEN orphans \cup {HOUSES[boot.house].house} ELSE orphans
    /\ UNCHANGED <<vars, runs, faucetVars>>

Stops ==
    /\ boot.at \notin {"off", "done", "stopped"}
    /\ runs < MaxRuns
    /\ StopsHere

(* More than the admin holds, whatever the mint and the faucet left of it. *)
BootRefused ==
    /\ At("deposit")
    /\ token[Admin] < HOUSES[boot.house].deposit
    /\ StopsHere

RunsAgain ==
    /\ At("stopped")
    /\ runs' = runs + 1
    /\ Goes("config", 1)
    /\ UNCHANGED <<vars, orphans, faucetVars>>

-----------------------------------------------------------------------------
(* The faucet (api/faucet), and "+1000 USDC" on the page *)

(* The wallet asked for, the admin's own when there is none; a balance     *)
(* that cannot be read is taken for none.                                  *)
FaucetReads ==
    /\ faucet = NoAccount
    /\ grants < MaxGrants
    /\ grants' = grants + 1
    /\ \E u \in Users : \E current \in {token[u], 0} :
            faucet' = [to |-> u, current |-> current]
    /\ UNCHANGED <<vars, bootVars, cluster>>

FaucetGives(balance) ==
    /\ faucet # NoAccount
    /\ token' = [token EXCEPT ![faucet.to] = balance]
    /\ faucet' = NoAccount
    /\ Keeps /\ UNCHANGED <<bootVars, cluster, grants>>

(* surfnet_setTokenAccount sets the balance; elsewhere there is no such    *)
(* method, the answer is an error and the admin mints.                     *)
FaucetSets == cluster = "surfnet" /\ FaucetGives(faucet.current + FaucetAmount)
FaucetMints == cluster = "devnet" /\ FaucetGives(token[faucet.to] + FaucetAmount)

FaucetFails ==
    /\ faucet # NoAccount
    /\ faucet' = NoAccount
    /\ UNCHANGED <<vars, bootVars, cluster, grants>>

-----------------------------------------------------------------------------
(* The rest of the state is the deployment's before the script. *)
BootInit ==
    /\ runs = 1 /\ orphans = {}
    /\ faucet = NoAccount /\ grants = 0

BootSteps ==
    \/ BootConfig \/ BootMint \/ BootFrontend \/ BootHouse \/ BootDeposit
    \/ BootRefused \/ RunsAgain

BootNext == BootSteps \/ Stops
FaucetNext == FaucetReads \/ FaucetSets \/ FaucetMints \/ FaucetFails

deploymentVars == <<vars, bootVars, faucetVars>>

(* The script on a cluster where the program is new, beside the faucet.    *)
BootSpec ==
    /\ Init /\ BootInit
    /\ boot = [at |-> "config", house |-> 1] /\ cluster \in {"devnet", "surfnet"}
    /\ [][BootNext \/ FaucetNext]_deploymentVars

BootFairness == WF_bootVars(BootSteps)

-----------------------------------------------------------------------------
Deployed(h) == Exists(houses[h.house]) /\ token[h.house] >= h.deposit

(* However often the script stopped and was run again, and whatever the    *)
(* faucet made of the admin's balance meanwhile, once it says DONE         *)
(* everything is there, and only houses it stopped at between creating     *)
(* and funding them are short of their collateral.                         *)
DoneMeansBuilt ==
    At("done") =>
        /\ Exists(config) /\ Exists(frontends[AdminFrontend])
        /\ \A h \in ToSet(HOUSES) : Exists(houses[h.house])
        /\ \A h \in ToSet(HOUSES) : Deployed(h) \/ h.house \in orphans

(* No rerun funds a house a second time. *)
FundedAtMostOnce == ~At("off") => \A h \in ToSet(HOUSES) : token[h.house] <= h.deposit

(* A script that is run again whenever it stopped gets to the end: no step *)
(* is one that every run fails at, not even when the faucet, setting a     *)
(* balance it read before, wiped out what was minted.                      *)
BootCompletes == <>(At("off") \/ At("done"))
=============================================================================
