----------------------------- MODULE MCConsole -----------------------------
(***************************************************************************)
(* The owner's page, the faucet and the deployment script, each with the   *)
(* program it calls.  What a behaviour is about is chosen at the start, so *)
(* that the questions add up instead of multiplying.                       *)
(***************************************************************************)
EXTENDS MCBethehouse, HouseConsole, Bootstrap

CONSTANTS admin, h3

VARIABLE question
mcVars == <<vars, consoleVars, bootVars, faucetVars, question>>

ConsoleParams == {BaseParams, [BaseParams EXCEPT !.odds_cap = 1500]}
ConsolePolicies ==
    {OPEN_POLICY, [OPEN_POLICY EXCEPT !.fxMode = "only", !.fxs = {m1}]}
ConsoleFilters == {Policy(FALSE, {}, FALSE, {m1})}
ConsoleOrders == {Bid(alice, m1, 0, 10, 0, 2000)}
ConsoleFeed == {Price(m1, 0, 2500, 1700, 3000)}
ConsoleWallets == [u \in Users |-> IF u = admin THEN 0 ELSE 15]
NoWallets == [u \in Users |-> 0]

(* The houses and the figures of deploy-devnet.ts, in USDC, and of the     *)
(* faucet.                                                                 *)
DeployHouses ==
    <<[house |-> h1, params |-> BaseParams, deposit |-> 1000000],
      [house |-> h2, params |-> BaseParams, deposit |-> 4000],
      [house |-> h3, params |-> BaseParams, deposit |-> 4000]>>

ConsoleDeposits ==
    {[depositor |-> admin, house |-> h.house, amount |-> h.deposit] : h \in ToSet(DeployHouses)}

-----------------------------------------------------------------------------
Standing == SetUp(BaseConfig, BaseParams, ConsoleWallets, 20)

MCInit ==
    /\ ConsoleInit
    /\ question \in {"bets", "forms", "create", "boot"}
    /\ polls = [i \in 1..(IF question = "bets" THEN 2 ELSE 1) |-> NoPoll]
    /\ acts = IF question = "bets" THEN MaxActs ELSE 0
    /\ open = (question \in {"bets", "forms", "create"})
    /\ boot = [at |-> IF question = "boot" THEN "config" ELSE "off", house |-> 1]
    /\ cluster \in IF question = "boot" THEN {"devnet", "surfnet"} ELSE {"devnet"}
    /\ CASE question = "boot" -> Init
         [] question = "create" ->
                /\ config = BaseConfig
                /\ frontends = [fe \in Frontends |-> NoAccount]
                /\ houses = [h \in Houses |-> NoAccount]
                /\ filters = [h \in Houses |-> NoAccount]
                /\ exposures = [hf \in Houses \X Fixtures |-> NoAccount]
                /\ prints = {} /\ scores = {} /\ unix_timestamp = 0
                /\ bets = [bn \in Bettors \X Nonces |-> NoAccount]
                /\ token = [a \in TokenAccounts |->
                                IF a \in Users THEN ConsoleWallets[a] ELSE 0]
         [] OTHER -> Standing
    /\ BootInit

-----------------------------------------------------------------------------
(* Bettors and keepers while the owner looks on. *)
Betting ==
    \/ \E order \in Orders : CommitBet(order)
    \/ \E odds \in Feed : ProvePrint(owner, odds)
    \/ \E bn \in Bettors \X Nonces :
        \/ \E print \in prints : FillBet(owner, bn[1], bn[2], print, print)
        \/ RefundCommit(bn[1], bn[2])
    \/ Tick

(* The same owner by other means, which may create a second house. *)
Elsewhere ==
    \/ question = "create" /\ \E h \in MyHouses : CreateHouse(h, BaseParams)
    \/ /\ question = "forms"
       /\ \/ \E p \in HouseChoices : UpdateHouseParams(MyHouse, p)
          \/ \E f \in FilterChoices : SetHouseFilters(MyHouse, f)

MCNext ==
    /\ question' = question
    /\ \/ /\ question = "bets" /\ (PollNext \/ CloseTab)
          /\ UNCHANGED <<bootVars, faucetVars>>
       \/ /\ question \in {"forms", "create"} /\ ConsoleNext
          /\ UNCHANGED <<bootVars, faucetVars>>
       \/ /\ question = "bets" /\ Betting
          /\ UNCHANGED <<consoleVars, bootVars, faucetVars>>
       \/ /\ Elsewhere
          /\ UNCHANGED <<consoleVars, bootVars, faucetVars>>
       \/ /\ question = "boot" /\ (BootNext \/ FaucetNext)
          /\ UNCHANGED consoleVars

MCSpec ==
    MCInit /\ [][MCNext]_mcVars /\ ConsoleFairness /\ BootFairness
=============================================================================
