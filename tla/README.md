# BeTheHouse in TLA+

A verification project for the code in `src/`: TLA+ modules of the on-chain
betting program, of the keeper, the bet router, the two web pages and the scripts
around it, TLC runs on small instances, and theorems checked by TLAPS.

## 1. The system

Houses post collateral and quote spreads; bettors commit stakes at prices nobody
knows yet; keepers prove oracle prices, fill, settle, void and refund.

| component | state | operations | where |
|---|---|---|---|
| math | - | `reserved`, `locked`, `skew_bps`, `eff_odds`, `fill_odds`, `payout` | `programs/bethehouse/src/math.rs` |
| admin, frontends | `Config`, `Frontend` accounts | `init_config`, `update_config`, `register_frontend` | `instructions/admin.rs`, `frontend.rs` |
| houses | `House` (params, `total_locked`, paused), vault, `HouseFilters` | `create_house`, `deposit`, `withdraw`, `update_house_params`, `set_paused`, `set_house_filters` | `instructions/house.rs` |
| bets | `Bet`, `FixtureExposure` (liability per outcome, stakes collected, lock, open bets), escrow vault | `commit_bet`, `fill_bet`, `settle_bet`, `void_bet`, `refund_commit`, `close_bet`, `close_exposure` | `commit.rs`, `fill.rs`, `settle.rs`, `lifecycle.rs`, `mod.rs` |
| prints | `ProvenPrint` accounts | `prove_print`, `close_print` | `print.rs`, `oracle.rs` |
| keeper | known bets, tick counter, lookup table | `tick`: fetch, fill, refund, settle | `packages/sdk/src/keeper.ts`, `app/api/cron/keeper/route.ts` |
| sdk client | - | builds and sends each transaction; `provePrint` checks for the print first | `packages/sdk/src` |
| bet router | listing cache | reads the market, quotes houses, simulates the commit, tries the next house | `packages/app/app/api/bet/route.ts`, `lib/market.ts` |
| fee inversion | - | `stakeForCharge` | `packages/app/lib/fees.ts` |
| bettor page, wallet | wallet session, polls in flight, bets shown, receipts, slip | poll, connect, tap, place, sign | `app/bettor.tsx`, `lib/wallet.tsx`, `api/bets`, `api/result` |
| owner page | polls in flight, house shown, forms, action in flight | poll, edit, create, deposit, withdraw, pause, save | `app/house.tsx`, `api/house`, `api/houses` |
| faucet | - | read a balance, set it or mint | `api/faucet`, `scripts/airdrop-usdc.ts` |
| scripts | commits, last print, deadline | deploy, and drive a whole deployment | `scripts/deploy-devnet.ts`, `live-e2e.ts`, `demo.ts` |
| oracle client, config and proofs api, landing page, tests | - | I/O and presentation | `packages/`, `tests/` |

**How they interact.** Off-chain parts touch the program only by transactions.
A transaction is atomic and runs alone, so what interleaves is the order in which
bettors, owners, the admin and any number of keepers get theirs in. Parts share
state through accounts: one escrow vault holds the stakes, fees and keeper rewards
of all pending and active bets; one vault per house holds its collateral and the
stakes it collected; one book per house and fixture nets liabilities against
collected stakes, and `total_locked` sums the books' locks by differences.

**What is hard.** Parameters (`odds_cap`, `keeper_reward`, the windows) are read
at fill, refund and settle, not kept with the bet. Anyone may crank, so fills race
refunds and settlements race voids. The reservation of a bet leaves the book in two
steps (trued down at fill, released at the end) and by four instructions. Locks
rise when an opposite bet ends. A keeper works on a snapshot, in several
transactions per bet, and one bet's exception ends its pass. The router quotes,
simulates and hands out a transaction that lands later, while houses move. The pages
poll on a timer without waiting for the last answer, across changes of wallet, and
are told of a transaction's sending, not of its landing. A deployment may stop
between any two of its transactions and is run again.

**What makes each part correct.**

* math: an effective price never exceeds the fair one, a fill never the cap; a lock falls when liabilities do.
* houses: vaults cover locks; risk caps hold; `total_locked` is the sum of the books.
* bets: books match their live bets exactly; the escrow backs every refund and reward; fills are justified by two published pre-match prices (the code asks no more, section 3); the escrow keeps nothing but what was given to it; results by the final score; nothing stays pending or active for ever.
* prints: only oracle records of the pre-match 1X2 market become prints.
* keeper: every fillable bet is filled, every expired one refunded, whatever happens to the others.
* router: the best price a standing house would still honour; offer policies kept; never more than the headline debited; guidance that can be followed.
* pages: what is shown catches up with the chain, for the wallet that is connected; one tap is one bet; "free" is what can be withdrawn of the house the page acts on; a form says what the chain does.
* scripts, faucet: a rerun completes what a stopped run began and funds nothing twice, whatever a faucet does to balances meanwhile; no script hangs.

`PROJECT.json` lists the hazards with their lines and the properties that watch them.
Smaller ones no property is about: the coupon stays live while a bet is placed, so a success
clears another pick (bettor.tsx:329); a bet's "charged" figure uses today's fees (bettor.tsx:54);
success is said at sending (house.tsx:197); kickoff times come from a listing up to a minute
old (market.ts:16); an RPC answer that is not JSON counts as a grant (faucet/route.ts:71); the
demo stops the keeper that would refund what it says will be refunded (demo.ts:133).

## 2. Modules

| module | models / says |
|---|---|
| `BthMath` | `math.rs`: odds scaled by 1000, basis points, divisions that round down |
| `Bethehouse` | the program: accounts as variables, one action per instruction, the clock and the oracle's scores |
| `BethehouseProperties` | type invariant, safety, action properties, liveness and its fairness |
| `MCBethehouse` | constants and initial states for TLC |
| `Keeper` | `keeper.ts` and its cron route among the program's actions, and what the keeper is to do |
| `MCKeeper` | constants for `Keeper`, on top of `MCBethehouse` |
| `BetLedger` | what a bettor is promised: slips and wallets, seven steps |
| `BetLedgerRefinement` | `Bethehouse` as an implementation of `BetLedger` |
| `Fees` | `fees.ts`: `stakeForCharge`, one action per loop |
| `Router` | `api/bet` and `market.ts` among the program's actions, with `Fees` as its middle part |
| `MCRouter` | two houses, requests and markets for `Router` |
| `BettorPage` | `bettor.tsx`, `wallet.tsx`, `api/bets`, `api/result` over `BetLedger` |
| `Drivers` | the loops of `live-e2e.ts` and `demo.ts` over `BetLedger` |
| `MCBettors` | instances of these two |
| `HouseConsole` | `house.tsx`, `api/house`, `api/houses` over the program |
| `Bootstrap` | `deploy-devnet.ts`, the faucet and `airdrop-usdc.ts` over the program |
| `MCConsole` | instances of these two |
| `ArithmeticProofs` | lemmas about the arithmetic and about sums over finite sets |
| `BethehouseProofs` | types, vault cover, fills and settlements, for every instance |
| `EscrowProofs` | books, totals and the escrow, for every instance |
| `LedgerProofs` | the program implements the ledger |
| `KeeperProofs` | what the keeper carries and when it falls back |
| `RouterProofs` | the fee inversion, and what a router's answer keeps to |
| `BettorProofs` | one tap, one bet; the scripts' limit |
| `ConsoleProofs` | tokens, deployment, policy form |

**Correspondence.** An account is an entry of a function, `NoAccount` when it does
not exist: `houses[h]`, `exposures[<<house, fixture>>]`, `bets[<<bettor, nonce>>]`
have the fields of the structs of `state.rs` (keys and bumps are left out; the
competition rule, which the program stores and never reads, is there for the router). `token` gives the balance of every token
account, named by its controller. An action has the name of its instruction; its
first conjuncts are the account constraints and `require!`s in the order of the
code, `Moved` is a token transfer (two nested EXCEPTs: the prover reads one EXCEPT with two keys
wrongly where the keys coincide), `ResyncLocks` is `resync_locks` (`Resynced` the total it
computes), and `VaultCovers` the `require!(vault.amount >= total_locked)` of the balances and the
total an instruction leaves (fill.rs:212, house.rs:160, settle.rs:159 and 253). `CanCommit`,
`CanFill`, `CanRefund` and `CanWithdraw` hold every check of their instruction, those on the state it
leaves included, so that a property can say an instruction would pass: the instruction is `Can...` and its assignments. `ReleaseAndReward` is `release_and_reward`, shared by settle and void.
Both it and a fill pay the reward to `cranker_token`, which the program binds to the mint only (fill.rs:14-15,
settle.rs:17-18 and 170-171): `RewardAccounts` are the accounts crankers name, any token
accounts at all. One who names the escrow forgoes the reward and leaves it there for good, as
does an owner who withdraws into it; `Surplus` is what the escrow holds beyond its debts, and
`SurplusOnlyGiven` says that it comes from nothing else.

**The keeper.** `Keeper` EXTENDS the program: its variables are those of the `Keeper`
object (`known`, `tickCount`) and of the running tick (the snapshot left to do,
`nowMs`, the prints chosen, the records still to prove), with `step` between two
awaits. A transaction is the program's own action with the keeper as cranker, or,
when the program would refuse it, an exception: the tick ends (`Return`), except
around a refund, where it is caught. `Elsewhere` is any step of `Bethehouse` in
between. `RequestFails`, `FetchFails`, `ProofsMissing` (404), `ScoresMissing` and
`ColdStart` (the serverless instance goes away) are the failures; a transaction that landed
but whose confirmation is lost is its step followed by `RequestFails`. The cron
route's `inFlight` is the guard of `StartTick`. `Snapshots` is the list of bets a tick
works through, in any order: the code's is that of an RPC answer. The keeper's windows are
constants like the code's. `WindowsMirrored` says what keeper.ts:22-31 asks of them,
that they are no wider than the configuration's; no instruction checks it (`admin.rs` takes any
window), `MCKeeper` assumes it of the runs and the theorems name it where they need it.

**The ledger.** `BetLedger` knows neither houses nor clocks: a slip is placed for its
whole cost, filled at a prize within what its terms allow, and ends won, lost, refunded
or voided with the one payment that belongs to that end. `SlipOf` reads a slip off a
bet account: its cost is the stake, the fees and the keeper's escrow of `commit_bet`, its
most is the reservation. A cranker may be a bettor, who then earns one of `Wages`; what bettors pay
or get as anything else (deposits, withdrawals into their account) is one of `Dealings`. `ImplementsLedger` is the whole specification as a property:
every step of the program, by whoever it is cranked, is one of the ledger's or leaves it
alone. It holds where the keeper's reward stays (run `book`). `BettorPage` and `Drivers` are then
built over the ledger rather than over the program, which is what makes them small.

**The router.** A request is one behaviour of `Router`, which EXTENDS the program: each
read of the feed or the chain is a step (`ReadFixture`, `ReadConfig`, `ReadPrint`,
`ReadHouses`, `ReadCompetition`, one `QuoteHouse` per house), then `FeesNext` finds the
stake, and each house tried is `ReadHeadroom` and `Simulate`. `Chain` is any action of the program in
between, `Relist` a change of the listing, at most `MaxMoves` of them; `touched` remembers
which houses they changed, and whether the bettor's wallet or the config already read. `CommitChecks` lists the checks of `commit_bet` in its order with the
number each fails with; that all pass is the same as `CanCommit`, because the
last entry says so (`SimulatedIsOk` in `RouterProofs`). A request starts from any state in which
the program's invariants hold and params have passed `validate`. `Misread` is a read the code catches and takes for "none"; `ReadFails` any other that fails, of the market or, while a house is tried, of its account, its vault and the simulation: the request fails. `Land` is the
signed transaction, later.

**The bettor's page.** `timer` is what the current `poll` callback closes over, an entry of
`polls` a poll in flight with the wallet and receipts of its closure: `NewCallback` is the
effect that runs when either changes, `Interval` the timer, `ServerReads` and
`BetsAnswer` the two ends of the fetch, `ReceiptAnswers` one receipt after another. `place` is
`PlaceBet`, `RouterAnswers`, `WalletSends`, `WalletReports`, or `WalletThrows` before or after
the sending; `Lands` and `Expires` decide what becomes of what was sent.

**The owner's page.** A poll is the server's reads in turn (`ReadLists`, `ReadVault`,
`ReadPolicy`) and `Answer`; forms are filled by `FormsFrom` when their panels mount. The page shows
the first house of its wallet in a list that comes in no particular order (house.tsx:156):
any of `MyHouses`, from one poll to the next, while every action is for the house numbered 1
(api/house/route.ts:27), `MyHouse`. `deploy-devnet` gives the admin three houses, so figures and
forms may be those of one house and the transactions another's. `act` is
the one action in flight, `ServerBuilds` builds and simulates it (the program's own
action must be enabled), `WalletSends`, `Lands` and `Expires` follow.

**Scripts.** `Drivers` has one loop with the places where the two scripts wait
(`look`, `print`, `count`, `commit`); `Bootstrap` has one action per step of `deploy-devnet`,
`Stops` between any two, `BootRefused` for a deposit the admin cannot pay, and `RunsAgain`; the
faucet runs beside it, a mint on devnet, on a surfnet a balance read earlier, or not read at
all, plus the grant, set over whatever is there (`FaucetSets`).

**Abstractions.**

* An instruction that fails changes nothing: it is a disabled action.
* Signers are whoever the account constraints demand, and are not modelled further.
* A Merkle proof of a record stands as membership in `Feed` (odds) or in the scores published so far. `Published` and `PublishScore` are the environment: a record is not provable before its second, and a finalised fixture gets no further record.
* u64 and i64 arithmetic is unbounded with the code's checked additions as guards (`MaxU64`, `MaxI64`); the unchecked `as u64` of the fees is `% (MaxU64 + 1)`.
* Time is `unix_timestamp` in seconds, moved by `Tick`; `now_ms` is a multiple of 1000 as in the code. `MaxTime` stops the clock, after which a run may have nothing left to do: hence `CHECK_DEADLOCK FALSE` in every cfg.
* The keeper's host clock is the cluster clock; `DISCOVERY_EVERY` is 5 in the code, 2 in the runs. Lookup tables, the keeper's own token account and the surfnet root refresh are taken as there; the oracle client is `oddsUpdates` and `Finalised`.
* A random nonce of the router never meets an existing bet (`RouterInit`); a page's next bet takes the next free nonce, and its fixture is its nonce.
* The price model of a record, the names of houses, teams and fixtures, texts, figures on screen and layout are left out; a page's guard that only repeats the simulation is too.
* The page's deposit and the wallet's SOL are not tracked: `hasSol` of a request says whether the fee payer exists.
* `Fees` divides exactly, as the code's doubles do below 2^53.
* Rent is ignored.

Definitions called `X_Something` directly above `X` are faulty variants of `X`
kept for mutation: each property is violated when one of them replaces `X`.

## 3. Runs

| run | question | answer |
|---|---|---|
| `book` | two bettors on one fixture, on the same or opposite outcomes, two prints and a decoy, an in-play score and two possible results, one bettor cranking, an owner withdrawing what is free to a bettor | types, vault cover, books, escrow, refunds, fills and settlements all hold, the ledger is implemented, and with someone cranking refunds and voids every bet leaves Pending and every filled bet ends |
| `accounts` | from an empty chain, config, frontend, house, filters, pause and parameters change at any moment around one bettor's bets on two fixtures, while rewards and withdrawals may go to the escrow itself | cover, books and totals survive every change; the escrow keeps only what was given to it |
| `worse_of_two` | "your bet fills at the worse of two ... prints: the price at commit and the price at commit+15s" (README.md:22-24) | not if the cranker passes the commit print as both |
| `winners_funded` | can a vault pay any winner? (README.md:53-55) | no: collected stakes are netted out of the lock *and* withdrawable |
| `cap_raised` | "fills can never fail economically" (commit.rs:98, fill.rs:161) | not after the owner raises `odds_cap` between commit and fill |
| `keeper` | does the keeper alone get two bets on two fixtures out of Pending, and settle them, although a request fails or an instance dies? | yes |
| `keeper_race` | and one bet, while a second instance with the same key proves, fills, settles, voids and closes prints between any two of its steps? do its prints fit, does it wait for fresh ones? | yes |
| `late_kickoff` | "so the keeper never picks a print the program would reject" (keeper.ts:22-23) | it picks prints from after the start time, is refused on every tick, and then never refunds |
| `router` | does the router answer with the best price a standing house honours, keep policies, charge at most the headline, name an amount that fits - while two houses change under it? is the stake it computes the largest that fits, near the estimate, for 151 amounts and 32 fee models? | yes; the stake after the early return may be 0 where 1 would fit |
| `router_codes` | are full houses recognised as full? (route.ts:57-58) | no: the numbers are those of other errors |
| `bettors` | does the page come to show the connected wallet's bets and receipts, does one tap stay one bet, do the scripts keep their limit and end? | yes; twice only if the wallet misreported |
| `console` | is "free" what can be withdrawn, does the policy form say what the chain does, does the page catch up; does a deployment stopped, refused or beside a faucet that overwrites balances complete, nothing funded twice? | yes, for the policies and the house said below |

`worse_of_two`, `winners_funded`, `cap_raised`, `late_kickoff` and `router_codes` are violations, each a
disagreement between a sentence of the repository and what the code does; PROJECT.json has the
details under "findings".

**The worse of two prices.** README.md:21-24 and 34-36, state.rs:23, fill.rs:56 and
page.tsx:101-108 promise a bettor the worse of the price at commit and the price 15 seconds later.
`fill_bet` (fill.rs:117) takes as target any print from the commit print on, the commit print
itself included, up to target + tolerance, and does not look at `target_ts_ms` from below. In
`worse_of_two` the record of the target time, at 1.5, is published and provable; the cranker, who may be the
bettor, passes the commit print of 2.5 twice and the bet is filled at the cap of 2.0. So
`FillsAreProven`, which `book` checks and `FillsAlwaysProven` proves, is weaker than the documents: the odds are at
most both prices *used*, two published pre-match records in the windows of fill.rs. That the record of the target time
is used when there is one is something the repository's own keeper does (`FallsBackOnlyInLull`), not
the program.

**Other disagreements**, met while modelling and not kept as runs:

* `refund_commit` pays the *current* `keeper_reward` (lifecycle.rs:63), not the one escrowed; after `update_config` raises it, the refund of the last pending bet asks the escrow for more than it has. lifecycle.rs:44 says "Full escrow back, reservation released". `RefundNeverFails`, `EscrowBacksBets` and `ImplementsLedger` are therefore about a reward that stays.
* A house may be unable to pay winners without any withdrawal: the vault that must cover the locks already holds the stakes that were netted out of them, so they back a second commit. Three bets of 10 at 2.0 on one outcome over a deposit of 20, each filled before the next is committed, leave 50 in the vault and 60 owed (seen with TLC, `WinnersAreFunded`).
* `void_bet` (settle.rs:211) only compares the clock with the window; settle.rs:205 speaks of "no finished-game proof", which is not looked for.
* `release_and_reward` (settle.rs:274) resyncs the lock without the cap: ending a bet can lift the lock of the rest of its book over `max_risk_per_fixture`, which state.rs:55 says "Caps `locked`".

**Bounds.** Stakes are 5 to 15 units at odds near 2.0 with fees of 10% and a reward
of 1, so that every division rounds somewhere, nettings are partial and every cap
can bind. Windows of one second or less and a clock of 3 to 5 seconds (4 in `book`) let a print be
too old, fitting and too new, and each bet expire, start, finish and become
voidable. Two bettors suffice for the races of the escrow and the book (same
outcome, opposite outcome, last collateral); one house does, because a
house's instructions touch no other house, as `OthersKept` in the proofs makes
precise; two fixtures (run `accounts`) are what totals need. `MaxU64` is 10000 and
`MaxI64` 100000, above every value that occurs in the passing runs: overflow guards are in
the actions and in the proofs, which cover every bound. Runs about bets start from
the state after `init_config`, `register_frontend`, `create_house` and `deposit`
(`SetUp`), run `accounts` from nothing.

The keeper's runs have windows of 0.5 to 2 seconds and one bet per fixture, so that
within 4 or 5 seconds a bet can find a fresh print, fall back, or find no price and expire;
two bets show the loop, one is enough for the races. One failure at any point
(`MaxFailures`) is what the keeper has to recover from; a second one starts from a
state it has been in. `keeper` has no other prover or filler, but anyone may refund and close;
`keeper_race` has one doing everything.

`router` has two houses, one dearer and one short of room, with or without collateral, a
policy and an earlier bet; requests too small, fitting, over one house's room and over both; two
moves by others, which is one on each house or one that undoes another; a listing that expires between the
two reads (`FIXTURES_TTL_MS` 500 against a clock of 1 second). Its second
kind of initial state (`EmptyInit`) is a market without houses, for 151 amounts and rates from 0 to
66.67 %, at which both roundings are met. `bettors` asks three questions by its initial states:
two wallets over existing bets with two polls at once, which is what overtaking needs; one
bettor who places two picks, one request or wallet failing; a script with three commits and a limit of two, so that both bounds bind.
`console` asks four: torn reads while bets come and go (two polls); the forms;
the creation (one action of the page, while another tab may create the same house or a second one); the deployment of three houses with the
figures of the script, stopped twice at most and refused wherever the balance is short, beside two calls of the faucet, on
devnet and on a surfnet. The questions of one run do not interact, so their states add up.

**What the properties are conditional on.** `EscrowBacksBets`, `RefundNeverFails`,
`FillNeverFails` and `ImplementsLedger` are checked in `book`, where the admin may only reapply the same
config and the owner the same parameters; `cap_raised` and the list above show what happens otherwise.
`BestPriceFirst` and `PolicyHonoured` are about houses that did not change and could be read;
the first also needs the bettor's wallet and the config untouched, on which every simulation depends, and no
other competition at the second look at the listing. `DebitWithinHeadline` is about fees that did not change, `GuidanceIsTakeable` about a market that stands still:
the router promises nothing of what others do before the signature. `PolicyHonoured` also needs the second look at the
listing to find the fixture, without which the code skips the competition rule.
`FormTellsPolicy` leaves out the empty allow-list, which offers nothing and shows as
"Offer all". `ConsoleCatchesUp` says that the page comes to show *some* house of the owner's as it is:
which one, and whether the one its buttons act on, depends on the order of the list.
`FreeIsWithdrawable` is about the moments when it is that one. `ActiveResolves` excepts a bet whose
stake its vault can no longer give back beside the other locks (`Repayable`). `DoneMeansBuilt` excepts the houses a run left
between `create_house` and `deposit`: no later run funds them.

**Fairness.** `CrankFairness`, part of the specification of run `book`, is weak fairness of the clock, of `refund_commit` for
each bet and of `void_bet` for each bet by some cranker. Both instructions are
permissionless and need no proof, so the bettor, whose money it is, can send them
until they go through. Nothing is assumed of fills, settlements, the oracle or the
owner. The repository's own keeper refunds but never voids: `ActiveResolves` is about what
anyone can achieve, not about that keeper. `KeeperFairness` is the clock and the tick moving for ever, other than by a
failure: the cron route is invoked every minute (vercel.json), `run()` catches what a
tick throws, and every request has a timeout. Since some `KeeperStep` is always
enabled, this is its weak fairness, written so that TLC evaluates it cheaply.
`keeper_race` assumes besides that the other instance stops closing prints at some
point: one that closes every print between the keeper's check and its fill
makes each tick throw. The vault is ample in this run, because
`winners_funded` shows that a drained one cannot always pay.

`PageFairness`: React runs the effects of a changed callback at once, the interval fires
every 5 seconds and a fetch is answered or fails; only the bound on polls in flight can hold the
effect back, hence strong fairness of `NewCallback`. Nothing is assumed of the user, the wallet, the
router or the chain. `ConsoleFairness` is the same for the owner's page. `ShownCatchesUp`
and `ConsoleCatchesUp` are about what is shown for good once nothing changes any more: the bounds
make the first so in every behaviour, the second says it (`<>[][FALSE]_vars`). `DriverFairness`: a script's
loop goes on and its deadline passes; nothing is assumed of keeper or feed. `BootFairness`: a script
that stopped is run again, at most `MaxRuns` times.

## 4. Proofs

All are for arbitrary sets of users, houses, frontends, fixtures and nonces, any
parameters, orders, feed and scores of the right types, and any 64-bit bounds. What is
assumed of the constants, each by name where it is declared and evaluated by TLC in the runs:

* `ConstantsAssumption`: types; a token account has one controller. `FiniteAssumption`: nonces are 64-bit and keys 32 bytes, so fixtures and bets are finitely many. `NoAccountAssumption`: a missing account differs from every account. `NoSlipAssumption` the same of slips.
* `FeesAssumption`, `RouterAssumption`, `KeeperAssumption`, `PageAssumption`, `DriverAssumption`, `BootAssumption`, `CallsAssumption`, `ConsoleAssumption`: types, and values that mean "nothing" differ from the others.

Hypotheses that a theorem states itself are said with it below.

**The program** (`BethehouseProofs`, `EscrowProofs`).

* `TypesHold`: `Spec => []TypeOK`. Not only a typing fact: balances, locks, liabilities and counters are naturals below their width in every reachable state, so no subtraction in any instruction that goes through underflows.
* `VaultAlwaysCoversLocks`: `Spec => []VaultCoversLocks`. Not inductive by itself: `refund_commit` changes a lock and never looks at the vault. The inductive invariant `VaultInv` adds `LocksInSync` (each stored lock is the one its liabilities and stakes call for); then a refund, which only lowers a liability, can only lower the lock (`LockMonotone`), hence the total, while the escrow pays. Commit checks the bound itself, fill, settle, void and withdraw check it at the end, a deposit adds, and a transfer to another house only adds to that one (`OthersKept`). One lemma per instruction that moves a book, one per group of actions, then `NextVaultInv`.
* `FillsAlwaysProven`: `Spec => []FillsAreProven`, with `PrintsFromFeed` (every print repeats an oracle record of the pre-match 1X2 market) as strengthening; the arithmetic is `FillOddsFact` (the fill is at most each proven price), and ending a bet keeps its terms (`EndedProven`). It survives the closing of the prints.
* `SettlementsAlwaysByResult`: `Spec => []SettledByResult`, with `OneFinal` (one final record per fixture), which comes from the environment action `PublishScore`.
* `BooksAlwaysMatchBets`, `TotalsAlwaysMatchBooks`: the sums. `SumFunction` of the community modules is a fold; that adding, replacing or bounding one entry does to the sum what it should (`ArithmeticProofs`) is proved without induction by a minimal counterexample: if the claim failed for some subset of a finite set, it would fail for a smallest one, and taking one element out of that gives a smaller. The inductive invariant `BookInv` is `VaultInv`, both properties and `BooksHaveHouses`. `BookMoves` says once what an instruction that replaces one bet and one book must do for the match to stay; commit, fill, release and refund each come down to it, closing a bet or an empty book to a part of it.
* `OnlyGiftsStay`: `Spec => SurplusOnlyGiven`. Each instruction changes the escrow's balance by exactly what it changes the debt by, except that a reward paid to the escrow itself does not leave it (`GiftAdds`) and a withdrawal into it adds; crankers may name any token account. `EscrowInv` adds `BetsAccounted` to the types: a live bet has a config, a registered frontend and the keeper rewards its state calls for, two while pending and one while active.
* `EscrowAlwaysBacksBets`: `[]EscrowBacksBets`, under `RewardNotRaised`: the admin may change every parameter, `keeper_reward` only downwards. Without that it is false (section 3). `SolventInv` adds that what a refund may pay fits in 64 bits.
* `CranksAlwaysPass`, under the same hypothesis: what `refund_commit` and `fill_bet` check of book, escrow and vault, and what `settle_bet` and `void_bet` check of book and escrow, passes for every live bet. It holds for every payout a reservation covers, and leaves out of a fill what is not accounting. That a vault can pay a winner is left out of a settlement for the reason run `winners_funded` shows.
* `RefundsNeverFail`: `[]RefundNeverFails`, under `RewardNotRaised`: every check of `refund_commit`, the book's lock and the house's total included, passes for an expired pending bet. From `BookInv` and `SolventInv`; the lock falls with a liability, so the total only falls and never below zero (it is the sum of the locks).
* `ReservationsAlwaysCoverFills`, under `CapNotRaised`: owners may change every parameter, `odds_cap` only downwards (run `cap_raised` shows what happens otherwise). `ReservationInv` says that what a pending bet has reserved covers the current cap: its commit computed it at the cap it found (`CommitCoversCap`), and a pending bet is as it was or just committed (`PendingWas`). A quote of any two prints is clamped at the cap, and payouts grow with odds (`AtOddsMonotone`).
* `FillsNeverFail`: `[]FillNeverFails`, every check of `fill_bet` for any cranker and any two qualifying prints, under `RewardNotRaised`, `CapNotRaised` and two bounds on amounts. `StakesFit`: the stakes of the bets on one book add up to 64 bits. `SkewsFit`: coefficient times liability is at most 2^64 times `max_risk_per_fixture`, which holds for all liabilities wherever the coefficient is no larger than the cap (house.tsx:656 and 683: at most 10000 against a cap in units of 10^-6). Neither is vacuous: both hold throughout run `book`. Neither can be dropped: `update_house_params` takes a coefficient near 2^32 beside a cap of 1, after which `skew_bps` overflows and the fill of a large bet fails until it expires. The vault's check is the delicate one: the fill brings the stake into the vault (`FillPaysHouse`) and lowers the liability, so the total rises by no more than the balance, whoever cranks and whichever accounts coincide.

**The ledger** (`LedgerProofs`).

* `ProgramImplementsLedger`: `Spec /\ [][RewardKept]_vars => ImplementsLedger`, while `keeper_reward` is kept. `LedgerInv` is `EscrowInv` with `ParamsChosen` (what is in force is among the choices on offer), by which the terms, wages and dealings of the mapping are among the ledger's. Initial states map to initial states (all slots empty); one lemma per instruction maps it: commit to `Place`, fill to `Fill`, settle to `Win` or `Lose`, void to `Void`, refund to `Refund`, deposit and withdraw to a dealing or nothing, the rest to stutters.

**The keeper** (`KeeperProofs`).

* `KeeperIsACranker`: a behaviour of the keeper among others is one of `Spec` for the program, so all of the above holds beside it. `KeeperCranks` (the keeper's key is one of `Crankers`, its token account of `RewardAccounts`) loses nothing: it only allows others more.
* `PicksAlwaysFit`: `[]PicksFitWindows`, under `WindowsMirrored`. `KeeperInv`: the program's types, that bets carry the times of a config on offer (`BetsTimed`), and that a tick's snapshot holds bets as they were listed; `PickInv` follows the chosen prints from the pick through proofs and checks to the fill, across config changes and removed bets.
* `FallsBackOnlyAfterLull`: `[]FallsBackOnlyInLull`, from the same invariant and the grace being within the tolerance.

**The router** (`RouterProofs`).

* `StakeAlwaysLargest`: `FeesSpec => []StakeIsLargest`. `StakeInv` says that the raising loop ends at a stake whose successor does not fit and that lowering only leaves stakes that do not fit; `ChargeMonotone` carries this to all larger stakes. The estimate plays no part, so the loops make up for any error in it.
* `EstimateAlwaysClose`: `FeesSpec => []EstimateIsClose`, for all charges and rates. A charge for a stake lies below the exact one by less than one unit for each of the two fees, which bounds the distance of the division the loops start from.
* `PolicyAlwaysHonoured`, `DebitAlwaysWithinHeadline`: from `RouterSpec`, a request in any state in which `TypeOK`, `LocksInSync`, `VaultCoversLocks` and `ParamsValid` hold, that is in any reachable one. `RouterInv`: every quote is of a house whose policy was read as it is, or that somebody touched; the fee model is that of the config read and of a frontend whose account never changes (`FrontendsStay`); the stake being routed fits in the charge. Once the bet is committed the request is over, and nothing moves. The order that lands later costs what the fee model says while the config is the one read.
* `AlwaysBestPriceFirst`: `RouterSpec => []BestPriceFirst`. `MarketInv`: what is listed and quoted of an untouched house is as it is now, no untouched house in business is missing, and the bet's address is free while its bettor's wallet is untouched (committing there would cost something, `SlotStays`). `ChoiceInv`: every quote neither untried nor being tried is `PassedOver`, and the one being tried is the best of those left. The step that carries the proof is `RefusalStays`: what the program refused it goes on refusing while house, wallet and config are as they were, because the clock only adds reasons to refuse; and a simulation passes exactly when `CanCommit` does.
* `GuidanceAlwaysTakeable`: `RouterSpec /\ []AmountsFit => []GuidanceIsTakeable`. `GuideInv`: while nobody moves, the maximum is 0 or `MaxSpend` of a house quoted, open and offering the match. Then (`IdleIsGuided`): a stake debited at most that is at most the quotient `MaxSpend` was computed from, since debits grow strictly with stakes (`ChargeGrows`), so its reservation is within the headroom (`ReservedInRoom`); a reservation raises a lock by at most itself (`LockGrowth`), so all three risk checks pass (`RoomIsEnough`); and what `commit_bet` escrows is at most the debit (`EscrowedIsCharged`). `AmountsFit` says that wallets are 64-bit, that a vault and a liability together are, and that the clock is `commit_delay_ms` away from the end of i64; it holds throughout run `router`.

**Pages and scripts** (`BettorProofs`, `ConsoleProofs`).

* `TwiceOnlyAfterMisreport`: `PickInv` relates the slip, the placement and the history of what was sent: a pick that was sent is off the slip and not being placed, or the wallet misreported it or has yet to report it (`DoneWith`).
* `PendingAlwaysWithinLimit`: `LimitInv` says how the count a script read relates to the bets now pending, at each place where it waits; nobody else adds bets in between.
* `NextKeepsSum`: no instruction of the program makes or loses a token, for any number of accounts.
* `DoneAlwaysMeansBuilt`, `AlwaysFundedAtMostOnce`: `BootInv` holds, for each entry of the list of houses, what stands (`Standing`), and for each place of the script what must be there already (`Built`). The faucet beside it moves balances of wallets only (`FaucetBuilt`), up or down; what the script relies on is in the houses' vaults.
* `PageKeepsVault`, `FreeIsAlwaysWithdrawable`: `ConsoleSpec => []FreeIsWithdrawable`, whichever of the owner's houses is shown in between. `PageInv` says that what polls, view, forms and pending actions hold is of the types of the accounts, so that the calls the page makes up from its forms keep `VaultInv` like those of `HouseChoices`; a current view then computes free collateral from the balance and the total that `withdraw` checks, and the check after the transfer (`VaultCovers`) adds nothing to it.
* `FormAlwaysTellsPolicy`: `FormInv` says that a form's mode is one of three; that a saved form offers what it says (`SavedRule`) and a shown one says what is offered (`ShownRule`) are then facts about the two conversions for every rule.

The strengthenings hold on the instances of the runs as well: `BookInv`, `SolventInv`,
`ReservationInv`, `LedgerInv`, `FillInv` and `SettledInv` on `book`, `EscrowInv` on `accounts`, `RouterInv`,
`PriceInv` and `GuideInv` on `router`, the keeper's `PickInv` on `keeper_race`, the page's `PickInv` and `LimitInv` on `bettors`,
`BootInv` on `console`. `FormInv` is not one TLC can evaluate: one of its quantifiers is
over no set.

**Only model-checked.** Every invariant and every action property of a passing run is proved. What
is left to TLC is liveness, which is out of the prover's reach: `PendingResolves`, `ActiveResolves`, what
the keeper gets done, what the pages come to show, that scripts and deployments end. The keeper's
guards say `ENABLED` of an instruction, of which the prover knows nothing; its theorems need only what its steps
do, not when they are refused. The five violations are counterexamples and have no theorem.

**Not modelled.** The txoracle program behind the Merkle proofs, account addresses, encodings,
lookup tables and rent; sessions of the oracle client; the config and proofs api, which
pass one read through; figures, texts and layout of the pages, their lists of other
owners' houses and exposures, the landing page and its diagrams, which keep no state of the system;
the set-up of a fork in `demo.ts` and `live-e2e.ts` beyond the steps they share with
`deploy-devnet.ts`; `capture-fixtures.ts` and the tests.

## 5. Plan

Done: all modules, their properties and runs; a theorem for every invariant and action property of a passing
run. What could be added:

1. `settle_bet` for a vault that keeps what it collects: a hypothesis on withdrawals and on netting under which `WinnersAreFunded` holds, if the program comes to state one.
2. The refusals of the keeper by named guards (`CanFill`, and the same of `ProvePrint` and `SettleBet`) instead of `ENABLED`.
3. A keeper that voids: `ActiveResolves` under its fairness alone.
