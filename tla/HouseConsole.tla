---------------------------- MODULE HouseConsole ----------------------------
(***************************************************************************)
(* The house owner's page (house.tsx) in one tab, with the two routes      *)
(* behind it: api/houses, which puts a view together from several reads of *)
(* the chain, and api/house, which builds and simulates a transaction for  *)
(* the wallet to sign.  Every eight seconds the page polls, and polls may  *)
(* overtake one another; the forms are filled when their panels show, and  *)
(* not again; what the wallet has sent lands later, or never.  The         *)
(* same owner may act from elsewhere: that is the program's own HouseNext. *)
(* A wallet may own several houses: the page shows the first of them that  *)
(* is listed, in no certain order, and acts on the one numbered 1.         *)
(* A deposit guard only compares with the balance shown, and stops no      *)
(* request the simulation would not: it is left out, and so are messages,  *)
(* the panel of exposures, the list of all houses and the limits on the    *)
(* length of a policy.                                                     *)
(***************************************************************************)
EXTENDS Bethehouse, FiniteSetsExt

CONSTANTS
    Me, MyHouse,        \* the wallet in the tab and its house numbered 1
    MyHouses,           \* all the houses of that wallet's keys
    Amounts,            \* what may be typed as an amount
    PolicyChoices,      \* what the policy form may be set to
    NoPoll, NoForm, NotRead,
    MaxPolls,           \* bound on polls in flight
    MaxActs,            \* bound on actions of the page
    MaxFailures         \* bound on reads that fail

VARIABLES
    open,               \* whether the tab is open
    view,               \* the house as shown, NoAccount when not listed
    polls,              \* polls in flight
    policyForm,         \* the offer policy form, and what filled it
    paramsForm,         \* the parameters form
    pending,            \* the action in flight
    sent,               \* transactions given to the cluster and still good
    acts, failures

Modes == {"all", "only", "except"}
OfferPolicy ==
    [compMode : Modes, comps : SUBSET Nat, fxMode : Modes, fxs : SUBSET Fixtures]

ASSUME ConsoleAssumption ==
    /\ Me \in Users
    /\ MyHouse \in MyHouses /\ MyHouses \subseteq Houses
    /\ Amounts \subseteq Nat
    /\ PolicyChoices \subseteq OfferPolicy

formVars == <<policyForm, paramsForm>>
consoleVars == <<open, view, polls, formVars, pending, sent, acts, failures>>

-----------------------------------------------------------------------------
(* What the dashboard needs (api/houses) *)

PendingReserved(h) ==
    MapThenSumSet(LAMBDA bn : bets[bn].reserved,
        {bn \in Bettors \X Nonces :
            InState(bn[1], bn[2], "Pending") /\ bets[bn].house = h})

Split(h, house, pending_reserved, vault) ==
    [pda |-> h, params |-> house.params, paused |-> house.paused, vault |-> vault,
     total_locked |-> house.total_locked,
     reserved |-> Min({pending_reserved, house.total_locked})]

Free_Reserved(v) == v.vault - v.reserved
Free(v) == v.vault - v.total_locked

(* With the policy, and whether it could be read. *)
WithPolicy(v, rules, known) ==
    [pda |-> v.pda, params |-> v.params, paused |-> v.paused, vault |-> v.vault,
     total_locked |-> v.total_locked, reserved |-> v.reserved,
     filters |-> rules, known |-> known]

(* A house's view all at once, which no poll is sure to get. *)
Current(h) ==
    WithPolicy(Split(h, houses[h], PendingReserved(h), token[h]), filters[h], TRUE)

Listed == {h \in MyHouses : Exists(houses[h])}

-----------------------------------------------------------------------------
(* The offer policy and its form *)

modeToRule(mode, selected) ==
    CASE mode = "all" -> [allow |-> FALSE, list |-> {}]
      [] mode = "only" -> [allow |-> TRUE, list |-> selected]
      [] mode = "except" -> [allow |-> FALSE, list |-> selected]

ruleToMode_Allow(allow, list) == IF list = {} THEN "all" ELSE "only"
ruleToMode(allow, list) ==
    IF list = {} THEN "all" ELSE IF allow THEN "only" ELSE "except"

OPEN_POLICY == [compMode |-> "all", comps |-> {}, fxMode |-> "all", fxs |-> {}]
isOpenPolicy(p) == p.compMode = "all" /\ p.fxMode = "all"

policyFromFilters(f) ==
    IF f = NoAccount THEN OPEN_POLICY
    ELSE [compMode |-> ruleToMode(f.competition_allow, f.competitions),
          comps |-> f.competitions,
          fxMode |-> ruleToMode(f.fixture_allow, f.fixtures), fxs |-> f.fixtures]

policyToFilters(p) ==
    LET c == modeToRule(p.compMode, p.comps)
        x == modeToRule(p.fxMode, p.fxs)
    IN  [competition_allow |-> c.allow, competitions |-> c.list,
         fixture_allow |-> x.allow, fixtures |-> x.list]

-----------------------------------------------------------------------------
(* Polling *)

Waiting(i, at) == polls[i] # NoPoll /\ polls[i].at = at
GoesOn(i, p) == polls' = [polls EXCEPT ![i] = p]
Misses(wrong) ==
    IF wrong THEN failures < MaxFailures /\ failures' = failures + 1
    ELSE UNCHANGED failures

Asked == [at |-> "reading", pda |-> NotRead, house |-> NotRead, reserved |-> NotRead]

Interval_UntilLoaded ==
    /\ view = NoAccount
    /\ open /\ \E i \in DOMAIN polls : polls[i] = NoPoll
    /\ LET i == Min({j \in DOMAIN polls : polls[j] = NoPoll})
       IN  GoesOn(i, Asked)
    /\ UNCHANGED <<vars, open, view, formVars, pending, sent, acts, failures>>
Interval ==
    /\ open /\ \E i \in DOMAIN polls : polls[i] = NoPoll
    /\ LET i == Min({j \in DOMAIN polls : polls[j] = NoPoll})
       IN  GoesOn(i, Asked)
    /\ UNCHANGED <<vars, open, view, formVars, pending, sent, acts, failures>>

(* Houses and bets are asked for at once and answered in any order; the    *)
(* page will take the first house of its owner.                            *)
ReadLists(i) ==
    /\ Waiting(i, "reading")
    /\ \/ /\ polls[i].house = NotRead
          /\ \/ Listed = {} /\ GoesOn(i, [polls[i] EXCEPT !.house = NoAccount])
             \/ \E h \in Listed :
                    GoesOn(i, [at |-> "reading", pda |-> h, house |-> houses[h],
                              reserved |-> polls[i].reserved])
       \/ /\ polls[i].reserved = NotRead
          /\ GoesOn(i, [polls[i] EXCEPT
                            !.reserved = [h \in MyHouses |-> PendingReserved(h)]])
    /\ UNCHANGED <<vars, open, view, formVars, pending, sent, acts, failures>>

(* A house that is not listed has no vault or policy to read. *)
ListsRead(i) ==
    Waiting(i, "reading") /\ NotRead \notin {polls[i].house, polls[i].reserved}

NotListed(i) ==
    /\ ListsRead(i)
    /\ ~Exists(polls[i].house)
    /\ GoesOn(i, [at |-> "answer", view |-> NoAccount])
    /\ UNCHANGED <<vars, open, view, formVars, pending, sent, acts, failures>>

(* A balance that cannot be read is taken for none... *)
ReadVault(i) ==
    /\ ListsRead(i)
    /\ Exists(polls[i].house)
    /\ LET h == polls[i].pda
       IN  \E vault \in {token[h], 0} :
            /\ Misses(vault # token[h])
            /\ GoesOn(i, [at |-> "policy",
                          view |-> Split(h, polls[i].house, polls[i].reserved[h], vault)])
    /\ UNCHANGED <<vars, open, view, formVars, pending, sent, acts>>

(* ... and a policy that cannot be read for there being none. *)
ReadPolicy(i) ==
    /\ Waiting(i, "policy")
    /\ \E known \in BOOLEAN :
        /\ Misses(~known)
        /\ GoesOn(i, [at |-> "answer", view |-> WithPolicy(polls[i].view,
                        IF known THEN filters[polls[i].view.pda] ELSE NoAccount, known)])
    /\ UNCHANGED <<vars, open, view, formVars, pending, sent, acts>>

FormsFrom(v) ==
    /\ policyForm' = [known |-> v.known, read |-> v.filters,
                      policy |-> policyFromFilters(v.filters)]
    /\ paramsForm' = v.params

(* The panels fill their forms when they first show, and keep them when    *)
(* another house of the owner's comes first.                               *)
Answer(i) ==
    /\ Waiting(i, "answer")
    /\ view' = polls[i].view
    /\ CASE view' = NoAccount -> policyForm' = NoForm /\ paramsForm' = NoForm
         [] view' # NoAccount /\ view = NoAccount -> FormsFrom(view')
         [] OTHER -> UNCHANGED formVars
    /\ GoesOn(i, NoPoll)
    /\ UNCHANGED <<vars, open, pending, sent, acts, failures>>

(* "All Houses" and back: the panels show for the first time again. *)
SwitchTabs ==
    /\ view # NoAccount
    /\ FormsFrom(view)
    /\ UNCHANGED <<vars, open, view, polls, pending, sent, acts, failures>>

(* Without an answer the page stays as it is. *)
PollFails(i) ==
    /\ polls[i] # NoPoll
    /\ failures < MaxFailures
    /\ failures' = failures + 1
    /\ GoesOn(i, NoPoll)
    /\ UNCHANGED <<vars, open, view, formVars, pending, sent, acts>>

(* Nothing of the tab is kept, and what the wallet has sent is sent. *)
CloseTab ==
    /\ open
    /\ open' = FALSE
    /\ view' = NoAccount
    /\ polls' = [i \in DOMAIN polls |-> NoPoll]
    /\ policyForm' = NoForm /\ paramsForm' = NoForm
    /\ pending' = NoAccount
    /\ UNCHANGED <<vars, sent, acts, failures>>

-----------------------------------------------------------------------------
(* Actions *)

EditPolicy ==
    /\ policyForm # NoForm
    /\ \E p \in PolicyChoices : policyForm' = [policyForm EXCEPT !.policy = p]
    /\ UNCHANGED <<vars, open, view, polls, paramsForm, pending, sent, acts, failures>>

EditParams ==
    /\ paramsForm # NoForm
    /\ paramsForm' \in HouseChoices
    /\ UNCHANGED <<vars, open, view, polls, policyForm, pending, sent, acts, failures>>

(* Every button is disabled while an action is in flight. *)
act(action) ==
    /\ pending = NoAccount
    /\ open /\ acts < MaxActs
    /\ acts' = acts + 1
    /\ pending' = [at |-> "building", action |-> action]
    /\ UNCHANGED <<vars, open, view, polls, formVars, sent, failures>>

ClickCreate ==
    /\ view = NoAccount
    /\ \E p \in HouseChoices, amount \in Amounts, policy \in PolicyChoices :
        act([kind |-> "create", params |-> p, amount |-> amount,
             filters |-> IF isOpenPolicy(policy) THEN NoAccount
                         ELSE policyToFilters(policy)])

ClickDeposit ==
    /\ view # NoAccount
    /\ \E amount \in Amounts : act([kind |-> "deposit", amount |-> amount])

(* "Only .. USDC is free to withdraw." *)
WithdrawGuard(amount) == amount <= Free(view)
ClickWithdraw ==
    /\ view # NoAccount
    /\ \E amount \in Amounts :
        WithdrawGuard(amount) /\ act([kind |-> "withdraw", amount |-> amount])

ClickPause ==
    /\ view # NoAccount
    /\ act([kind |-> "setPaused", paused |-> ~view.paused])

SavePolicy ==
    /\ policyForm # NoForm
    /\ act([kind |-> "setFilters", filters |-> policyToFilters(policyForm.policy)])

SaveParams ==
    /\ paramsForm # NoForm
    /\ act([kind |-> "updateParams", params |-> paramsForm])

(* One transaction: the house, its collateral and its policy.  Like every  *)
(* action it is for the house numbered 1, whichever is shown.              *)
CreateFunded(action) ==
    /\ Exists(config)
    /\ ~Exists(houses[MyHouse])
    /\ validate(action.params)
    /\ token[Me] >= action.amount
    /\ action.filters # NoAccount => ListsFit(action.filters)
    /\ houses' = [houses EXCEPT ![MyHouse] =
            [params |-> action.params, total_locked |-> 0, paused |-> FALSE]]
    /\ token' = Moved(token, Me, MyHouse, action.amount)
    /\ filters' = [filters EXCEPT ![MyHouse] = action.filters]
    /\ UNCHANGED <<config, frontends, exposures, prints, bets, unix_timestamp, scores>>

Executes(action) ==
    \/ action.kind = "create" /\ CreateFunded(action)
    \/ /\ action.kind = "deposit"
       /\ Deposit([depositor |-> Me, house |-> MyHouse, amount |-> action.amount])
    \/ /\ action.kind = "withdraw"
       /\ Withdraw([house |-> MyHouse, destination |-> Me, amount |-> action.amount])
    \/ action.kind = "updateParams" /\ UpdateHouseParams(MyHouse, action.params)
    \/ action.kind = "setPaused" /\ SetPaused(MyHouse, action.paused)
    \/ action.kind = "setFilters" /\ SetHouseFilters(MyHouse, action.filters)

(* The server builds the transaction and simulates it. *)
ServerBuilds ==
    /\ pending # NoAccount /\ pending.at = "building"
    /\ ENABLED Executes(pending.action)
    /\ pending' = [pending EXCEPT !.at = "signing"]
    /\ UNCHANGED <<vars, open, view, polls, formVars, sent, acts, failures>>

(* Refused by the simulation, declined by the user, or lost on the way. *)
Fails ==
    /\ pending # NoAccount
    /\ pending' = NoAccount
    /\ UNCHANGED <<vars, open, view, polls, formVars, sent, acts, failures>>

(* "confirmed" is said when the wallet has sent. *)
WalletSends ==
    /\ pending # NoAccount /\ pending.at = "signing"
    /\ sent' = sent \cup {pending.action}
    /\ pending' = NoAccount
    /\ UNCHANGED <<vars, open, view, polls, formVars, acts, failures>>

Lands(action) ==
    /\ action \in sent
    /\ sent' = sent \ {action}
    /\ Executes(action)
    /\ UNCHANGED <<open, view, polls, formVars, pending, acts, failures>>

Expires(action) ==
    /\ action \in sent
    /\ sent' = sent \ {action}
    /\ UNCHANGED <<vars, open, view, polls, formVars, pending, acts, failures>>

-----------------------------------------------------------------------------
(* A fresh tab; how many polls may be in flight is for the instance to say. *)
ConsoleInit ==
    /\ view = NoAccount
    /\ policyForm = NoForm /\ paramsForm = NoForm
    /\ pending = NoAccount /\ sent = {} /\ failures = 0

Polling(i) ==
    ReadLists(i) \/ NotListed(i) \/ ReadVault(i) \/ ReadPolicy(i) \/ Answer(i)

PollNext == Interval \/ \E i \in DOMAIN polls : Polling(i) \/ PollFails(i)
FormNext == SwitchTabs \/ EditPolicy \/ EditParams \/ SavePolicy \/ SaveParams
ActNext ==
    \/ ClickCreate \/ ClickDeposit \/ ClickWithdraw \/ ClickPause
    \/ ServerBuilds \/ Fails \/ WalletSends
    \/ \E action \in sent : Lands(action) \/ Expires(action)

ConsoleNext == PollNext \/ FormNext \/ ActNext \/ CloseTab

(* The page among everybody else who uses the program, from a new program  *)
(* on: a page that is opened later finds what one finds that was idle.     *)
ConsoleSpec ==
    /\ Init /\ ConsoleInit /\ polls = [i \in 1..MaxPolls |-> NoPoll]
    /\ [][ConsoleNext \/ (Next /\ UNCHANGED consoleVars)]_<<vars, consoleVars>>

ConsoleFairness ==
    /\ WF_consoleVars(Interval)
    /\ \A i \in 1..MaxPolls :
        WF_consoleVars(i \in DOMAIN polls /\ Polling(i))

-----------------------------------------------------------------------------
(* However polls overtake one another and however their reads are torn by  *)
(* bets and actions, once the chain is quiet a page left open comes to     *)
(* show a house of its owner's as it is, or none if there is none.         *)
ConsoleCatchesUp ==
    <>[][FALSE]_vars =>
        <>[](open => IF Listed = {} THEN view = NoAccount
                     ELSE \E h \in Listed : view = Current(h))

(* "Free - withdrawable now": while the page shows the house it acts on    *)
(* and the view is current, what it calls free is what the program lets    *)
(* the owner take, neither more nor less.                                  *)
FreeIsWithdrawable ==
    MyHouse \in Listed /\ view = Current(MyHouse) =>
        \A amount \in 0..token[MyHouse] + 1 :
            WithdrawGuard(amount)
                <=> CanWithdraw([house |-> MyHouse, destination |-> Me, amount |-> amount])

(* What the form says is offered, by the names of its choices. *)
Says(mode, selected, x) ==
    CASE mode = "all" -> TRUE
      [] mode = "only" -> x \in selected
      [] mode = "except" -> x \notin selected

(* A form filled from the policy the chain holds, and what the chain makes *)
(* of a form that is saved, say the same of every fixture - unless the     *)
(* rule is an empty allow-list, which offers nothing and shows as "Offer   *)
(* all".                                                                   *)
FormTellsPolicy ==
    LET p == policyForm.policy
        f == policyForm.read
    IN  policyForm # NoForm =>
            \A x \in Fixtures :
                /\ fixture_offered(policyToFilters(p), x) <=> Says(p.fxMode, p.fxs, x)
                /\ (p = policyFromFilters(f) /\ policyForm.known /\ f = filters[MyHouse]
                    /\ ~(f # NoAccount /\ f.fixture_allow /\ f.fixtures = {}))
                   => (Says(p.fxMode, p.fxs, x) <=> Offered(MyHouse, x))
=============================================================================
