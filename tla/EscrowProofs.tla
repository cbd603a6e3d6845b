---------------------------- MODULE EscrowProofs ----------------------------
(***************************************************************************)
(* Theorems that the program's figures add up: what a book holds is what   *)
(* its live bets put there, a house's total is what its books lock, and    *)
(* the shared escrow account backs every live bet, with nothing stranded.  *)
(***************************************************************************)
EXTENDS BethehouseProofs

-----------------------------------------------------------------------------
(* Books *)

Slots == Bettors \X Nonces

(* Bet b takes the place of bets[bn] while book e takes the place of the   *)
(* book of h and f: e differs from it by what the two bets put there, and  *)
(* neither bet is on another book.                                         *)
BookMoves(bn, b, h, f, e) ==
    LET old == bets[bn]
        book == BookOf(h, f)
    IN  /\ Exists(houses[h])
        /\ bets' = [bets EXCEPT ![bn] = b]
        /\ Resynced(h, e) \in U64 /\ ResyncLocks(h, f, e)
        /\ exposures'[<<h, f>>] \in FixtureExposure
        /\ e.locked = book.locked
        /\ \A o \in Outcomes :
                e.liability[o] = book.liability[o] - Claim(old, h, f, o) + Claim(b, h, f, o)
        /\ e.stakes_collected =
                book.stakes_collected - Collected(old, h, f) + Collected(b, h, f)
        /\ e.open_bets = book.open_bets - Counted(old, h, f) + Counted(b, h, f)
        /\ \A g \in Houses, k \in Fixtures :
                <<g, k>> # <<h, f>> => ~OnBook(old, g, k) /\ ~OnBook(b, g, k)

(* What a bet puts on a book is a natural number, and nothing when it is   *)
(* not on it.                                                              *)
LEMMA PartType ==
    ASSUME NEW bet \in Bet \cup {NoAccount}, NEW h, NEW f
    PROVE  /\ \A o : Claim(bet, h, f, o) \in Nat
           /\ Collected(bet, h, f) \in Nat
           /\ Counted(bet, h, f) \in Nat
           /\ ~OnBook(bet, h, f) => /\ \A o : Claim(bet, h, f, o) = 0
                                    /\ Collected(bet, h, f) = 0
                                    /\ Counted(bet, h, f) = 0
  BY ConstantsAssumption DEF Claim, Collected, Counted, OnBook, Exists, Bet, U64

(* The books after a resync: the one resynced holds what e does, and the   *)
(* others are as they were.                                                *)
LEMMA BookAfter ==
    ASSUME TypeOK, NEW h \in Houses, NEW f \in Fixtures, NEW e,
           ResyncLocks(h, f, e), exposures'[<<h, f>>] \in FixtureExposure
    PROVE  /\ e.liability = BookOf(h, f)'.liability
           /\ e.stakes_collected = BookOf(h, f)'.stakes_collected
           /\ e.open_bets = BookOf(h, f)'.open_bets
           /\ BookOf(h, f)'.locked = locked(e.liability, e.stakes_collected)
           /\ \A g \in Houses, k \in Fixtures :
                <<g, k>> # <<h, f>> => BookOf(g, k)' = BookOf(g, k)
<1> DEFINE lock == locked(e.liability, e.stakes_collected)
           new == [e EXCEPT !.locked = lock]
<1>1. exposures' = [exposures EXCEPT ![<<h, f>>] = new]
  BY DEF ResyncLocks
<1> HIDE DEF lock
<1>2. exposures'[<<h, f>>] = new
  BY <1>1 DEF TypeOK
<1>3. BookOf(h, f)' = new
  BY <1>2, NoAccountAssumption DEF BookOf, Exists
<1>4. /\ e.liability = new.liability
      /\ e.stakes_collected = new.stakes_collected
      /\ e.open_bets = new.open_bets
      /\ new.locked = lock
  <2>1. new \in FixtureExposure
    BY <1>2
  <2>2. DOMAIN new = {"liability", "stakes_collected", "locked", "open_bets"}
    <3> HIDE DEF new
    <3> QED
      BY <2>1 DEF FixtureExposure
  <2>3. DOMAIN new = DOMAIN e
    OBVIOUS
  <2> QED
    BY <2>2, <2>3
<1>5. ASSUME NEW g \in Houses, NEW k \in Fixtures, <<g, k>> # <<h, f>>
      PROVE  BookOf(g, k)' = BookOf(g, k)
  <2>1. exposures'[<<g, k>>] = exposures[<<g, k>>]
    BY <1>1, <1>5
  <2> QED
    BY <2>1 DEF BookOf, Exists
<1> HIDE DEF new
<1> QED
  BY <1>3, <1>4, <1>5 DEF lock

(* One bet's part changes a sum over the bets by the difference. *)
LEMMA PartsChange ==
    ASSUME NEW F \in [Slots -> Nat], NEW G \in [Slots -> Nat], NEW bn \in Slots,
           \A other \in Slots : other # bn => G[other] = F[other]
    PROVE  SumFunction(G) = SumFunction(F) - F[bn] + G[bn]
<1>1. IsFiniteSet(Slots)
  BY FiniteAssumption DEF Slots
<1>2. SumFunctionOnSet(G, Slots) = SumFunctionOnSet(F, Slots) - F[bn] + G[bn]
  BY <1>1, SumChange
<1>3. DOMAIN F = Slots /\ DOMAIN G = Slots
  OBVIOUS
<1> QED
  BY <1>2, <1>3 DEF SumFunction

(* The bets put natural numbers on a book. *)
LEMMA PartsType ==
    ASSUME TypeOK, NEW h, NEW f
    PROVE  /\ \A o : Claims(h, f, o) \in [Slots -> Nat]
           /\ StakesOn(h, f) \in [Slots -> Nat]
           /\ Counts(h, f) \in [Slots -> Nat]
<1>1. \A bn \in Slots : bets[bn] \in Bet \cup {NoAccount}
  BY DEF TypeOK, Slots
<1>2. /\ \A o : \A bn \in Slots : Claim(bets[bn], h, f, o) \in Nat
      /\ \A bn \in Slots : Collected(bets[bn], h, f) \in Nat
      /\ \A bn \in Slots : Counted(bets[bn], h, f) \in Nat
  BY <1>1, PartType
<1> QED
  BY <1>2 DEF Claims, StakesOn, Counts, Slots

(* When one bet changes, the sums of every book change by its parts.       *)
LEMMA SumsAfter ==
    ASSUME TypeOK, TypeOK', NEW bn \in Slots, NEW b, bets'[bn] = b,
           \A other \in Slots : other # bn => bets'[other] = bets[other],
           NEW h, NEW f, NEW o
    PROVE  /\ SumFunction(Claims(h, f, o)') =
                SumFunction(Claims(h, f, o)) - Claim(bets[bn], h, f, o) + Claim(b, h, f, o)
           /\ SumFunction(StakesOn(h, f)') =
                SumFunction(StakesOn(h, f)) - Collected(bets[bn], h, f) + Collected(b, h, f)
           /\ SumFunction(Counts(h, f)') =
                SumFunction(Counts(h, f)) - Counted(bets[bn], h, f) + Counted(b, h, f)
<1>1. /\ Claims(h, f, o) \in [Slots -> Nat] /\ Claims(h, f, o)' \in [Slots -> Nat]
      /\ StakesOn(h, f) \in [Slots -> Nat] /\ StakesOn(h, f)' \in [Slots -> Nat]
      /\ Counts(h, f) \in [Slots -> Nat] /\ Counts(h, f)' \in [Slots -> Nat]
  <2>1. /\ Claims(h, f, o) \in [Slots -> Nat]
        /\ StakesOn(h, f) \in [Slots -> Nat]
        /\ Counts(h, f) \in [Slots -> Nat]
    BY PartsType
  <2>2. \A other \in Slots : bets'[other] \in Bet \cup {NoAccount}
    BY DEF TypeOK, Slots
  <2>3. /\ \A other \in Slots : Claim(bets'[other], h, f, o) \in Nat
        /\ \A other \in Slots : Collected(bets'[other], h, f) \in Nat
        /\ \A other \in Slots : Counted(bets'[other], h, f) \in Nat
    BY <2>2, PartType
  <2>4. /\ Claims(h, f, o)' \in [Slots -> Nat]
        /\ StakesOn(h, f)' \in [Slots -> Nat]
        /\ Counts(h, f)' \in [Slots -> Nat]
    BY <2>3 DEF Claims, StakesOn, Counts, Slots
  <2> QED
    BY <2>1, <2>4
<1>2. SumFunction(Claims(h, f, o)') =
        SumFunction(Claims(h, f, o)) - Claim(bets[bn], h, f, o) + Claim(b, h, f, o)
  <2>1. /\ Claims(h, f, o)[bn] = Claim(bets[bn], h, f, o)
        /\ Claims(h, f, o)'[bn] = Claim(b, h, f, o)
        /\ \A other \in Slots : other # bn =>
                Claims(h, f, o)'[other] = Claims(h, f, o)[other]
    BY DEF Claims, Slots
  <2> QED
    BY <1>1, <2>1, PartsChange
<1>3. SumFunction(StakesOn(h, f)') =
        SumFunction(StakesOn(h, f)) - Collected(bets[bn], h, f) + Collected(b, h, f)
  <2>1. /\ StakesOn(h, f)[bn] = Collected(bets[bn], h, f)
        /\ StakesOn(h, f)'[bn] = Collected(b, h, f)
        /\ \A other \in Slots : other # bn => StakesOn(h, f)'[other] = StakesOn(h, f)[other]
    BY DEF StakesOn, Slots
  <2> QED
    BY <1>1, <2>1, PartsChange
<1>4. SumFunction(Counts(h, f)') =
        SumFunction(Counts(h, f)) - Counted(bets[bn], h, f) + Counted(b, h, f)
  <2>1. /\ Counts(h, f)[bn] = Counted(bets[bn], h, f)
        /\ Counts(h, f)'[bn] = Counted(b, h, f)
        /\ \A other \in Slots : other # bn => Counts(h, f)'[other] = Counts(h, f)[other]
    BY DEF Counts, Slots
  <2> QED
    BY <1>1, <2>1, PartsChange
<1> QED
  BY <1>2, <1>3, <1>4

(* So books that match their bets go on matching them. *)
LEMMA BookMovesMatch ==
    ASSUME TypeOK, TypeOK', BookMatchesBets,
           NEW bn \in Slots, NEW b \in Bet, NEW h \in Houses, NEW f \in Fixtures, NEW e,
           BookMoves(bn, b, h, f, e)
    PROVE  BookMatchesBets'
<1>1. bets'[bn] = b /\ \A other \in Slots : other # bn => bets'[other] = bets[other]
  BY DEF BookMoves, TypeOK, Slots
<1> DEFINE old == bets[bn]
<1>2. old \in Bet \cup {NoAccount}
  BY DEF TypeOK, Slots
<1> HIDE DEF old
<1>3. ASSUME NEW g \in Houses, NEW k \in Fixtures
      PROVE  /\ \A o \in Outcomes : BookOf(g, k)'.liability[o] =
                    BookOf(g, k).liability[o] - Claim(old, g, k, o) + Claim(b, g, k, o)
             /\ BookOf(g, k)'.stakes_collected =
                    BookOf(g, k).stakes_collected - Collected(old, g, k) + Collected(b, g, k)
             /\ BookOf(g, k)'.open_bets =
                    BookOf(g, k).open_bets - Counted(old, g, k) + Counted(b, g, k)
  <2>1. CASE <<g, k>> = <<h, f>>
    <3>1. g = h /\ k = f
      BY <2>1
    <3>2. /\ e.liability = BookOf(h, f)'.liability
          /\ e.stakes_collected = BookOf(h, f)'.stakes_collected
          /\ e.open_bets = BookOf(h, f)'.open_bets
      BY BookAfter DEF BookMoves
    <3> QED
      BY <3>1, <3>2 DEF BookMoves, old
  <2>2. CASE <<g, k>> # <<h, f>>
    <3>1. BookOf(g, k)' = BookOf(g, k)
      BY <2>2, BookAfter DEF BookMoves
    <3>2. ~OnBook(old, g, k) /\ ~OnBook(b, g, k)
      BY <2>2 DEF BookMoves, old
    <3>3. /\ \A o : Claim(old, g, k, o) = 0 /\ Claim(b, g, k, o) = 0
          /\ Collected(old, g, k) = 0 /\ Collected(b, g, k) = 0
          /\ Counted(old, g, k) = 0 /\ Counted(b, g, k) = 0
      BY <1>2, <3>2, PartType
    <3>4. /\ BookOf(g, k).stakes_collected \in Nat
          /\ BookOf(g, k).open_bets \in Nat
          /\ \A o \in Outcomes : BookOf(g, k).liability[o] \in Nat
      BY BookType
    <3> QED
      BY <3>1, <3>3, <3>4
  <2> QED
    BY <2>1, <2>2
<1>4. ASSUME NEW g \in Houses, NEW k \in Fixtures
      PROVE  /\ \A o \in Outcomes : BookOf(g, k)'.liability[o] = SumFunction(Claims(g, k, o)')
             /\ BookOf(g, k)'.stakes_collected = SumFunction(StakesOn(g, k)')
             /\ BookOf(g, k)'.open_bets = SumFunction(Counts(g, k)')
  <2>1. /\ \A o \in Outcomes : BookOf(g, k).liability[o] = SumFunction(Claims(g, k, o))
        /\ BookOf(g, k).stakes_collected = SumFunction(StakesOn(g, k))
        /\ BookOf(g, k).open_bets = SumFunction(Counts(g, k))
    BY DEF BookMatchesBets
  <2>2. ASSUME NEW o \in Outcomes
        PROVE  BookOf(g, k)'.liability[o] = SumFunction(Claims(g, k, o)')
    <3>1. SumFunction(Claims(g, k, o)') =
            SumFunction(Claims(g, k, o)) - Claim(old, g, k, o) + Claim(b, g, k, o)
      BY <1>1, SumsAfter DEF old
    <3> QED
      BY <1>3, <2>1, <3>1
  <2>3. SumFunction(StakesOn(g, k)') =
            SumFunction(StakesOn(g, k)) - Collected(old, g, k) + Collected(b, g, k)
    BY <1>1, SumsAfter DEF old
  <2>4. SumFunction(Counts(g, k)') =
            SumFunction(Counts(g, k)) - Counted(old, g, k) + Counted(b, g, k)
    BY <1>1, SumsAfter DEF old
  <2> QED
    BY <1>3, <2>1, <2>2, <2>3, <2>4
<1> QED
  BY <1>4 DEF BookMatchesBets

-----------------------------------------------------------------------------
(* A house's total *)

(* A book belongs to a house that exists, so a new house has no books. *)
BooksHaveHouses ==
    \A h \in Houses, f \in Fixtures : Exists(exposures[<<h, f>>]) => Exists(houses[h])

(* Locks are natural numbers. *)
LEMMA LocksType ==
    ASSUME TypeOK, NEW h \in Houses
    PROVE  Locks(h) \in [Fixtures -> Nat]
  BY BookType DEF Locks

(* One book's lock changes its house's sum by the difference. *)
LEMMA LocksChange ==
    ASSUME NEW F \in [Fixtures -> Nat], NEW G \in [Fixtures -> Nat], NEW f \in Fixtures,
           \A k \in Fixtures : k # f => G[k] = F[k]
    PROVE  SumFunction(G) = SumFunction(F) - F[f] + G[f]
<1>1. SumFunctionOnSet(G, Fixtures) = SumFunctionOnSet(F, Fixtures) - F[f] + G[f]
  BY FiniteAssumption, SumChange
<1>2. DOMAIN F = Fixtures /\ DOMAIN G = Fixtures
  OBVIOUS
<1> QED
  BY <1>1, <1>2 DEF SumFunction

(* What ResyncLocks rolls into the total is what the sum changes by. *)
LEMMA BookMovesTotal ==
    ASSUME TypeOK, TypeOK', TotalMatchesBooks, BooksHaveHouses,
           NEW bn \in Slots, NEW b \in Bet, NEW h \in Houses, NEW f \in Fixtures, NEW e,
           BookMoves(bn, b, h, f, e)
    PROVE  TotalMatchesBooks' /\ BooksHaveHouses'
<1> DEFINE lock == locked(e.liability, e.stakes_collected)
           total == houses[h].total_locked + lock - e.locked
<1>1. total \in U64 /\ houses' = [houses EXCEPT ![h].total_locked = total]
  BY DEF BookMoves, ResyncLocks, Resynced
<1>2. houses[h] \in House
  BY DEF BookMoves, TypeOK, Exists
<1> HIDE DEF total
<1>3. /\ houses'[h].total_locked = total /\ Exists(houses'[h])
      /\ \A g \in Houses : g # h => houses'[g] = houses[g]
  <2>1. houses' = [houses EXCEPT ![h] = [houses[h] EXCEPT !.total_locked = total]]
    BY <1>1
  <2>2. [houses[h] EXCEPT !.total_locked = total].total_locked = total
    BY <1>2 DEF House
  <2>3. [houses[h] EXCEPT !.total_locked = total] \in House
    BY <1>1, <1>2 DEF House
  <2> QED
    BY <2>1, <2>2, <2>3, NoAccountAssumption DEF TypeOK, Exists
<1>4. /\ BookOf(h, f)'.locked = lock
      /\ \A g \in Houses, k \in Fixtures :
            <<g, k>> # <<h, f>> => BookOf(g, k)' = BookOf(g, k)
  BY BookAfter DEF BookMoves
<1>5. ASSUME NEW g \in Houses
      PROVE  Locks(g) \in [Fixtures -> Nat] /\ Locks(g)' \in [Fixtures -> Nat]
  <2>1. Locks(g) \in [Fixtures -> Nat]
    BY LocksType
  <2>2. ASSUME NEW k \in Fixtures
        PROVE  BookOf(g, k)'.locked \in Nat
    <3>1. NewExposure.locked = 0
      BY DEF NewExposure
    <3>2. exposures'[<<g, k>>] \in FixtureExposure \cup {NoAccount}
      BY DEF TypeOK
    <3> QED
      BY <3>1, <3>2, ConstantsAssumption DEF BookOf, Exists, FixtureExposure, U64
  <2>3. Locks(g)' \in [Fixtures -> Nat]
    BY <2>2 DEF Locks
  <2> QED
    BY <2>1, <2>3
<1>6. SumFunction(Locks(h)') = SumFunction(Locks(h)) - e.locked + lock
  <2>1. /\ Locks(h)[f] = e.locked /\ Locks(h)'[f] = lock
        /\ \A k \in Fixtures : k # f => Locks(h)'[k] = Locks(h)[k]
    BY <1>4 DEF Locks, BookMoves
  <2>2. Locks(h) \in [Fixtures -> Nat] /\ Locks(h)' \in [Fixtures -> Nat]
    BY <1>5
  <2> QED
    BY <2>1, <2>2, LocksChange
<1>7. ASSUME NEW g \in Houses, Exists(houses'[g])
      PROVE  houses'[g].total_locked = SumFunction(Locks(g)')
  <2>1. CASE g = h
    <3>1. houses[h].total_locked = SumFunction(Locks(h))
      BY DEF TotalMatchesBooks, BookMoves
    <3>2. /\ houses[h].total_locked \in Nat /\ lock \in Nat /\ e.locked \in Nat
      <4>1. e.locked \in Nat
        BY BookType DEF BookMoves
      <4>2. Locks(h)'[f] = lock /\ Locks(h)' \in [Fixtures -> Nat]
        BY <1>4, <1>5 DEF Locks
      <4> QED
        BY <1>2, <4>1, <4>2, ConstantsAssumption DEF House, U64
    <3> HIDE DEF lock
    <3> QED
      BY <1>3, <1>6, <2>1, <3>1, <3>2 DEF total
  <2>2. CASE g # h
    <3>1. houses'[g] = houses[g]
      BY <1>3, <2>2
    <3>2. Locks(g)' = Locks(g)
      BY <1>4, <2>2 DEF Locks
    <3> QED
      BY <1>7, <3>1, <3>2 DEF TotalMatchesBooks
  <2> QED
    BY <2>1, <2>2
<1>8. ASSUME NEW g \in Houses, NEW k \in Fixtures, Exists(exposures'[<<g, k>>])
      PROVE  Exists(houses'[g])
  <2>1. CASE g = h
    BY <1>3, <2>1
  <2>2. CASE g # h
    <3>1. exposures'[<<g, k>>] = exposures[<<g, k>>]
      BY <2>2 DEF BookMoves, ResyncLocks
    <3> QED
      BY <1>3, <1>8, <2>2, <3>1 DEF BooksHaveHouses
  <2> QED
    BY <2>1, <2>2
<1> QED
  BY <1>7, <1>8 DEF TotalMatchesBooks, BooksHaveHouses, Exists

-----------------------------------------------------------------------------
(* Each instruction that moves a book moves it by what it does to its bet. *)

SomeBookMoves ==
    \E bn \in Slots, b \in Bet, h \in Houses, f \in Fixtures : \E e : BookMoves(bn, b, h, f, e)

(* commit_bet adds a pending bet and its reservation. *)
LEMMA CommitMoves ==
    ASSUME TypeOK, NEW order \in Orders, CommitBet(order)
    PROVE  SomeBookMoves
<1> DEFINE h == order.house
           f == order.fixture_id
           o == order.outcome
           bn == <<order.bettor, order.nonce>>
           house == houses[h]
           book == BookOf(h, f)
           reservation == reserved(order.stake, house.params.odds_cap)
           frontend_fee == TruncatedFee(order.stake, frontends[order.frontend].fee_bps)
           protocol_fee == TruncatedFee(order.stake, config.protocol_fee_bps)
           e == [book EXCEPT !.liability[o] = @ + reservation, !.open_bets = @ + 1]
           bet == NewBet(order, reservation, frontend_fee, protocol_fee)
<1>1. /\ h \in Houses /\ f \in Fixtures /\ o \in Outcomes /\ bn \in Slots
  BY ConstantsAssumption DEF Order, Slots
<1>2. /\ Exists(house)
      /\ ~Exists(bets[bn])
      /\ Resynced(h, e) \in U64 /\ ResyncLocks(h, f, e)
      /\ bets' = [bets EXCEPT ![bn] = bet]
  BY DEF CommitBet, CanCommit, CommittedBook, Reservation, FrontendFeeOf, ProtocolFeeOf, IsBet
<1>3. bet \in Bet /\ exposures'[<<h, f>>] \in FixtureExposure
  <2>1. bets'[bn] = bet
    BY <1>1, <1>2 DEF TypeOK, Slots
  <2> HIDE DEF bet
  <2> QED
    BY <2>1, CommitBetTypes
<1>4. /\ bet.house = h /\ bet.fixture_id = f /\ bet.outcome = o
      /\ bet.reserved = reservation /\ bet.state = "Pending"
  BY DEF NewBet
<1> HIDE DEF bet
<1>5. reservation \in Nat
  BY <1>3, <1>4, ConstantsAssumption DEF Bet, U64
<1>6. /\ book \in FixtureExposure
      /\ book.stakes_collected \in Nat /\ book.open_bets \in Nat
      /\ \A p \in Outcomes : book.liability[p] \in Nat
  BY <1>1, BookType
<1> HIDE DEF book, reservation
<1>7. /\ e.locked = book.locked /\ e.stakes_collected = book.stakes_collected
      /\ e.open_bets = book.open_bets + 1
      /\ e.liability = [book.liability EXCEPT ![o] = @ + reservation]
  BY <1>6 DEF FixtureExposure
<1>8. book.liability \in [Outcomes -> U64]
  BY <1>6 DEF FixtureExposure
<1> HIDE DEF e
<1>9. Exists(bet)
  BY <1>3, NoAccountAssumption DEF Exists
<1>10. \A g, k : ~OnBook(bets[bn], g, k)
  BY <1>2 DEF OnBook
<1>11. \A g, k : OnBook(bet, g, k) <=> <<g, k>> = <<h, f>>
  BY <1>4, <1>9 DEF OnBook
<1>12. \A p \in Outcomes :
        e.liability[p] = book.liability[p] - Claim(bets[bn], h, f, p) + Claim(bet, h, f, p)
  BY <1>1, <1>4, <1>5, <1>6, <1>7, <1>8, <1>10, <1>11 DEF Claim
<1>13. e.stakes_collected =
        book.stakes_collected - Collected(bets[bn], h, f) + Collected(bet, h, f)
  BY <1>4, <1>6, <1>7, <1>10, <1>11 DEF Collected
<1>14. e.open_bets = book.open_bets - Counted(bets[bn], h, f) + Counted(bet, h, f)
  BY <1>6, <1>7, <1>10, <1>11 DEF Counted
<1>15. BookMoves(bn, bet, h, f, e)
  BY <1>2, <1>3, <1>7, <1>10, <1>11, <1>12, <1>13, <1>14 DEF BookMoves, book
<1> HIDE DEF h, f, bn
<1> QED
  BY <1>1, <1>3, <1>15 DEF SomeBookMoves

(* fill_bet trues the reservation down to the payout and collects the      *)
(* stake.                                                                  *)
LEMMA FillMoves ==
    ASSUME TypeOK, NEW cranker_token \in RewardAccounts,
           NEW bettor \in Bettors, NEW nonce \in Nonces,
           NEW commit_print \in prints, NEW target_print \in prints,
           FillBet(cranker_token, bettor, nonce, commit_print, target_print)
    PROVE  SomeBookMoves
<1> DEFINE bn == <<bettor, nonce>>
           bet == bets[bn]
           h == bet.house
           f == bet.fixture_id
           o == bet.outcome
           book == exposures[<<h, f>>]
           odds == FillOddsFor(bet, commit_print, target_print)
           pays == payout(bet.stake, odds)
           e == FilledBook(book, bet, pays)
           active == [bet EXCEPT !.fill_odds = odds,
                                 !.fill_ts_ms = target_print.ts,
                                 !.payout = pays,
                                 !.keeper_rewards_remaining = @ - 1,
                                 !.state = "Active"]
<1>1. /\ IsBet(bettor, nonce) /\ bet.state = "Pending"
      /\ Exists(houses[h]) /\ Exists(book)
      /\ Resynced(h, e) \in U64 /\ ResyncLocks(h, f, e)
      /\ bets' = [bets EXCEPT ![bn] = active]
  BY DEF FillBet, CanFill, InState, Loaded
<1>2. /\ bn \in Slots /\ bet \in Bet
      /\ active \in Bet /\ exposures'[<<h, f>>] \in FixtureExposure
  <2>1. bn \in Slots /\ bet \in Bet
    BY <1>1, BetFact DEF Slots
  <2>2. bets'[bn] = active
    BY <1>1, <2>1 DEF TypeOK, Slots
  <2> HIDE DEF active
  <2> QED
    BY <2>1, <2>2, FillBetTypes
<1> HIDE DEF bet, odds, pays
<1>3. /\ active.house = h /\ active.fixture_id = f /\ active.outcome = o
      /\ active.payout = pays /\ active.state = "Active" /\ active.stake = bet.stake
  BY <1>2 DEF Bet
<1> HIDE DEF active
<1>4. /\ h \in Houses /\ f \in Fixtures /\ o \in Outcomes
      /\ bet.reserved \in Nat /\ bet.stake \in Nat /\ pays \in Nat
  BY <1>2, <1>3, ConstantsAssumption DEF Bet, U64
<1>5. /\ book = BookOf(h, f)
      /\ book \in FixtureExposure
      /\ book.stakes_collected \in Nat /\ book.open_bets \in Nat
      /\ \A p \in Outcomes : book.liability[p] \in Nat
  <2>1. book = BookOf(h, f)
    BY <1>1 DEF BookOf
  <2> QED
    BY <1>4, <2>1, BookType
<1> HIDE DEF book, h, f, o
<1>6. /\ e.locked = book.locked
      /\ e.stakes_collected = book.stakes_collected + bet.stake
      /\ e.open_bets = book.open_bets
      /\ e.liability = [book.liability EXCEPT ![o] = @ - (bet.reserved - pays)]
  BY <1>5 DEF FilledBook, FixtureExposure, o
<1>7. book.liability \in [Outcomes -> U64]
  BY <1>5 DEF FixtureExposure
<1> HIDE DEF e
<1>8. Exists(bet) /\ Exists(active)
  BY <1>2, NoAccountAssumption DEF Exists
<1>9. /\ OnBook(bet, h, f) /\ OnBook(active, h, f)
      /\ \A g \in Houses, k \in Fixtures :
            <<g, k>> # <<h, f>> => ~OnBook(bet, g, k) /\ ~OnBook(active, g, k)
  BY <1>1, <1>3, <1>8 DEF OnBook, h, f
<1>10. \A p \in Outcomes :
        e.liability[p] = book.liability[p] - Claim(bet, h, f, p) + Claim(active, h, f, p)
  BY <1>1, <1>3, <1>4, <1>5, <1>6, <1>7, <1>9 DEF Claim, o
<1>11. e.stakes_collected =
        book.stakes_collected - Collected(bet, h, f) + Collected(active, h, f)
  BY <1>1, <1>3, <1>4, <1>5, <1>6, <1>9 DEF Collected
<1>12. e.open_bets = book.open_bets - Counted(bet, h, f) + Counted(active, h, f)
  BY <1>5, <1>6, <1>9 DEF Counted
<1>13. BookMoves(bn, active, h, f, e)
  <2>1. book = BookOf(h, f) /\ e.locked = BookOf(h, f).locked /\ bet = bets[bn]
    BY <1>5, <1>6 DEF bet
  <2> QED
    BY <1>1, <1>2, <1>9, <1>10, <1>11, <1>12, <2>1 DEF BookMoves
<1> HIDE DEF bn
<1> QED
  BY <1>2, <1>4, <1>13 DEF SomeBookMoves

(* settle_bet and void_bet take the payout and the stake off the book.     *)
LEMMA ReleaseMoves ==
    ASSUME TypeOK, NEW cranker_token \in RewardAccounts,
           NEW bettor \in Bettors, NEW nonce \in Nonces,
           InState(bettor, nonce, "Active"), NEW paid \in Nat, NEW state \in Terminal,
           ReleaseAndReward(cranker_token, bettor, nonce, paid, state)
    PROVE  SomeBookMoves
<1> DEFINE bn == <<bettor, nonce>>
           bet == bets[bn]
           h == bet.house
           f == bet.fixture_id
           o == bet.outcome
           book == exposures[<<h, f>>]
           e == ReleasedBook(book, bet)
           ended == [bet EXCEPT !.keeper_rewards_remaining = @ - 1, !.state = state]
<1>1. /\ IsBet(bettor, nonce) /\ bet.state = "Active"
      /\ Exists(houses[h]) /\ Exists(book)
      /\ Resynced(h, e) \in U64 /\ ResyncLocks(h, f, e)
      /\ bets' = [bets EXCEPT ![bn] = ended]
  BY DEF ReleaseAndReward, InState, Loaded
<1>2. /\ bn \in Slots /\ bet \in Bet
      /\ ended \in Bet /\ exposures'[<<h, f>>] \in FixtureExposure
  <2>1. bn \in Slots /\ bet \in Bet
    BY <1>1, BetFact DEF Slots
  <2>2. bets'[bn] = ended
    BY <1>1, <2>1 DEF TypeOK, Slots
  <2>3. state \in BetState
    BY DEF Terminal, BetState
  <2> HIDE DEF ended
  <2> QED
    BY <1>1, <2>1, <2>2, <2>3, ReleaseTypes
<1> HIDE DEF bet
<1>3. ended.state \notin {"Pending", "Active"}
  BY <1>2 DEF Bet, Terminal
<1> HIDE DEF ended
<1>4. /\ h \in Houses /\ f \in Fixtures /\ o \in Outcomes
      /\ bet.payout \in Nat /\ bet.stake \in Nat
  BY <1>2, ConstantsAssumption DEF Bet, U64
<1>5. /\ book = BookOf(h, f)
      /\ book \in FixtureExposure
      /\ book.stakes_collected \in Nat /\ book.open_bets \in Nat
      /\ \A p \in Outcomes : book.liability[p] \in Nat
  <2>1. book = BookOf(h, f)
    BY <1>1 DEF BookOf
  <2> QED
    BY <1>4, <2>1, BookType
<1> HIDE DEF book, h, f, o
<1>6. /\ e.locked = book.locked
      /\ e.stakes_collected = book.stakes_collected - bet.stake
      /\ e.open_bets = book.open_bets - 1
      /\ e.liability = [book.liability EXCEPT ![o] = @ - bet.payout]
  BY <1>5 DEF ReleasedBook, FixtureExposure, o
<1>7. book.liability \in [Outcomes -> U64]
  BY <1>5 DEF FixtureExposure
<1> HIDE DEF e
<1>8. Exists(bet)
  BY <1>2, NoAccountAssumption DEF Exists
<1>9. \A g, k : /\ OnBook(bet, g, k) <=> <<g, k>> = <<h, f>>
               /\ ~OnBook(ended, g, k)
  BY <1>1, <1>3, <1>8 DEF OnBook, h, f
<1>10. \A p \in Outcomes :
        e.liability[p] = book.liability[p] - Claim(bet, h, f, p) + Claim(ended, h, f, p)
  BY <1>1, <1>4, <1>5, <1>6, <1>7, <1>9 DEF Claim, o
<1>11. e.stakes_collected =
        book.stakes_collected - Collected(bet, h, f) + Collected(ended, h, f)
  BY <1>1, <1>4, <1>5, <1>6, <1>9 DEF Collected
<1>12. e.open_bets = book.open_bets - Counted(bet, h, f) + Counted(ended, h, f)
  BY <1>5, <1>6, <1>9 DEF Counted
<1>13. BookMoves(bn, ended, h, f, e)
  BY <1>1, <1>2, <1>5, <1>6, <1>9, <1>10, <1>11, <1>12 DEF BookMoves, bet
<1> HIDE DEF bn
<1> QED
  BY <1>2, <1>4, <1>13 DEF SomeBookMoves

(* refund_commit takes the reservation off the book. *)
LEMMA RefundMoves ==
    ASSUME TypeOK, NEW bettor \in Bettors, NEW nonce \in Nonces,
           RefundCommit(bettor, nonce)
    PROVE  SomeBookMoves
<1> DEFINE bn == <<bettor, nonce>>
           bet == bets[bn]
           h == bet.house
           f == bet.fixture_id
           o == bet.outcome
           book == exposures[<<h, f>>]
           e == UnreservedBook(book, bet)
           ended == [bet EXCEPT !.state = "Refunded"]
<1>1. /\ IsBet(bettor, nonce) /\ bet.state = "Pending"
      /\ Exists(houses[h]) /\ Exists(book)
      /\ Resynced(h, e) \in U64 /\ ResyncLocks(h, f, e)
      /\ bets' = [bets EXCEPT ![bn] = ended]
  BY DEF RefundCommit, CanRefund, InState, Loaded
<1>2. /\ bn \in Slots /\ bet \in Bet
      /\ ended \in Bet /\ exposures'[<<h, f>>] \in FixtureExposure
  <2>1. bn \in Slots /\ bet \in Bet
    BY <1>1, BetFact DEF Slots
  <2>2. bets'[bn] = ended
    BY <1>1, <2>1 DEF TypeOK, Slots
  <2> HIDE DEF ended
  <2> QED
    BY <2>1, <2>2, RefundCommitTypes
<1> HIDE DEF bet
<1>3. ended.state \notin {"Pending", "Active"}
  BY <1>2 DEF Bet
<1> HIDE DEF ended
<1>4. /\ h \in Houses /\ f \in Fixtures /\ o \in Outcomes /\ bet.reserved \in Nat
  BY <1>2, ConstantsAssumption DEF Bet, U64
<1>5. /\ book = BookOf(h, f)
      /\ book \in FixtureExposure
      /\ book.stakes_collected \in Nat /\ book.open_bets \in Nat
      /\ \A p \in Outcomes : book.liability[p] \in Nat
  <2>1. book = BookOf(h, f)
    BY <1>1 DEF BookOf
  <2> QED
    BY <1>4, <2>1, BookType
<1> HIDE DEF book, h, f, o
<1>6. /\ e.locked = book.locked
      /\ e.stakes_collected = book.stakes_collected
      /\ e.open_bets = book.open_bets - 1
      /\ e.liability = [book.liability EXCEPT ![o] = @ - bet.reserved]
  BY <1>5 DEF UnreservedBook, FixtureExposure, o
<1>7. book.liability \in [Outcomes -> U64]
  BY <1>5 DEF FixtureExposure
<1> HIDE DEF e
<1>8. Exists(bet)
  BY <1>2, NoAccountAssumption DEF Exists
<1>9. \A g, k : /\ OnBook(bet, g, k) <=> <<g, k>> = <<h, f>>
               /\ ~OnBook(ended, g, k)
  BY <1>1, <1>3, <1>8 DEF OnBook, h, f
<1>10. \A p \in Outcomes :
        e.liability[p] = book.liability[p] - Claim(bet, h, f, p) + Claim(ended, h, f, p)
  BY <1>1, <1>4, <1>5, <1>6, <1>7, <1>9 DEF Claim, o
<1>11. e.stakes_collected =
        book.stakes_collected - Collected(bet, h, f) + Collected(ended, h, f)
  BY <1>1, <1>5, <1>6, <1>9 DEF Collected
<1>12. e.open_bets = book.open_bets - Counted(bet, h, f) + Counted(ended, h, f)
  BY <1>5, <1>6, <1>9 DEF Counted
<1>13. BookMoves(bn, ended, h, f, e)
  BY <1>1, <1>2, <1>5, <1>6, <1>9, <1>10, <1>11, <1>12 DEF BookMoves, bet
<1> HIDE DEF bn
<1> QED
  BY <1>2, <1>4, <1>13 DEF SomeBookMoves

-----------------------------------------------------------------------------
(* The inductive invariant *)

BookInv == VaultInv /\ BookMatchesBets /\ TotalMatchesBooks /\ BooksHaveHouses

(* A sum over the fixtures, or the bets, of zeros is zero. *)
LEMMA ZeroSums ==
    /\ \A F : DOMAIN F = Slots /\ (\A bn \in Slots : F[bn] = 0) => SumFunction(F) = 0
    /\ \A F : DOMAIN F = Fixtures /\ (\A f \in Fixtures : F[f] = 0) => SumFunction(F) = 0
  BY FiniteAssumption, SumZero DEF SumFunction, Slots

(* While the bets' parts and the books stay, they match. *)
LEMMA MatchKept ==
    ASSUME BookMatchesBets, UNCHANGED exposures,
           \A h \in Houses, f \in Fixtures :
                /\ \A o \in Outcomes : Claims(h, f, o)' = Claims(h, f, o)
                /\ StakesOn(h, f)' = StakesOn(h, f)
                /\ Counts(h, f)' = Counts(h, f)
    PROVE  BookMatchesBets'
<1>1. \A h \in Houses, f \in Fixtures : BookOf(h, f)' = BookOf(h, f)
  BY DEF BookOf
<1> QED
  BY <1>1 DEF BookMatchesBets

(* So they do while bets and exposures stay. *)
LEMMA MatchUntouched ==
    ASSUME BookMatchesBets, UNCHANGED <<bets, exposures>>
    PROVE  BookMatchesBets'
<1>1. \A h \in Houses, f \in Fixtures :
        /\ \A o \in Outcomes : Claims(h, f, o)' = Claims(h, f, o)
        /\ StakesOn(h, f)' = StakesOn(h, f)
        /\ Counts(h, f)' = Counts(h, f)
  BY DEF Claims, StakesOn, Counts
<1> QED
  BY <1>1, MatchKept

(* A closed bet had left its book when it ended. *)
LEMMA CloseBetMatch ==
    ASSUME TypeOK, BookMatchesBets, NEW bettor \in Bettors, NEW nonce \in Nonces,
           CloseBet(bettor, nonce)
    PROVE  BookMatchesBets'
<1> DEFINE bn == <<bettor, nonce>>
<1>1. /\ bn \in Bettors \X Nonces
      /\ bets[bn].state \in Terminal
      /\ bets' = [bets EXCEPT ![bn] = NoAccount]
      /\ UNCHANGED exposures
  BY DEF CloseBet
<1>2. \A h, f : ~OnBook(bets[bn], h, f) /\ ~OnBook(NoAccount, h, f)
  BY <1>1 DEF OnBook, Terminal, Exists
<1> HIDE DEF bn
<1>3. ASSUME NEW h, NEW f, NEW other \in Bettors \X Nonces
      PROVE  /\ \A o : Claim(bets'[other], h, f, o) = Claim(bets[other], h, f, o)
             /\ Collected(bets'[other], h, f) = Collected(bets[other], h, f)
             /\ Counted(bets'[other], h, f) = Counted(bets[other], h, f)
  <2>1. CASE other = bn
    <3>1. bets'[other] = NoAccount
      BY <1>1, <2>1 DEF TypeOK
    <3> QED
      BY <1>2, <2>1, <3>1 DEF Claim, Collected, Counted
  <2>2. CASE other # bn
    BY <1>1, <2>2
  <2> QED
    BY <2>1, <2>2
<1>4. \A h \in Houses, f \in Fixtures :
        /\ \A o \in Outcomes : Claims(h, f, o)' = Claims(h, f, o)
        /\ StakesOn(h, f)' = StakesOn(h, f)
        /\ Counts(h, f)' = Counts(h, f)
  BY <1>3 DEF Claims, StakesOn, Counts
<1> QED
  BY <1>1, <1>4, MatchKept

(* A book that counts no bets holds nothing for any bet, so closing it     *)
(* forgets nothing: the next bet may start a new one.                      *)
LEMMA CloseExposureMatch ==
    ASSUME TypeOK, BookMatchesBets, NEW h \in Houses, NEW f \in Fixtures,
           CloseExposure(h, f)
    PROVE  BookMatchesBets'
<1>1. /\ Exists(exposures[<<h, f>>]) /\ exposures[<<h, f>>].open_bets = 0
      /\ exposures' = [exposures EXCEPT ![<<h, f>>] = NoAccount]
      /\ bets' = bets
  BY DEF CloseExposure, Idle
<1>2. \A bn \in Slots : ~OnBook(bets[bn], h, f)
  <2>1. SumFunction(Counts(h, f)) = 0
    BY <1>1 DEF BookMatchesBets, BookOf
  <2>2. Counts(h, f) \in [Slots -> Nat] /\ IsFiniteSet(Slots)
    BY PartsType, FiniteAssumption DEF Slots
  <2>3. ASSUME NEW bn \in Slots
        PROVE  Counts(h, f)[bn] <= 0
    <3>1. Counts(h, f)[bn] <= SumFunctionOnSet(Counts(h, f), Slots)
      BY <2>2, SumAtLeast
    <3>2. DOMAIN Counts(h, f) = Slots
      BY <2>2
    <3> QED
      BY <2>1, <3>1, <3>2 DEF SumFunction
  <2> QED
    BY <2>3 DEF Counts, Counted, Slots
<1>3. /\ \A o : SumFunction(Claims(h, f, o)) = 0
      /\ SumFunction(StakesOn(h, f)) = 0
      /\ SumFunction(Counts(h, f)) = 0
  <2>1. \A bn \in Slots : /\ \A o : Claim(bets[bn], h, f, o) = 0
                           /\ Collected(bets[bn], h, f) = 0
                           /\ Counted(bets[bn], h, f) = 0
    BY <1>2 DEF Claim, Collected, Counted
  <2> QED
    BY <2>1, ZeroSums DEF Claims, StakesOn, Counts, Slots
<1>4. BookOf(h, f)' = NewExposure
  BY <1>1 DEF BookOf, Exists, TypeOK
<1>5. ASSUME NEW g \in Houses, NEW k \in Fixtures
      PROVE  /\ \A o \in Outcomes : BookOf(g, k)'.liability[o] = SumFunction(Claims(g, k, o))
             /\ BookOf(g, k)'.stakes_collected = SumFunction(StakesOn(g, k))
             /\ BookOf(g, k)'.open_bets = SumFunction(Counts(g, k))
  <2>1. CASE <<g, k>> = <<h, f>>
    <3>1. g = h /\ k = f
      BY <2>1
    <3> QED
      BY <1>3, <1>4, <3>1 DEF NewExposure
  <2>2. CASE <<g, k>> # <<h, f>>
    <3>1. BookOf(g, k)' = BookOf(g, k)
      BY <1>1, <2>2 DEF BookOf, Exists
    <3> QED
      BY <3>1 DEF BookMatchesBets
  <2> QED
    BY <2>1, <2>2
<1>6. \A g \in Houses, k \in Fixtures :
        /\ \A o \in Outcomes : Claims(g, k, o)' = Claims(g, k, o)
        /\ StakesOn(g, k)' = StakesOn(g, k)
        /\ Counts(g, k)' = Counts(g, k)
  BY <1>1 DEF Claims, StakesOn, Counts
<1> QED
  BY <1>5, <1>6 DEF BookMatchesBets

(* Totals stay right while books keep their locks and houses their totals. *)
LEMMA TotalKept ==
    ASSUME TotalMatchesBooks, BooksHaveHouses,
           \A h \in Houses, f \in Fixtures :
                /\ BookOf(h, f)'.locked = BookOf(h, f).locked
                /\ Exists(exposures'[<<h, f>>]) => Exists(exposures[<<h, f>>]),
           \A h \in Houses :
                /\ Exists(houses'[h]) <=> Exists(houses[h])
                /\ Exists(houses[h]) => houses'[h].total_locked = houses[h].total_locked
    PROVE  TotalMatchesBooks' /\ BooksHaveHouses'
<1>1. \A h \in Houses : Locks(h)' = Locks(h)
  BY DEF Locks
<1>2. TotalMatchesBooks'
  BY <1>1 DEF TotalMatchesBooks, Exists
<1>3. BooksHaveHouses'
  BY DEF BooksHaveHouses, Exists
<1> QED
  BY <1>2, <1>3

(* In particular where exposures and houses are left alone. *)
LEMMA BookUntouched ==
    ASSUME BookInv, VaultInv', UNCHANGED <<houses, exposures, bets>>
    PROVE  BookInv'
<1>1. BookMatchesBets'
  BY MatchUntouched DEF BookInv
<1>2. TotalMatchesBooks' /\ BooksHaveHouses'
  BY TotalKept DEF BookInv, BookOf
<1> QED
  BY <1>1, <1>2 DEF BookInv

(* A step that moves one book. *)
LEMMA MovesStep ==
    ASSUME BookInv, VaultInv', SomeBookMoves
    PROVE  BookInv'
<1>1. PICK bn \in Slots, b \in Bet, h \in Houses, f \in Fixtures : \E e : BookMoves(bn, b, h, f, e)
  BY DEF SomeBookMoves
<1>2. BookMatchesBets'
  BY <1>1, BookMovesMatch DEF BookInv, VaultInv
<1>3. TotalMatchesBooks' /\ BooksHaveHouses'
  BY <1>1, BookMovesTotal DEF BookInv, VaultInv
<1> QED
  BY <1>2, <1>3 DEF BookInv

(* The steps of a house's owner. *)
LEMMA BookHouseStep ==
    ASSUME BookInv, VaultInv', HouseNext
    PROVE  BookInv'
<1> USE DEF BookInv, VaultInv
<1>1. ASSUME NEW h \in Houses, NEW p \in HouseChoices, CreateHouse(h, p)
      PROVE  BookInv'
  <2>1. /\ ~Exists(houses[h])
        /\ houses' = [houses EXCEPT ![h] =
                [params |-> p, total_locked |-> 0, paused |-> FALSE]]
        /\ UNCHANGED <<exposures, bets>>
    BY <1>1 DEF CreateHouse
  <2>2. BookMatchesBets'
    BY <2>1, MatchUntouched
  <2>3. \A g \in Houses : Locks(g)' = Locks(g)
    BY <2>1 DEF Locks, BookOf
  <2>4. \A f \in Fixtures : BookOf(h, f).locked = 0
    BY <2>1 DEF BooksHaveHouses, BookOf, NewExposure
  <2>5. SumFunction(Locks(h)) = 0
    BY <2>4, ZeroSums DEF Locks
  <2>6. /\ houses'[h].total_locked = 0 /\ \A g \in Houses : g # h => houses'[g] = houses[g]
    BY <2>1 DEF TypeOK
  <2>7. TotalMatchesBooks'
    BY <2>3, <2>5, <2>6 DEF TotalMatchesBooks, Exists
  <2>8. BooksHaveHouses'
    BY <2>1, <2>6 DEF BooksHaveHouses, Exists
  <2> QED
    BY <2>2, <2>7, <2>8
<1>2. ASSUME NEW h \in Houses, Exists(houses[h]), NEW house \in House,
             house.total_locked = houses[h].total_locked,
             houses' = [houses EXCEPT ![h] = house], UNCHANGED <<exposures, bets>>
      PROVE  BookInv'
  <2>1. BookMatchesBets'
    BY <1>2, MatchUntouched
  <2>2. Exists(house)
    BY <1>2, NoAccountAssumption DEF Exists
  <2>3. \A g \in Houses :
            /\ Exists(houses'[g]) <=> Exists(houses[g])
            /\ Exists(houses[g]) => houses'[g].total_locked = houses[g].total_locked
    BY <1>2, <2>2 DEF TypeOK
  <2>4. \A g \in Houses, k \in Fixtures :
            /\ BookOf(g, k)'.locked = BookOf(g, k).locked
            /\ Exists(exposures'[<<g, k>>]) => Exists(exposures[<<g, k>>])
    BY <1>2 DEF BookOf
  <2>5. TotalMatchesBooks' /\ BooksHaveHouses'
    BY <2>3, <2>4, TotalKept
  <2> QED
    BY <2>1, <2>5
<1>3. ASSUME NEW h \in Houses, NEW p \in HouseChoices, UpdateHouseParams(h, p)
      PROVE  BookInv'
  <2> DEFINE house == [houses[h] EXCEPT !.params = p]
  <2>1. house \in House /\ house.total_locked = houses[h].total_locked
    BY <1>3, ConstantsAssumption DEF UpdateHouseParams, TypeOK, Exists, House
  <2>2. houses' = [houses EXCEPT ![h] = house]
    BY <1>3 DEF UpdateHouseParams
  <2> QED
    BY <1>2, <1>3, <2>1, <2>2 DEF UpdateHouseParams
<1>4. ASSUME NEW h \in Houses, NEW paused \in PauseChoices, SetPaused(h, paused)
      PROVE  BookInv'
  <2> DEFINE house == [houses[h] EXCEPT !.paused = paused]
  <2>1. house \in House /\ house.total_locked = houses[h].total_locked
    BY <1>4, ConstantsAssumption DEF SetPaused, TypeOK, Exists, House
  <2>2. houses' = [houses EXCEPT ![h] = house]
    BY <1>4 DEF SetPaused
  <2> QED
    BY <1>2, <1>4, <2>1, <2>2 DEF SetPaused
<1>5. ASSUME NEW h \in Houses, NEW f \in Fixtures, CloseExposure(h, f)
      PROVE  BookInv'
  <2>1. BookMatchesBets'
    BY <1>5, CloseExposureMatch
  <2>2. /\ exposures[<<h, f>>].locked = 0 /\ Exists(exposures[<<h, f>>])
        /\ exposures' = [exposures EXCEPT ![<<h, f>>] = NoAccount]
        /\ UNCHANGED houses
    BY <1>5 DEF CloseExposure, Idle
  <2>3. ASSUME NEW g \in Houses, NEW k \in Fixtures
        PROVE  /\ BookOf(g, k)'.locked = BookOf(g, k).locked
               /\ Exists(exposures'[<<g, k>>]) => Exists(exposures[<<g, k>>])
    <3>1. CASE <<g, k>> = <<h, f>>
      <4>1. exposures'[<<g, k>>] = NoAccount /\ exposures[<<g, k>>] = exposures[<<h, f>>]
        BY <2>2, <3>1 DEF TypeOK
      <4> QED
        BY <2>2, <4>1 DEF BookOf, NewExposure, Exists
    <3>2. CASE <<g, k>> # <<h, f>>
      <4>1. exposures'[<<g, k>>] = exposures[<<g, k>>]
        BY <2>2, <3>2
      <4> QED
        BY <4>1 DEF BookOf, Exists
    <3> QED
      BY <3>1, <3>2
  <2>4. TotalMatchesBooks' /\ BooksHaveHouses'
    BY <2>2, <2>3, TotalKept
  <2> QED
    BY <2>1, <2>4
<1>6. ASSUME NEW h \in Houses, NEW f \in FilterChoices, SetHouseFilters(h, f)
      PROVE  BookInv'
  BY <1>6, BookUntouched DEF SetHouseFilters
<1>7. ASSUME NEW call \in Deposits, Deposit(call)
      PROVE  BookInv'
  BY <1>7, BookUntouched DEF Deposit
<1>8. ASSUME NEW call \in Withdrawals, Withdraw(call)
      PROVE  BookInv'
  BY <1>8, BookUntouched DEF Withdraw
<1> QED
  BY <1>1, <1>3, <1>4, <1>5, <1>6, <1>7, <1>8 DEF HouseNext

(* settle_bet and void_bet end an active bet, paying some amount. *)
LEMMA ReleasesEndBets ==
    ASSUME TypeOK, NEW cranker_token \in RewardAccounts,
           NEW bettor \in Bettors, NEW nonce \in Nonces,
           \/ \E ev \in scores : SettleBet(cranker_token, bettor, nonce, ev)
           \/ VoidBet(cranker_token, bettor, nonce)
    PROVE  \E paid \in Nat, state \in Terminal :
                /\ InState(bettor, nonce, "Active")
                /\ ReleaseAndReward(cranker_token, bettor, nonce, paid, state)
<1> DEFINE bet == bets[<<bettor, nonce>>]
<1>1. InState(bettor, nonce, "Active")
  BY DEF SettleBet, VoidBet
<1>2. bet.payout \in Nat /\ bet.stake \in Nat /\ 0 \in Nat
  <2>1. bet \in Bet
    BY <1>1, BetFact DEF InState
  <2> QED
    BY <2>1, ConstantsAssumption DEF Bet, U64
<1>3. {"Won", "Lost", "Voided"} \subseteq Terminal
  BY DEF Terminal
<1>4. ASSUME NEW ev \in scores, SettleBet(cranker_token, bettor, nonce, ev)
      PROVE  \E paid \in Nat, state \in Terminal :
                ReleaseAndReward(cranker_token, bettor, nonce, paid, state)
  <2>1. CASE ResultOf(ev) = bet.outcome
    BY <1>2, <1>3, <1>4, <2>1 DEF SettleBet
  <2>2. CASE ResultOf(ev) # bet.outcome
    BY <1>2, <1>3, <1>4, <2>2 DEF SettleBet
  <2> QED
    BY <2>1, <2>2
<1>5. ASSUME VoidBet(cranker_token, bettor, nonce)
      PROVE  \E paid \in Nat, state \in Terminal :
                ReleaseAndReward(cranker_token, bettor, nonce, paid, state)
  BY <1>2, <1>3, <1>5 DEF VoidBet
<1> QED
  BY <1>1, <1>4, <1>5

(* The steps in the life of a bet. *)
LEMMA BookBetStep ==
    ASSUME BookInv, VaultInv', BetNext
    PROVE  BookInv'
<1> USE DEF BookInv, VaultInv
<1>1. ASSUME NEW order \in Orders, CommitBet(order)
      PROVE  BookInv'
  BY <1>1, CommitMoves, MovesStep
<1>2. ASSUME NEW cranker \in Crankers, NEW odds \in Feed, ProvePrint(cranker, odds)
      PROVE  BookInv'
  BY <1>2, BookUntouched DEF ProvePrint
<1>3. ASSUME NEW payer \in Crankers, NEW print \in prints, ClosePrint(payer, print)
      PROVE  BookInv'
  BY <1>3, BookUntouched DEF ClosePrint
<1>4. ASSUME NEW cranker_token \in RewardAccounts, NEW bettor \in Bettors, NEW nonce \in Nonces,
             NEW commit_print \in prints, NEW target_print \in prints,
             FillBet(cranker_token, bettor, nonce, commit_print, target_print)
      PROVE  BookInv'
  BY <1>4, FillMoves, MovesStep
<1>5. ASSUME NEW cranker_token \in RewardAccounts, NEW bettor \in Bettors, NEW nonce \in Nonces,
             \/ \E ev \in scores : SettleBet(cranker_token, bettor, nonce, ev)
             \/ VoidBet(cranker_token, bettor, nonce)
      PROVE  BookInv'
  <2>1. PICK paid \in Nat, state \in Terminal :
            /\ InState(bettor, nonce, "Active")
            /\ ReleaseAndReward(cranker_token, bettor, nonce, paid, state)
    BY <1>5, ReleasesEndBets
  <2> QED
    BY <2>1, ReleaseMoves, MovesStep
<1>6. ASSUME NEW bettor \in Bettors, NEW nonce \in Nonces, RefundCommit(bettor, nonce)
      PROVE  BookInv'
  BY <1>6, RefundMoves, MovesStep
<1>7. ASSUME NEW bettor \in Bettors, NEW nonce \in Nonces, CloseBet(bettor, nonce)
      PROVE  BookInv'
  <2>1. BookMatchesBets'
    BY <1>7, CloseBetMatch
  <2>2. TotalMatchesBooks' /\ BooksHaveHouses'
    BY <1>7, TotalKept DEF CloseBet, BookOf
  <2> QED
    BY <2>1, <2>2
<1> QED
  BY <1>1, <1>2, <1>3, <1>4, <1>5, <1>6, <1>7 DEF BetNext

(* No step, and no stutter, breaks the invariant. *)
LEMMA NextBookInv == BookInv /\ [Next]_vars => BookInv'
<1> SUFFICES ASSUME BookInv, [Next]_vars
             PROVE  BookInv'
  OBVIOUS
<1>1. VaultInv'
  BY NextVaultInv DEF BookInv
<1>2. CASE UNCHANGED vars
  BY <1>1, <1>2, BookUntouched DEF vars
<1>3. CASE AdminNext
  BY <1>1, <1>3, BookUntouched DEF AdminNext, InitConfig, UpdateConfig, RegisterFrontend
<1>4. CASE WorldNext
  BY <1>1, <1>4, BookUntouched DEF WorldNext, Tick, PublishScore
<1> QED
  BY <1>1, <1>2, <1>3, <1>4, BookHouseStep, BookBetStep DEF Next

(* On the empty chain there is nothing to add up. *)
LEMMA InitBookInv == Init => BookInv
<1> SUFFICES ASSUME Init
             PROVE  BookInv
  OBVIOUS
<1>1. VaultInv
  BY InitVaultInv
<1>2. /\ \A bn \in Slots : bets[bn] = NoAccount
      /\ \A h \in Houses, f \in Fixtures : ~Exists(exposures[<<h, f>>])
      /\ \A h \in Houses : ~Exists(houses[h])
  BY DEF Init, Slots, Exists
<1>3. ASSUME NEW h \in Houses, NEW f \in Fixtures
      PROVE  /\ \A o : SumFunction(Claims(h, f, o)) = 0
             /\ SumFunction(StakesOn(h, f)) = 0
             /\ SumFunction(Counts(h, f)) = 0
  <2>1. \A bn \in Slots : /\ \A o : Claim(bets[bn], h, f, o) = 0
                           /\ Collected(bets[bn], h, f) = 0
                           /\ Counted(bets[bn], h, f) = 0
    BY <1>2 DEF Claim, Collected, Counted, OnBook, Exists
  <2> QED
    BY <2>1, ZeroSums DEF Claims, StakesOn, Counts, Slots
<1>4. BookMatchesBets
  BY <1>2, <1>3 DEF BookMatchesBets, BookOf, NewExposure
<1>5. TotalMatchesBooks /\ BooksHaveHouses
  BY <1>2 DEF TotalMatchesBooks, BooksHaveHouses
<1> QED
  BY <1>1, <1>4, <1>5 DEF BookInv

(* The strengthening holds in every reachable state. *)
THEOREM BookInvHolds == Spec => []BookInv
  BY InitBookInv, NextBookInv, PTL DEF Spec

(* Whatever is committed, filled, refunded, settled, voided and closed, in *)
(* whatever order, a book holds exactly what its live bets put there.      *)
THEOREM BooksAlwaysMatchBets == Spec => []BookMatchesBets
<1>1. BookInv => BookMatchesBets
  BY DEF BookInv
<1> QED
  BY <1>1, BookInvHolds, PTL

(* And a house's total is the sum of the locks of its books, although the  *)
(* code only ever adds differences to it.                                  *)
THEOREM TotalsAlwaysMatchBooks == Spec => []TotalMatchesBooks
<1>1. BookInv => TotalMatchesBooks
  BY DEF BookInv
<1> QED
  BY <1>1, BookInvHolds, PTL

-----------------------------------------------------------------------------
(* The escrow *)

(* A bet was placed under a config and through a frontend, which are never *)
(* removed, and has a reward left for each crank still to come.            *)
BetsAccounted ==
    \A bn \in Slots : Exists(bets[bn]) =>
        /\ Exists(config)
        /\ Exists(frontends[bets[bn].frontend])
        /\ bets[bn].state = "Pending" => bets[bn].keeper_rewards_remaining = KEEPER_CRANKS
        /\ bets[bn].state = "Active" => bets[bn].keeper_rewards_remaining = 1

EscrowInv == VaultInv /\ BetsAccounted

(* What refund_commit may have to pay out fits in 64 bits: commit_bet      *)
(* checked the sum it escrowed.                                            *)
RefundsFit ==
    \A bn \in Slots :
        Exists(bets[bn]) /\ bets[bn].state = "Pending" => RefundOf(bets[bn]) \in U64

(* What a bet is still owed is a natural number of tokens. *)
LEMMA StillEscrowedType ==
    ASSUME NEW bet \in Bet \cup {NoAccount}, Exists(bet) => config \in ConfigParams
    PROVE  StillEscrowed(bet) \in Nat
<1>1. CASE ~Exists(bet)
  BY <1>1 DEF StillEscrowed
<1>2. CASE Exists(bet)
  <2>1. /\ config.keeper_reward \in Nat /\ bet.keeper_rewards_remaining \in Nat
        /\ bet.stake \in Nat /\ bet.frontend_fee \in Nat /\ bet.protocol_fee \in Nat
    BY <1>2, ConstantsAssumption DEF Exists, Bet, U64, ConfigParams
  <2>2. config.keeper_reward * bet.keeper_rewards_remaining \in Nat
    BY <2>1, TimesFact
  <2>3. RefundOf(bet) \in Nat
    BY <2>1, <2>2 DEF RefundOf
  <2> QED
    BY <1>2, <2>1, <2>3 DEF StillEscrowed
<1> QED
  BY <1>1, <1>2

(* The escrow owes a natural number of tokens. *)
LEMMA OwedType ==
    ASSUME TypeOK, BetsAccounted
    PROVE  /\ Owed \in Nat
           /\ [bn \in Slots |-> StillEscrowed(bets[bn])] \in [Slots -> Nat]
<1> DEFINE F == [bn \in Slots |-> StillEscrowed(bets[bn])]
<1>1. ASSUME NEW bn \in Slots
      PROVE  StillEscrowed(bets[bn]) \in Nat
  <2>1. bets[bn] \in Bet \cup {NoAccount}
    BY DEF TypeOK, Slots
  <2>2. Exists(bets[bn]) => config \in ConfigParams
    BY DEF BetsAccounted, TypeOK, Exists
  <2> QED
    BY <2>1, <2>2, StillEscrowedType
<1>2. F \in [Slots -> Nat] /\ DOMAIN F = Slots
  BY <1>1
<1>3. SumFunction(F) \in Nat
  <2> HIDE DEF F
  <2>1. IsFiniteSet(Slots) /\ \A bn \in Slots : F[bn] \in Nat
    BY <1>2, FiniteAssumption DEF Slots
  <2> QED
    BY <1>2, <2>1, SumNat DEF SumFunction
<1>4. Owed = SumFunction(F)
  BY DEF Owed, Slots
<1> QED
  BY <1>2, <1>3, <1>4

(* After a step as before it. *)
LEMMA OwedTypeAfter ==
    ASSUME TypeOK', BetsAccounted'
    PROVE  Owed' \in Nat
<1> DEFINE G == [bn \in Slots |-> StillEscrowed(bets[bn])']
<1>1. ASSUME NEW bn \in Slots
      PROVE  StillEscrowed(bets[bn])' \in Nat
  <2>1. CASE ~Exists(bets'[bn])
    BY <2>1 DEF StillEscrowed, Exists
  <2>2. CASE Exists(bets'[bn])
    <3> DEFINE bet == bets'[bn]
    <3>1. bet \in Bet /\ config' \in ConfigParams
      BY <2>2 DEF BetsAccounted, TypeOK, Exists, Slots
    <3>2. /\ config'.keeper_reward \in Nat /\ bet.keeper_rewards_remaining \in Nat
          /\ bet.stake \in Nat /\ bet.frontend_fee \in Nat /\ bet.protocol_fee \in Nat
      BY <3>1, ConstantsAssumption DEF Bet, U64, ConfigParams
    <3>3. config'.keeper_reward * bet.keeper_rewards_remaining \in Nat
      BY <3>2, TimesFact
    <3>4. RefundOf(bets[bn])' \in Nat
      BY <3>2, <3>3 DEF RefundOf
    <3> QED
      BY <2>2, <3>2, <3>4 DEF StillEscrowed, Exists
  <2> QED
    BY <2>1, <2>2
<1>2. Owed' = SumFunctionOnSet(G, Slots)
  BY DEF Owed, SumFunction, Slots
<1>3. IsFiniteSet(Slots) /\ \A bn \in Slots : G[bn] \in Nat
  BY <1>1, FiniteAssumption DEF Slots
<1> HIDE DEF G
<1> QED
  BY <1>2, <1>3, SumNat

(* When one bet changes, so does the debt, by what that bet is owed.       *)
LEMMA OwedAfter ==
    ASSUME TypeOK, TypeOK', BetsAccounted, BetsAccounted', config' = config,
           NEW bn \in Slots, NEW b, bets'[bn] = b,
           \A other \in Slots : other # bn => bets'[other] = bets[other]
    PROVE  Owed' = Owed - StillEscrowed(bets[bn]) + StillEscrowed(b)
<1> DEFINE F == [o \in Slots |-> StillEscrowed(bets[o])]
           G == [o \in Slots |-> StillEscrowed(bets'[o])]
<1>1. F \in [Slots -> Nat]
  BY OwedType
<1>2. G \in [Slots -> Nat]
  <2>1. ASSUME NEW o \in Slots
        PROVE  StillEscrowed(bets'[o]) \in Nat
    <3>1. bets'[o] \in Bet \cup {NoAccount}
      BY DEF TypeOK, Slots
    <3>2. Exists(bets'[o]) => config \in ConfigParams
      BY DEF BetsAccounted, TypeOK, Exists
    <3> QED
      BY <3>1, <3>2, StillEscrowedType
  <2> QED
    BY <2>1
<1>3. /\ F[bn] = StillEscrowed(bets[bn]) /\ G[bn] = StillEscrowed(b)
      /\ \A o \in Slots : o # bn => G[o] = F[o]
  OBVIOUS
<1>4. Owed = SumFunction(F)
  BY DEF Owed, Slots
<1>5. Owed' = SumFunction(G)
  BY DEF Owed, Slots, StillEscrowed, RefundOf
<1> HIDE DEF F, G
<1>6. SumFunction(G) = SumFunction(F) - F[bn] + G[bn]
  BY <1>1, <1>2, <1>3, PartsChange
<1> QED
  BY <1>3, <1>4, <1>5, <1>6

(* Bet b takes the place of bets[bn], and the escrow's balance changes by  *)
(* what the two are owed, and gains what a cranker leaves to it.           *)
EscrowMoves(bn, b, gain) ==
    /\ config' = config
    /\ Exists(config)
    /\ frontends' = frontends
    /\ bets' = [bets EXCEPT ![bn] = b]
    /\ token'[Escrow] = token[Escrow] - StillEscrowed(bets[bn]) + StillEscrowed(b) + gain
    /\ Exists(frontends[b.frontend])
    /\ b.state = "Pending" => /\ b.keeper_rewards_remaining = KEEPER_CRANKS
                             /\ RefundOf(b) \in U64
    /\ b.state = "Active" => b.keeper_rewards_remaining = 1

SomeEscrowMoves(gain) == \E bn \in Slots, b \in Bet : EscrowMoves(bn, b, gain)

SurplusGrows(gain) == Surplus' = Surplus + gain
SurplusKept == Surplus' = Surplus

AccountsKept == BetsAccounted' /\ (RefundsFit => RefundsFit')
EscrowKept == SurplusKept /\ AccountsKept

(* Such a step leaves the surplus as it was but for the gain, and bets     *)
(* accounted for.                                                          *)
LEMMA EscrowMovesStep ==
    ASSUME TypeOK, TypeOK', BetsAccounted, NEW gain \in Nat, SomeEscrowMoves(gain)
    PROVE  /\ SurplusGrows(gain) /\ AccountsKept
           /\ gain = 0 => EscrowKept
<1>1. PICK bn \in Slots, b \in Bet : EscrowMoves(bn, b, gain)
  BY DEF SomeEscrowMoves
<1>2. bets'[bn] = b /\ \A other \in Slots : other # bn => bets'[other] = bets[other]
  BY <1>1 DEF EscrowMoves, TypeOK, Slots
<1>3. BetsAccounted'
  <2> SUFFICES ASSUME NEW o \in Slots, Exists(bets'[o])
               PROVE  /\ Exists(config') /\ Exists(frontends'[bets'[o].frontend])
                      /\ bets'[o].state = "Pending" =>
                            bets'[o].keeper_rewards_remaining = KEEPER_CRANKS
                      /\ bets'[o].state = "Active" =>
                            bets'[o].keeper_rewards_remaining = 1
    BY DEF BetsAccounted, Exists, Slots
  <2>1. CASE o = bn
    BY <1>1, <1>2, <2>1 DEF EscrowMoves
  <2>2. CASE o # bn
    BY <1>1, <1>2, <2>2 DEF EscrowMoves, BetsAccounted
  <2> QED
    BY <2>1, <2>2
<1>4. Owed' = Owed - StillEscrowed(bets[bn]) + StillEscrowed(b)
  BY <1>1, <1>2, <1>3, OwedAfter DEF EscrowMoves
<1>5. /\ Owed \in Nat /\ token[Escrow] \in Nat
      /\ StillEscrowed(bets[bn]) \in Nat /\ StillEscrowed(b) \in Nat
  <2>1. token[Escrow] \in Nat
    BY AccountsFact DEF TypeOK
  <2>2. /\ bets[bn] \in Bet \cup {NoAccount} /\ config \in ConfigParams
    BY <1>1 DEF EscrowMoves, TypeOK, Slots, Exists
  <2>3. StillEscrowed(bets[bn]) \in Nat /\ StillEscrowed(b) \in Nat
    BY <2>2, StillEscrowedType
  <2> QED
    BY <2>1, <2>3, OwedType
<1>6. token'[Escrow] = token[Escrow] - StillEscrowed(bets[bn]) + StillEscrowed(b) + gain
  BY <1>1 DEF EscrowMoves
<1>7. ASSUME RefundsFit, NEW o \in Slots, Exists(bets'[o]), bets'[o].state = "Pending"
      PROVE  RefundOf(bets'[o]) \in U64
  <2>1. CASE o = bn
    BY <1>1, <1>2, <1>7, <2>1 DEF EscrowMoves
  <2>2. CASE o # bn
    BY <1>2, <1>7, <2>2 DEF RefundsFit
  <2> QED
    BY <2>1, <2>2
<1>8. config' = config
  BY <1>1 DEF EscrowMoves
<1>9. RefundsFit => RefundsFit'
  BY <1>7, <1>8 DEF RefundsFit, RefundOf, Exists, Slots, U64
<1>10. SurplusGrows(gain) /\ (gain = 0 => SurplusKept)
  BY <1>4, <1>5, <1>6 DEF SurplusGrows, SurplusKept, Surplus
<1> QED
  BY <1>3, <1>9, <1>10 DEF EscrowKept, AccountsKept

-----------------------------------------------------------------------------
(* The instructions that move a bet *)

(* commit_bet escrows all the new bet may be owed. *)
LEMMA CommitEscrow ==
    ASSUME TypeOK, NEW order \in Orders, CommitBet(order)
    PROVE  SomeEscrowMoves(0)
<1> DEFINE bn == <<order.bettor, order.nonce>>
           reservation == reserved(order.stake, houses[order.house].params.odds_cap)
           frontend_fee == TruncatedFee(order.stake, frontends[order.frontend].fee_bps)
           protocol_fee == TruncatedFee(order.stake, config.protocol_fee_bps)
           escrow_total == order.stake + frontend_fee + protocol_fee + KeeperEscrow
           bet == NewBet(order, reservation, frontend_fee, protocol_fee)
<1>1. /\ Exists(config) /\ Exists(frontends[order.frontend])
      /\ ~Exists(bets[bn])
      /\ escrow_total \in U64
      /\ token' = Moved(token, order.bettor, Escrow, escrow_total)
      /\ bets' = [bets EXCEPT ![bn] = bet]
      /\ UNCHANGED <<config, frontends>>
  BY DEF CommitBet, CanCommit, Reservation, FrontendFeeOf, ProtocolFeeOf, EscrowTotal, IsBet
<1>2. bn \in Slots /\ order.bettor \in TokenAccounts /\ order.bettor # Escrow
  BY AccountsFact, ConstantsAssumption DEF Order, Slots
<1>3. bet \in Bet
  <2>1. bets'[bn] = bet
    BY <1>1, <1>2 DEF TypeOK, Slots
  <2> HIDE DEF bet
  <2> QED
    BY <2>1, CommitBetTypes
<1>4. /\ bet.stake = order.stake /\ bet.frontend_fee = frontend_fee
      /\ bet.protocol_fee = protocol_fee /\ bet.frontend = order.frontend
      /\ bet.keeper_rewards_remaining = KEEPER_CRANKS /\ bet.state = "Pending"
  BY DEF NewBet
<1>5. escrow_total \in Nat
  BY <1>1, ConstantsAssumption DEF U64
<1> HIDE DEF bet, frontend_fee, protocol_fee
<1>6. StillEscrowed(bets[bn]) = 0
  BY <1>1 DEF StillEscrowed
<1>7. StillEscrowed(bet) = escrow_total
  <2>1. Exists(bet)
    BY <1>3, NoAccountAssumption DEF Exists
  <2> QED
    BY <1>4, <2>1 DEF StillEscrowed, RefundOf, KeeperEscrow
<1> HIDE DEF escrow_total
<1>8. token'[Escrow] = token[Escrow] + escrow_total
  BY <1>1, <1>2, <1>5, AccountsFact DEF Moved, TypeOK
<1>9. token[Escrow] \in Nat
  BY AccountsFact DEF TypeOK
<1>10. RefundOf(bet) \in U64
  BY <1>1, <1>4, <1>7, <1>3, NoAccountAssumption DEF StillEscrowed, Exists
<1>11. EscrowMoves(bn, bet, 0)
  BY <1>1, <1>4, <1>5, <1>6, <1>7, <1>8, <1>9, <1>10 DEF EscrowMoves
<1> HIDE DEF bn
<1> QED
  BY <1>2, <1>3, <1>11 DEF SomeEscrowMoves

(* What a reward leaves in the escrow: itself, if that is where it goes.   *)
RewardStaying(cranker_token) ==
    IF cranker_token = Escrow THEN config.keeper_reward ELSE 0

(* fill_bet pays out everything but the reward of the crank to come.       *)
LEMMA FillEscrow ==
    ASSUME TypeOK, BetsAccounted, NEW cranker_token \in RewardAccounts,
           NEW bettor \in Bettors, NEW nonce \in Nonces,
           NEW commit_print \in prints, NEW target_print \in prints,
           FillBet(cranker_token, bettor, nonce, commit_print, target_print)
    PROVE  SomeEscrowMoves(RewardStaying(cranker_token))
<1> DEFINE bn == <<bettor, nonce>>
           bet == bets[bn]
           odds == FillOddsFor(bet, commit_print, target_print)
           pays == payout(bet.stake, odds)
           owed == bet.stake + bet.frontend_fee + bet.protocol_fee + config.keeper_reward
           active == [bet EXCEPT !.fill_odds = odds,
                                 !.fill_ts_ms = target_print.ts,
                                 !.payout = pays,
                                 !.keeper_rewards_remaining = @ - 1,
                                 !.state = "Active"]
<1>1. /\ IsBet(bettor, nonce) /\ bet.state = "Pending"
      /\ Exists(config) /\ Exists(frontends[bet.frontend])
      /\ token[Escrow] >= owed
      /\ token' = FillPayments(bet, cranker_token)
      /\ bets' = [bets EXCEPT ![bn] = active]
      /\ UNCHANGED <<config, frontends>>
  BY DEF FillBet, CanFill, InState, Loaded
<1>2. bn \in Slots /\ bet \in Bet /\ active \in Bet
  <2>1. bn \in Slots /\ bet \in Bet
    BY <1>1, BetFact DEF Slots
  <2>2. bets'[bn] = active
    BY <1>1, <2>1 DEF TypeOK, Slots
  <2> HIDE DEF active
  <2> QED
    BY <2>1, <2>2, FillBetTypes
<1>3. bet.keeper_rewards_remaining = KEEPER_CRANKS /\ Exists(bet)
  BY <1>1, <1>2 DEF BetsAccounted, IsBet
<1> HIDE DEF bet, odds, pays
<1>4. /\ active.frontend = bet.frontend /\ active.state = "Active"
      /\ active.keeper_rewards_remaining = 1 /\ Exists(active)
  <2>1. Exists(active)
    BY <1>2, NoAccountAssumption DEF Exists
  <2> QED
    BY <1>2, <1>3, <2>1 DEF Bet, KEEPER_CRANKS
<1> HIDE DEF active
<1>5. /\ config \in ConfigParams /\ token \in [TokenAccounts -> Nat]
      /\ token[Escrow] \in Nat
  BY <1>1, AccountsFact DEF TypeOK, Exists
<1>6. /\ bet.stake \in Nat /\ bet.frontend_fee \in Nat /\ bet.protocol_fee \in Nat
      /\ config.keeper_reward \in Nat
  BY <1>2, <1>5, ConstantsAssumption DEF Bet, U64, ConfigParams
<1>7. token'[Escrow] = token[Escrow] - owed + RewardStaying(cranker_token)
  BY <1>1, <1>2, <1>5, <1>6, FillPaymentsFact DEF RewardLeaving, RewardStaying
<1>8. /\ StillEscrowed(bet) = owed + config.keeper_reward
      /\ StillEscrowed(active) = config.keeper_reward
  BY <1>1, <1>3, <1>4, <1>6 DEF StillEscrowed, RefundOf, KEEPER_CRANKS, bet
<1>9. EscrowMoves(bn, active, RewardStaying(cranker_token))
  <2>1. token'[Escrow] = token[Escrow] - StillEscrowed(bet) + StillEscrowed(active)
                            + RewardStaying(cranker_token)
    BY <1>5, <1>6, <1>7, <1>8 DEF RewardStaying
  <2> QED
    BY <1>1, <1>4, <2>1 DEF EscrowMoves, bet
<1> HIDE DEF bn
<1> QED
  BY <1>2, <1>9 DEF SomeEscrowMoves

(* settle_bet and void_bet pay out the last reward. *)
LEMMA ReleaseEscrow ==
    ASSUME TypeOK, BetsAccounted, NEW cranker_token \in RewardAccounts,
           NEW bettor \in Bettors, NEW nonce \in Nonces,
           InState(bettor, nonce, "Active"), NEW paid \in Nat, NEW state \in Terminal,
           ReleaseAndReward(cranker_token, bettor, nonce, paid, state)
    PROVE  SomeEscrowMoves(RewardStaying(cranker_token))
<1> DEFINE bn == <<bettor, nonce>>
           bet == bets[bn]
           h == bet.house
           ended == [bet EXCEPT !.keeper_rewards_remaining = @ - 1, !.state = state]
<1>1. /\ IsBet(bettor, nonce) /\ bet.state = "Active"
      /\ Exists(config)
      /\ token[h] >= paid /\ token[Escrow] >= config.keeper_reward
      /\ token' = Moved(Moved(token, h, bettor, paid),
                        Escrow, cranker_token, config.keeper_reward)
      /\ bets' = [bets EXCEPT ![bn] = ended]
      /\ UNCHANGED <<config, frontends>>
  BY DEF ReleaseAndReward, ReleasePayments, InState, Loaded
<1>2. bn \in Slots /\ bet \in Bet /\ ended \in Bet
  <2>1. bn \in Slots /\ bet \in Bet
    BY <1>1, BetFact DEF Slots
  <2>2. bets'[bn] = ended
    BY <1>1, <2>1 DEF TypeOK, Slots
  <2>3. state \in BetState
    BY DEF Terminal, BetState
  <2> HIDE DEF ended
  <2> QED
    BY <1>1, <2>1, <2>2, <2>3, ReleaseTypes
<1>3. Exists(bet) /\ Exists(frontends[bet.frontend])
  BY <1>1, <1>2 DEF BetsAccounted, IsBet
<1> HIDE DEF bet
<1>4. /\ ended.frontend = bet.frontend /\ ended.state \notin {"Pending", "Active"}
      /\ Exists(ended)
  <2>1. Exists(ended)
    BY <1>2, NoAccountAssumption DEF Exists
  <2> QED
    BY <1>2, <2>1 DEF Bet, Terminal
<1> HIDE DEF ended
<1>5. /\ token \in [TokenAccounts -> Nat] /\ token[Escrow] \in Nat
      /\ config.keeper_reward \in Nat
      /\ h \in TokenAccounts /\ bettor \in TokenAccounts /\ cranker_token \in TokenAccounts
      /\ Escrow \notin {h, bettor} /\ Escrow \in TokenAccounts
  BY <1>1, <1>2, AccountsFact DEF TypeOK, Exists, Bet, ConfigParams
<1>6. token'[Escrow] = token[Escrow] - config.keeper_reward + RewardStaying(cranker_token)
  <2> DEFINE settled == Moved(token, h, bettor, paid)
  <2>1. DOMAIN settled = TokenAccounts /\ settled[Escrow] = token[Escrow]
    BY <1>5 DEF Moved
  <2>2. token' = Moved(settled, Escrow, cranker_token, config.keeper_reward)
    BY <1>1
  <2> HIDE DEF settled
  <2> QED
    BY <1>5, <2>1, <2>2 DEF Moved, RewardStaying
<1>7. StillEscrowed(bet) = config.keeper_reward /\ StillEscrowed(ended) = 0
  BY <1>1, <1>3, <1>4 DEF StillEscrowed, bet
<1>8. EscrowMoves(bn, ended, RewardStaying(cranker_token))
  BY <1>1, <1>3, <1>4, <1>5, <1>6, <1>7 DEF EscrowMoves, bet, RewardStaying
<1> HIDE DEF bn
<1> QED
  BY <1>2, <1>8 DEF SomeEscrowMoves

(* refund_commit pays the bettor all the bet is owed. *)
LEMMA RefundEscrow ==
    ASSUME TypeOK, BetsAccounted, NEW bettor \in Bettors, NEW nonce \in Nonces,
           RefundCommit(bettor, nonce)
    PROVE  SomeEscrowMoves(0)
<1> DEFINE bn == <<bettor, nonce>>
           bet == bets[bn]
           refund == RefundOf(bet)
           ended == [bet EXCEPT !.state = "Refunded"]
<1>1. /\ IsBet(bettor, nonce) /\ bet.state = "Pending"
      /\ Exists(config)
      /\ refund \in U64
      /\ token' = Moved(token, Escrow, bettor, refund)
      /\ bets' = [bets EXCEPT ![bn] = ended]
      /\ UNCHANGED <<config, frontends>>
  BY DEF RefundCommit, CanRefund, InState, Loaded
<1>2. bn \in Slots /\ bet \in Bet /\ ended \in Bet
  <2>1. bn \in Slots /\ bet \in Bet
    BY <1>1, BetFact DEF Slots
  <2>2. bets'[bn] = ended
    BY <1>1, <2>1 DEF TypeOK, Slots
  <2> HIDE DEF ended
  <2> QED
    BY <2>1, <2>2, RefundCommitTypes
<1>3. Exists(bet) /\ Exists(frontends[bet.frontend])
  BY <1>1, <1>2 DEF BetsAccounted, IsBet
<1> HIDE DEF bet
<1>4. ended.frontend = bet.frontend /\ ended.state = "Refunded" /\ Exists(ended)
  <2>1. Exists(ended)
    BY <1>2, NoAccountAssumption DEF Exists
  <2> QED
    BY <1>2, <2>1 DEF Bet
<1> HIDE DEF ended
<1>5. /\ token \in [TokenAccounts -> Nat] /\ token[Escrow] \in Nat
      /\ bettor \in TokenAccounts /\ Escrow # bettor
      /\ refund \in Nat
  BY <1>1, AccountsFact, ConstantsAssumption DEF TypeOK, U64
<1>6. StillEscrowed(bet) = refund /\ StillEscrowed(ended) = 0
  BY <1>1, <1>3, <1>4 DEF StillEscrowed, bet
<1> HIDE DEF refund
<1>7. token'[Escrow] = token[Escrow] - refund
  BY <1>1, <1>5, AccountsFact DEF Moved
<1>8. EscrowMoves(bn, ended, 0)
  BY <1>1, <1>3, <1>4, <1>5, <1>6, <1>7 DEF EscrowMoves, bet
<1> HIDE DEF bn
<1> QED
  BY <1>2, <1>8 DEF SomeEscrowMoves

-----------------------------------------------------------------------------
(* The other instructions *)

(* Where bets, config and the escrow's balance stay, so does the surplus.  *)
LEMMA EscrowUntouched ==
    ASSUME BetsAccounted, UNCHANGED <<bets, config>>, token'[Escrow] = token[Escrow],
           \A fe : Exists(frontends[fe]) => Exists(frontends'[fe])
    PROVE  EscrowKept
<1>1. Owed' = Owed
  BY DEF Owed, StillEscrowed, RefundOf
<1>2. BetsAccounted'
  BY DEF BetsAccounted, Exists
<1>3. RefundsFit => RefundsFit'
  BY DEF RefundsFit, RefundOf, Exists
<1> QED
  BY <1>1, <1>2, <1>3 DEF SurplusKept, Surplus, EscrowKept, AccountsKept

(* Before there is a config there are no bets, and nothing is owed. *)
LEMMA InitConfigEscrow ==
    ASSUME BetsAccounted, NEW p \in ConfigChoices, InitConfig(p)
    PROVE  EscrowKept
<1>1. /\ ~Exists(config)
      /\ UNCHANGED <<bets, token, frontends>>
  BY DEF InitConfig
<1>2. \A bn \in Slots : ~Exists(bets[bn])
  BY <1>1 DEF BetsAccounted
<1>3. BetsAccounted'
  BY <1>1, <1>2 DEF BetsAccounted, Exists, Slots
<1>4. \A bn \in Bettors \X Nonces :
        StillEscrowed(bets[bn]) = 0 /\ StillEscrowed(bets[bn])' = 0
  BY <1>1, <1>2 DEF StillEscrowed, Exists, Slots
<1>5. Owed' = Owed
  BY <1>4 DEF Owed
<1>6. RefundsFit'
  BY <1>1, <1>2 DEF RefundsFit, Exists, Slots
<1> QED
  BY <1>1, <1>3, <1>5, <1>6 DEF SurplusKept, Surplus, EscrowKept, AccountsKept

(* A new config keeps bets accounted for, whatever it owes them. *)
LEMMA UpdateConfigEscrow ==
    ASSUME BetsAccounted, NEW p \in ConfigChoices, UpdateConfig(p)
    PROVE  BetsAccounted'
<1>1. config' = p /\ UNCHANGED <<bets, frontends>>
  BY DEF UpdateConfig
<1>2. p # NoAccount
  BY ConstantsAssumption, NoAccountAssumption
<1> QED
  BY <1>1, <1>2 DEF BetsAccounted, Exists

(* A closed bet was owed nothing. *)
LEMMA CloseBetEscrow ==
    ASSUME TypeOK, BetsAccounted, NEW bettor \in Bettors, NEW nonce \in Nonces,
           CloseBet(bettor, nonce)
    PROVE  EscrowKept
<1> DEFINE bn == <<bettor, nonce>>
<1>1. /\ bn \in Slots
      /\ Exists(bets[bn]) /\ bets[bn].state \in Terminal
      /\ bets' = [bets EXCEPT ![bn] = NoAccount]
      /\ UNCHANGED <<config, frontends, token>>
  BY DEF CloseBet, IsBet, Slots
<1>2. StillEscrowed(bets[bn]) = 0
  BY <1>1 DEF StillEscrowed, Terminal
<1> HIDE DEF bn
<1>3. ASSUME NEW o \in Slots
      PROVE  /\ Exists(bets'[o]) => bets'[o] = bets[o]
             /\ StillEscrowed(bets'[o]) = StillEscrowed(bets[o])
  <2>1. CASE o = bn
    <3>1. bets'[o] = NoAccount
      BY <1>1, <2>1 DEF TypeOK, Slots
    <3> QED
      BY <1>2, <2>1, <3>1 DEF StillEscrowed, Exists
  <2>2. CASE o # bn
    BY <1>1, <2>2
  <2> QED
    BY <2>1, <2>2
<1>4. \A o \in Slots : StillEscrowed(bets[o])' = StillEscrowed(bets[o])
  BY <1>1, <1>3 DEF StillEscrowed, RefundOf
<1>5. Owed' = Owed
  BY <1>4 DEF Owed, Slots
<1>6. BetsAccounted'
  BY <1>1, <1>3 DEF BetsAccounted, Exists, Slots
<1>7. RefundsFit => RefundsFit'
  BY <1>1, <1>3 DEF RefundsFit, RefundOf, Exists, Slots, U64
<1> QED
  BY <1>1, <1>5, <1>6, <1>7 DEF SurplusKept, Surplus, EscrowKept, AccountsKept

(* The two ways to give to the escrow. *)
LeftToEscrow == CrankPaying(Escrow) /\ SurplusGrows(config.keeper_reward)
WithdrawnToEscrow ==
    \E call \in Withdrawals :
        /\ call.destination = Escrow /\ Withdraw(call)
        /\ Surplus' = Surplus + call.amount

(* An owner's instructions leave the surplus alone, but for a withdrawal   *)
(* into the escrow.                                                        *)
LEMMA HouseEscrow ==
    ASSUME TypeOK, BetsAccounted, HouseNext
    PROVE  AccountsKept /\ (SurplusKept \/ WithdrawnToEscrow)
<1> USE DEF EscrowKept
<1>1. ASSUME NEW h \in Houses, NEW p \in HouseChoices,
             CreateHouse(h, p) \/ UpdateHouseParams(h, p)
      PROVE  EscrowKept
  BY <1>1, EscrowUntouched DEF CreateHouse, UpdateHouseParams
<1>2. ASSUME NEW h \in Houses, NEW paused \in PauseChoices, SetPaused(h, paused)
      PROVE  EscrowKept
  BY <1>2, EscrowUntouched DEF SetPaused
<1>3. ASSUME NEW h \in Houses, NEW f \in FilterChoices, SetHouseFilters(h, f)
      PROVE  EscrowKept
  BY <1>3, EscrowUntouched DEF SetHouseFilters
<1>4. ASSUME NEW h \in Houses, NEW f \in Fixtures, CloseExposure(h, f)
      PROVE  EscrowKept
  BY <1>4, EscrowUntouched DEF CloseExposure
<1>5. ASSUME NEW call \in Deposits, Deposit(call)
      PROVE  EscrowKept
  <2>1. Escrow \notin {call.depositor, call.house}
    BY AccountsFact, ConstantsAssumption DEF DepositCall
  <2>2. token'[Escrow] = token[Escrow]
    BY <1>5, <2>1, AccountsFact DEF Deposit, Moved, TypeOK
  <2> QED
    BY <1>5, <2>2, EscrowUntouched DEF Deposit
<1>6. ASSUME NEW call \in Withdrawals, Withdraw(call)
      PROVE  AccountsKept /\ (SurplusKept \/ WithdrawnToEscrow)
  <2>1. AccountsKept
    BY <1>6 DEF Withdraw, AccountsKept, BetsAccounted, RefundsFit, RefundOf, Exists
  <2>2. CASE call.destination = Escrow
    <3>1. /\ Escrow # call.house /\ call.house \in TokenAccounts /\ call.amount \in Nat
          /\ Escrow \in TokenAccounts
      BY AccountsFact, ConstantsAssumption DEF WithdrawCall
    <3>2. token'[Escrow] = token[Escrow] + call.amount
      BY <1>6, <2>2, <3>1 DEF Withdraw, WithdrawPayment, Moved, TypeOK
    <3>3. Owed' = Owed
      BY <1>6 DEF Withdraw, Owed, StillEscrowed, RefundOf
    <3>4. token[Escrow] \in Nat /\ Owed \in Nat
      BY <3>1, OwedType DEF TypeOK
    <3>5. Surplus' = Surplus + call.amount
      BY <3>1, <3>2, <3>3, <3>4 DEF Surplus
    <3> QED
      BY <1>6, <2>1, <2>2, <3>5 DEF WithdrawnToEscrow
  <2>3. CASE call.destination # Escrow
    <3>1. Escrow # call.house
      BY AccountsFact, ConstantsAssumption DEF WithdrawCall
    <3>2. token'[Escrow] = token[Escrow]
      BY <1>6, <2>3, <3>1, AccountsFact DEF Withdraw, WithdrawPayment, Moved, TypeOK
    <3> QED
      BY <1>6, <3>2, EscrowUntouched DEF Withdraw
  <2> QED
    BY <2>2, <2>3
<1> QED
  BY <1>1, <1>2, <1>3, <1>4, <1>5, <1>6 DEF HouseNext

(* A crank adds to the surplus the reward it leaves there, or nothing.     *)
LEMMA CrankEscrow ==
    ASSUME TypeOK, TypeOK', BetsAccounted, NEW cranker_token \in RewardAccounts,
           CrankPaying(cranker_token), SomeEscrowMoves(RewardStaying(cranker_token))
    PROVE  AccountsKept /\ (SurplusKept \/ LeftToEscrow)
<1>1. config \in ConfigParams
  BY DEF SomeEscrowMoves, EscrowMoves, TypeOK, Exists
<1>2. RewardStaying(cranker_token) \in Nat
  BY <1>1 DEF RewardStaying, ConfigParams
<1>3. /\ SurplusGrows(RewardStaying(cranker_token)) /\ AccountsKept
      /\ RewardStaying(cranker_token) = 0 => EscrowKept
  BY <1>2, EscrowMovesStep
<1>4. CASE cranker_token = Escrow
  BY <1>3, <1>4 DEF RewardStaying, LeftToEscrow
<1>5. CASE cranker_token # Escrow
  BY <1>3, <1>5 DEF RewardStaying, EscrowKept
<1> QED
  BY <1>4, <1>5

(* The life of a bet leaves the surplus alone, but for such rewards. *)
LEMMA BetEscrow ==
    ASSUME TypeOK, TypeOK', BetsAccounted, BetNext
    PROVE  AccountsKept /\ (SurplusKept \/ LeftToEscrow)
<1> USE DEF EscrowKept
<1>1. ASSUME NEW order \in Orders, CommitBet(order)
      PROVE  EscrowKept
  BY <1>1, CommitEscrow, EscrowMovesStep
<1>2. ASSUME NEW cranker \in Crankers, NEW odds \in Feed, ProvePrint(cranker, odds)
      PROVE  EscrowKept
  BY <1>2, EscrowUntouched DEF ProvePrint
<1>3. ASSUME NEW payer \in Crankers, NEW print \in prints, ClosePrint(payer, print)
      PROVE  EscrowKept
  BY <1>3, EscrowUntouched DEF ClosePrint
<1>4. ASSUME NEW cranker_token \in RewardAccounts, NEW bettor \in Bettors, NEW nonce \in Nonces,
             NEW commit_print \in prints, NEW target_print \in prints,
             FillBet(cranker_token, bettor, nonce, commit_print, target_print)
      PROVE  AccountsKept /\ (SurplusKept \/ LeftToEscrow)
  <2>1. CrankPaying(cranker_token)
    BY <1>4 DEF CrankPaying
  <2> QED
    BY <1>4, <2>1, FillEscrow, CrankEscrow
<1>5. ASSUME NEW cranker_token \in RewardAccounts, NEW bettor \in Bettors, NEW nonce \in Nonces,
             \/ \E ev \in scores : SettleBet(cranker_token, bettor, nonce, ev)
             \/ VoidBet(cranker_token, bettor, nonce)
      PROVE  AccountsKept /\ (SurplusKept \/ LeftToEscrow)
  <2>1. PICK paid \in Nat, state \in Terminal :
            /\ InState(bettor, nonce, "Active")
            /\ ReleaseAndReward(cranker_token, bettor, nonce, paid, state)
    BY <1>5, ReleasesEndBets
  <2>2. CrankPaying(cranker_token)
    BY <1>5 DEF CrankPaying
  <2> QED
    BY <2>1, <2>2, ReleaseEscrow, CrankEscrow
<1>6. ASSUME NEW bettor \in Bettors, NEW nonce \in Nonces, RefundCommit(bettor, nonce)
      PROVE  EscrowKept
  BY <1>6, RefundEscrow, EscrowMovesStep
<1>7. ASSUME NEW bettor \in Bettors, NEW nonce \in Nonces, CloseBet(bettor, nonce)
      PROVE  EscrowKept
  BY <1>7, CloseBetEscrow
<1> QED
  BY <1>1, <1>2, <1>3, <1>4, <1>5, <1>6, <1>7 DEF BetNext

AdminUpdates == \E p \in ConfigChoices : UpdateConfig(p)

(* Every step keeps the invariant and, but for the three exceptions, the   *)
(* surplus.                                                                *)
LEMMA NextEscrow ==
    ASSUME EscrowInv, [Next]_vars
    PROVE  /\ EscrowInv'
           /\ SurplusKept \/ LeftToEscrow \/ WithdrawnToEscrow \/ AdminUpdates
           /\ RefundsFit /\ ~AdminUpdates => RefundsFit'
<1> USE DEF EscrowKept, AccountsKept
<1>1. VaultInv'
  BY NextVaultInv DEF EscrowInv
<1>2. TypeOK /\ TypeOK' /\ BetsAccounted
  BY <1>1 DEF EscrowInv, VaultInv
<1>3. CASE UNCHANGED vars
  BY <1>1, <1>2, <1>3, EscrowUntouched DEF vars, EscrowInv
<1>4. CASE AdminNext
  <2>1. ASSUME NEW p \in ConfigChoices, InitConfig(p)
        PROVE  EscrowKept
    BY <1>2, <2>1, InitConfigEscrow
  <2>2. ASSUME NEW p \in ConfigChoices, UpdateConfig(p)
        PROVE  AdminUpdates /\ BetsAccounted'
    BY <1>2, <2>2, UpdateConfigEscrow DEF AdminUpdates
  <2>3. ASSUME NEW fe \in Frontends, NEW fee_bps \in FrontendFees,
               RegisterFrontend(fe, fee_bps)
        PROVE  EscrowKept
    <3>1. \A other : Exists(frontends[other]) => frontends'[other] = frontends[other]
      BY <2>3 DEF RegisterFrontend
    <3> QED
      BY <1>2, <2>3, <3>1, EscrowUntouched DEF RegisterFrontend
  <2> QED
    BY <1>1, <1>4, <2>1, <2>2, <2>3 DEF AdminNext, EscrowInv
<1>5. CASE WorldNext
  BY <1>1, <1>2, <1>5, EscrowUntouched DEF WorldNext, Tick, PublishScore, EscrowInv
<1> QED
  BY <1>1, <1>2, <1>3, <1>4, <1>5, HouseEscrow, BetEscrow DEF Next, EscrowInv

(* On the empty chain there are no bets to account for. *)
LEMMA InitEscrowInv == Init => EscrowInv
  BY InitVaultInv DEF Init, EscrowInv, BetsAccounted, Exists, Slots

(* The strengthening holds in every reachable state. *)
THEOREM EscrowInvHolds == Spec => []EscrowInv
<1>1. EscrowInv /\ [Next]_vars => EscrowInv'
  BY NextEscrow
<1> QED
  BY <1>1, InitEscrowInv, PTL DEF Spec

(* The escrow's surplus is only what was given to it: no commit, fill,     *)
(* refund, settlement, void or closing, in any order and whichever account *)
(* the cranker names, moves the balance by anything but what the program   *)
(* comes to owe or ceases to owe, and the one reward of a crank that names *)
(* the escrow itself; a withdrawal into it adds what is withdrawn.         *)
THEOREM OnlyGiftsStay == Spec => SurplusOnlyGiven
<1>1. EscrowInv /\ [Next]_vars =>
        [SurplusKept \/ LeftToEscrow \/ WithdrawnToEscrow \/ AdminUpdates]_vars
  BY NextEscrow
<1>2. [SurplusKept \/ LeftToEscrow \/ WithdrawnToEscrow \/ AdminUpdates]_vars <=>
        [\/ Surplus' = Surplus
         \/ CrankPaying(Escrow) /\ Surplus' = Surplus + config.keeper_reward
         \/ \E call \in Withdrawals :
                /\ call.destination = Escrow /\ Withdraw(call)
                /\ Surplus' = Surplus + call.amount
         \/ \E p \in ConfigChoices : UpdateConfig(p)]_vars
  BY DEF SurplusKept, LeftToEscrow, SurplusGrows, WithdrawnToEscrow, AdminUpdates
<1> QED
  BY <1>1, <1>2, EscrowInvHolds, PTL DEF Spec, SurplusOnlyGiven

-----------------------------------------------------------------------------
(* Solvency *)

(* The admin may change every parameter, but keeper_reward only downwards: *)
(* pending bets are owed two of the current rewards, whatever they paid.   *)
RewardNotRaised == Exists(config) => config'.keeper_reward <= config.keeper_reward

(* A lower reward lowers the debt. *)
LEMMA UpdateLowersDebt ==
    ASSUME TypeOK, BetsAccounted, RewardNotRaised,
           NEW p \in ConfigChoices, UpdateConfig(p)
    PROVE  /\ Owed' \in Nat /\ Owed' <= Owed
           /\ RefundsFit => RefundsFit'
<1> DEFINE F == [bn \in Slots |-> StillEscrowed(bets[bn])']
           G == [bn \in Slots |-> StillEscrowed(bets[bn])]
<1>1. /\ config \in ConfigParams /\ config' \in ConfigParams /\ bets' = bets
      /\ config'.keeper_reward <= config.keeper_reward
  BY ConstantsAssumption DEF UpdateConfig, TypeOK, Exists, RewardNotRaised
<1>2. ASSUME NEW bn \in Slots
      PROVE  /\ StillEscrowed(bets[bn])' \in Nat /\ StillEscrowed(bets[bn]) \in Nat
             /\ StillEscrowed(bets[bn])' <= StillEscrowed(bets[bn])
             /\ Exists(bets[bn]) /\ bets[bn].state = "Pending" =>
                    /\ RefundOf(bets[bn])' \in Nat
                    /\ RefundOf(bets[bn])' <= RefundOf(bets[bn])
  <2>1. CASE ~Exists(bets[bn])
    BY <1>1, <2>1 DEF StillEscrowed, Exists
  <2>2. CASE Exists(bets[bn])
    <3> DEFINE bet == bets[bn]
    <3>1. bet \in Bet
      BY <2>2 DEF TypeOK, Slots, Exists
    <3>2. /\ bet.state = "Pending" => bet.keeper_rewards_remaining = 2
          /\ bet' = bet /\ Exists(bet)
      BY <1>1, <2>2 DEF BetsAccounted, KEEPER_CRANKS
    <3> HIDE DEF bet
    <3>3. /\ bet.stake \in Nat /\ bet.frontend_fee \in Nat /\ bet.protocol_fee \in Nat
          /\ config.keeper_reward \in Nat /\ config'.keeper_reward \in Nat
      BY <1>1, <3>1, ConstantsAssumption DEF Bet, U64, ConfigParams
    <3>4. CASE bet.state = "Pending"
      <4>1. /\ RefundOf(bet) = bet.stake + bet.frontend_fee + bet.protocol_fee
                                + config.keeper_reward * 2
            /\ RefundOf(bet)' = bet.stake + bet.frontend_fee + bet.protocol_fee
                                + config'.keeper_reward * 2
        BY <3>2, <3>4 DEF RefundOf
      <4>2. /\ StillEscrowed(bet) = RefundOf(bet)
            /\ StillEscrowed(bet)' = RefundOf(bet)'
        BY <3>2, <3>4 DEF StillEscrowed, Exists
      <4> QED
        BY <1>1, <3>2, <3>3, <4>1, <4>2 DEF bet
    <3>5. CASE bet.state = "Active"
      <4>1. /\ StillEscrowed(bet) = config.keeper_reward
            /\ StillEscrowed(bet)' = config'.keeper_reward
        BY <3>2, <3>5 DEF StillEscrowed, Exists
      <4> QED
        BY <1>1, <3>3, <3>5, <4>1 DEF bet
    <3>6. CASE bet.state \notin {"Pending", "Active"}
      <4>1. StillEscrowed(bet) = 0 /\ StillEscrowed(bet)' = 0
        BY <3>2, <3>6 DEF StillEscrowed, Exists
      <4> QED
        BY <3>6, <4>1 DEF bet
    <3> QED
      BY <3>4, <3>5, <3>6
  <2> QED
    BY <2>1, <2>2
<1>3. Owed = SumFunctionOnSet(G, Slots) /\ Owed' = SumFunctionOnSet(F, Slots)
  BY DEF Owed, SumFunction, Slots
<1>4. /\ IsFiniteSet(Slots)
      /\ \A bn \in Slots : F[bn] \in Nat /\ G[bn] \in Nat /\ F[bn] <= G[bn]
  BY <1>2, FiniteAssumption DEF Slots
<1> HIDE DEF F, G
<1>5. Owed' \in Nat /\ Owed' <= Owed
  BY <1>3, <1>4, SumNat, SumMonotone
<1>6. RefundsFit => RefundsFit'
  <2> SUFFICES ASSUME RefundsFit, NEW bn \in Slots,
                      Exists(bets[bn]), bets[bn].state = "Pending"
               PROVE  RefundOf(bets[bn])' \in U64
    BY <1>1 DEF RefundsFit, Exists, Slots, U64
  <2>1. RefundOf(bets[bn]) \in U64
    BY DEF RefundsFit
  <2> QED
    BY <1>2, <2>1, ConstantsAssumption DEF U64
<1> QED
  BY <1>5, <1>6

(* The inductive invariant of solvency. *)
SolventInv == EscrowInv /\ RefundsFit /\ EscrowBacksBets

(* A gift only adds to the surplus. *)
LEMMA GiftAdds ==
    ASSUME TypeOK, LeftToEscrow \/ WithdrawnToEscrow
    PROVE  \E gain \in Nat : SurplusGrows(gain)
<1>1. CASE LeftToEscrow
  <2>1. PICK bettor \in Bettors, nonce \in Nonces :
            \/ \E commit_print \in prints, target_print \in prints :
                    FillBet(Escrow, bettor, nonce, commit_print, target_print)
            \/ \E ev \in scores : SettleBet(Escrow, bettor, nonce, ev)
            \/ VoidBet(Escrow, bettor, nonce)
    BY <1>1 DEF LeftToEscrow, CrankPaying
  <2>2. Exists(config)
    <3>1. ASSUME NEW commit_print \in prints, NEW target_print \in prints,
                 FillBet(Escrow, bettor, nonce, commit_print, target_print)
          PROVE  Exists(config)
      BY <3>1 DEF FillBet, CanFill, Loaded
    <3>2. ASSUME NEW ev \in scores, SettleBet(Escrow, bettor, nonce, ev)
          PROVE  Exists(config)
      BY <3>2 DEF SettleBet, ReleaseAndReward, Loaded
    <3>3. ASSUME VoidBet(Escrow, bettor, nonce)
          PROVE  Exists(config)
      BY <3>3 DEF VoidBet, ReleaseAndReward, Loaded
    <3> QED
      BY <2>1, <3>1, <3>2, <3>3
  <2>3. config.keeper_reward \in Nat
    BY <2>2 DEF TypeOK, Exists, ConfigParams
  <2> QED
    BY <1>1, <2>3 DEF LeftToEscrow
<1>2. CASE WithdrawnToEscrow
  BY <1>2, ConstantsAssumption DEF WithdrawnToEscrow, WithdrawCall, SurplusGrows
<1> QED
  BY <1>1, <1>2

(* Every step that does not raise the reward leaves the escrow solvent. *)
LEMMA NextSolvent ==
    ASSUME SolventInv, [Next]_vars, [RewardNotRaised]_vars
    PROVE  SolventInv'
<1>1. /\ EscrowInv' /\ (RefundsFit /\ ~AdminUpdates => RefundsFit')
      /\ SurplusKept \/ LeftToEscrow \/ WithdrawnToEscrow \/ AdminUpdates
  BY NextEscrow DEF SolventInv
<1>2. /\ TypeOK /\ TypeOK' /\ BetsAccounted /\ BetsAccounted'
  BY <1>1 DEF SolventInv, EscrowInv, VaultInv
<1>3. /\ Owed \in Nat /\ token[Escrow] \in Nat
      /\ Owed' \in Nat /\ token'[Escrow] \in Nat
  <2>1. token[Escrow] \in Nat /\ token'[Escrow] \in Nat
    BY <1>2, AccountsFact DEF TypeOK
  <2>2. Owed \in Nat
    BY <1>2, OwedType
  <2>3. Owed' \in Nat
    BY <1>2, OwedTypeAfter
  <2> QED
    BY <2>1, <2>2, <2>3
<1>4. token[Escrow] >= Owed /\ RefundsFit
  BY DEF SolventInv, EscrowBacksBets
<1>5. CASE AdminUpdates
  <2>1. PICK p \in ConfigChoices : UpdateConfig(p)
    BY <1>5 DEF AdminUpdates
  <2>2. CASE UNCHANGED vars
    <3>1. RefundsFit'
      BY <1>4, <2>2 DEF vars, RefundsFit, RefundOf, Exists
    <3>2. Owed' = Owed /\ token'[Escrow] = token[Escrow]
      BY <2>2 DEF vars, Owed, StillEscrowed, RefundOf
    <3> QED
      BY <1>1, <1>4, <3>1, <3>2 DEF SolventInv, EscrowBacksBets
  <2>3. CASE RewardNotRaised
    <3>1. Owed' <= Owed /\ RefundsFit'
      BY <1>2, <1>4, <2>1, <2>3, UpdateLowersDebt
    <3>2. token'[Escrow] = token[Escrow]
      BY <2>1 DEF UpdateConfig
    <3> QED
      BY <1>1, <1>3, <1>4, <3>1, <3>2 DEF SolventInv, EscrowBacksBets
  <2> QED
    BY <2>2, <2>3
<1>6. CASE SurplusKept /\ ~AdminUpdates
  BY <1>1, <1>3, <1>4, <1>6 DEF SolventInv, EscrowBacksBets, SurplusKept, Surplus
<1>7. CASE (LeftToEscrow \/ WithdrawnToEscrow) /\ ~AdminUpdates
  <2>1. PICK gain \in Nat : SurplusGrows(gain)
    BY <1>2, <1>7, GiftAdds
  <2>2. token'[Escrow] >= Owed'
    BY <1>3, <1>4, <2>1 DEF SurplusGrows, Surplus
  <2> QED
    BY <1>1, <1>4, <1>7, <2>2 DEF SolventInv, EscrowBacksBets
<1> QED
  BY <1>1, <1>5, <1>6, <1>7

(* On the empty chain nothing is owed. *)
LEMMA InitSolvent == Init => SolventInv
<1> SUFFICES ASSUME Init
             PROVE  SolventInv
  OBVIOUS
<1>1. EscrowInv
  BY InitEscrowInv
<1>2. \A bn \in Slots : ~Exists(bets[bn])
  BY DEF Init, Exists, Slots
<1>3. RefundsFit
  BY <1>2 DEF RefundsFit
<1>4. Owed = 0
  BY <1>2, ZeroSums DEF Owed, StillEscrowed, Slots
<1>5. token[Escrow] \in Nat
  BY <1>1, AccountsFact DEF EscrowInv, VaultInv, TypeOK
<1> QED
  BY <1>1, <1>3, <1>4, <1>5 DEF SolventInv, EscrowBacksBets

(* While the reward is not raised, the invariant holds. *)
THEOREM SolventInvHolds == Spec /\ [][RewardNotRaised]_vars => []SolventInv
<1>1. SolventInv /\ [Next]_vars /\ [RewardNotRaised]_vars => SolventInv'
  BY NextSolvent
<1> QED
  BY <1>1, InitSolvent, PTL DEF Spec

(* So the one escrow account that all bets share always holds at least     *)
(* what all of them are owed together: no bet is refunded or rewarded with *)
(* the tokens of another.                                                  *)
THEOREM EscrowAlwaysBacksBets == Spec /\ [][RewardNotRaised]_vars => []EscrowBacksBets
<1>1. SolventInv => EscrowBacksBets
  BY DEF SolventInv
<1> QED
  BY <1>1, SolventInvHolds, PTL

-----------------------------------------------------------------------------
(* Cranks *)

(* The checks refund_commit makes once the bet has expired. *)
RefundPasses(bet) ==
    LET book == exposures[<<bet.house, bet.fixture_id>>]
    IN  /\ Loaded(bet)
        /\ RefundOf(bet) \in U64
        /\ token[Escrow] >= RefundOf(bet)
        /\ bet.reserved <= book.liability[bet.outcome]
        /\ Resynced(bet.house, UnreservedBook(book, bet)) \in U64
        /\ book.open_bets >= 1

(* The checks fill_bet makes of books, escrow and vault, at any payout     *)
(* within the reservation.                                                 *)
FillPasses(bet) ==
    LET book == exposures[<<bet.house, bet.fixture_id>>]
    IN  /\ Loaded(bet) /\ Exists(frontends[bet.frontend])
        /\ bet.reserved <= book.liability[bet.outcome]
        /\ token[Escrow] >= bet.stake + bet.frontend_fee + bet.protocol_fee
                            + config.keeper_reward
        /\ bet.keeper_rewards_remaining >= 1
        /\ \A pays \in 0..bet.reserved :
                LET total == Resynced(bet.house, FilledBook(book, bet, pays))
                IN  total \in U64 /\ token[bet.house] + bet.stake >= total

(* The checks settle_bet and void_bet make of the book and the escrow.     *)
ReleasePasses(bet) ==
    LET book == exposures[<<bet.house, bet.fixture_id>>]
    IN  /\ Loaded(bet)
        /\ token[Escrow] >= config.keeper_reward
        /\ bet.payout <= book.liability[bet.outcome]
        /\ bet.stake <= book.stakes_collected
        /\ book.open_bets >= 1
        /\ bet.keeper_rewards_remaining >= 1

CranksPass ==
    \A bn \in Slots : Exists(bets[bn]) =>
        /\ bets[bn].state = "Pending" => RefundPasses(bets[bn]) /\ FillPasses(bets[bn])
        /\ bets[bn].state = "Active" => ReleasePasses(bets[bn])

(* One bet counts for no more than the sum over all. *)
LEMMA PartAtMost ==
    ASSUME NEW F \in [Slots -> Nat], NEW bn \in Slots
    PROVE  F[bn] <= SumFunction(F)
<1>1. IsFiniteSet(Slots) /\ DOMAIN F = Slots
  BY FiniteAssumption DEF Slots
<1> QED
  BY <1>1, SumAtLeast DEF SumFunction

(* A live bet's book is there, counts it and holds its part. *)
LEMMA LiveBetBooked ==
    ASSUME BookInv, NEW bn \in Slots, NEW h \in Houses, NEW f \in Fixtures,
           OnBook(bets[bn], h, f)
    PROVE  /\ Exists(houses[h]) /\ Exists(exposures[<<h, f>>])
           /\ exposures[<<h, f>>].open_bets >= 1
           /\ Collected(bets[bn], h, f) <= exposures[<<h, f>>].stakes_collected
           /\ \A o \in Outcomes :
                Claim(bets[bn], h, f, o) <= exposures[<<h, f>>].liability[o]
<1> USE DEF BookInv, VaultInv
<1>1. /\ Counts(h, f) \in [Slots -> Nat] /\ StakesOn(h, f) \in [Slots -> Nat]
      /\ \A o : Claims(h, f, o) \in [Slots -> Nat]
  BY PartsType
<1>2. Counted(bets[bn], h, f) <= BookOf(h, f).open_bets
  <2>1. Counts(h, f)[bn] <= BookOf(h, f).open_bets
    BY <1>1, PartAtMost DEF BookMatchesBets
  <2> QED
    BY <2>1 DEF Counts, Slots
<1>3. Collected(bets[bn], h, f) <= BookOf(h, f).stakes_collected
  <2>1. StakesOn(h, f)[bn] <= BookOf(h, f).stakes_collected
    BY <1>1, PartAtMost DEF BookMatchesBets
  <2> QED
    BY <2>1 DEF StakesOn, Slots
<1>4. ASSUME NEW o \in Outcomes
      PROVE  Claim(bets[bn], h, f, o) <= BookOf(h, f).liability[o]
  <2>1. Claims(h, f, o)[bn] <= BookOf(h, f).liability[o]
    BY <1>1, PartAtMost DEF BookMatchesBets
  <2> QED
    BY <2>1 DEF Claims, Slots
<1>5. BookOf(h, f).open_bets \in Nat /\ Counted(bets[bn], h, f) = 1
  BY BookType DEF Counted
<1>6. Exists(exposures[<<h, f>>])
  BY <1>2, <1>5 DEF BookOf, NewExposure
<1>7. BookOf(h, f) = exposures[<<h, f>>] /\ Exists(houses[h])
  BY <1>6 DEF BookOf, BooksHaveHouses
<1> QED
  BY <1>2, <1>3, <1>4, <1>5, <1>6, <1>7

(* A book's lock is part of its house's total. *)
LEMMA LockInTotal ==
    ASSUME BookInv, NEW h \in Houses, NEW f \in Fixtures, Exists(houses[h])
    PROVE  BookOf(h, f).locked <= houses[h].total_locked
<1> DEFINE F == Locks(h)
<1>1. F \in [Fixtures -> Nat] /\ F[f] = BookOf(h, f).locked
  BY LocksType DEF Locks, BookInv, VaultInv
<1>2. houses[h].total_locked = SumFunction(F)
  BY DEF BookInv, TotalMatchesBooks
<1> HIDE DEF F
<1>3. SumFunction(F) = SumFunctionOnSet(F, Fixtures)
  BY <1>1 DEF SumFunction
<1> QED
  BY <1>1, <1>2, <1>3, FiniteAssumption, SumAtLeast

(* What one bet is owed is part of what all are owed. *)
LEMMA OwedAtLeast ==
    ASSUME TypeOK, BetsAccounted, NEW bn \in Slots
    PROVE  StillEscrowed(bets[bn]) <= Owed
<1> DEFINE F == [other \in Slots |-> StillEscrowed(bets[other])]
<1>1. F \in [Slots -> Nat] /\ F[bn] = StillEscrowed(bets[bn])
  BY OwedType
<1>2. Owed = SumFunction(F)
  BY DEF Owed, Slots
<1> HIDE DEF F
<1> QED
  BY <1>1, <1>2, PartAtMost

(* Taking from one outcome raises no liability. *)
LEMMA LighterLiability ==
    ASSUME NEW before \in [Outcomes -> Nat], NEW o \in Outcomes, NEW r \in Nat,
           before[o] - r \in Nat
    PROVE  /\ [before EXCEPT ![o] = @ - r] \in [Outcomes -> Nat]
           /\ \A p \in Outcomes : [before EXCEPT ![o] = @ - r][p] <= before[p]
OBVIOUS

(* A book that comes to need no more collateral passes its resync.         *)
LEMMA LighterBookResyncs ==
    ASSUME BookInv, NEW h \in Houses, NEW f \in Fixtures,
           Exists(houses[h]), Exists(exposures[<<h, f>>]),
           NEW L \in [Outcomes -> Nat], NEW c \in Nat, NEW e,
           e.liability = L, e.stakes_collected = c,
           e.locked = exposures[<<h, f>>].locked,
           \A o \in Outcomes : L[o] <= exposures[<<h, f>>].liability[o],
           c >= exposures[<<h, f>>].stakes_collected
    PROVE  /\ Resynced(h, e) \in U64
           /\ Resynced(h, e) <= token[h]
<1> DEFINE book == exposures[<<h, f>>]
<1> USE DEF BookInv, VaultInv
<1>1. book = BookOf(h, f) /\ book \in FixtureExposure /\ houses[h] \in House
  BY DEF BookOf, TypeOK, Exists
<1>2. /\ book.liability \in [Outcomes -> Nat] /\ book.stakes_collected \in Nat
      /\ book.locked \in Nat
      /\ houses[h].total_locked \in 0..MaxU64
  BY <1>1, ConstantsAssumption DEF FixtureExposure, House, U64
<1>3. book.locked <= houses[h].total_locked
  BY <1>1, LockInTotal
<1>4. book.locked = locked(book.liability, book.stakes_collected)
  BY DEF LocksInSync
<1>5. houses[h].total_locked <= token[h] /\ token[h] \in Nat
  BY AccountsFact DEF VaultCoversLocks, TypeOK
<1> HIDE DEF book
<1>6. \A o \in Outcomes : L[o] <= book.liability[o]
  BY DEF book
<1>7. locked(L, c) \in Nat /\ locked(L, c) <= book.locked
  <2>1. locked(L, book.stakes_collected) <= locked(book.liability, book.stakes_collected)
    BY <1>2, <1>6, LockMonotone
  <2>2. Heaviest(L) \in Nat
    BY HeaviestIs
  <2>3. /\ locked(L, c) \in Nat /\ locked(L, book.stakes_collected) \in Nat
        /\ locked(L, c) <= locked(L, book.stakes_collected)
    BY <1>2, <2>2 DEF locked, SatSub, book
  <2> QED
    BY <1>2, <1>4, <2>1, <2>3
<1>8. Resynced(h, e) = houses[h].total_locked + locked(L, c) - book.locked
  BY DEF Resynced, book
<1> QED
  BY <1>2, <1>3, <1>5, <1>7, <1>8, ConstantsAssumption DEF U64

(* A pending bet's book can drop the bet. *)
LEMMA PendingRefundPasses ==
    ASSUME BookInv, SolventInv, NEW bn \in Slots,
           Exists(bets[bn]), bets[bn].state = "Pending"
    PROVE  RefundPasses(bets[bn])
<1> DEFINE bet == bets[bn]
           h == bet.house
           f == bet.fixture_id
           o == bet.outcome
           book == exposures[<<h, f>>]
           e == UnreservedBook(book, bet)
<1> USE DEF BookInv, VaultInv, SolventInv, EscrowInv
<1>1. bet \in Bet /\ h \in Houses /\ f \in Fixtures /\ o \in Outcomes /\ OnBook(bet, h, f)
  <2>1. bet \in Bet
    BY DEF TypeOK, Slots, Exists
  <2> QED
    BY <2>1 DEF Bet, OnBook
<1>2. /\ Exists(houses[h]) /\ Exists(book) /\ book.open_bets >= 1
      /\ Claim(bet, h, f, o) <= book.liability[o]
  BY <1>1, LiveBetBooked
<1>3. Claim(bet, h, f, o) = bet.reserved
  BY <1>1 DEF Claim
<1>4. Loaded(bet)
  BY <1>2 DEF Loaded, BetsAccounted
<1>5. RefundOf(bet) \in U64
  BY DEF RefundsFit
<1>6. token[Escrow] >= RefundOf(bet)
  <2>1. StillEscrowed(bet) <= Owed /\ StillEscrowed(bet) = RefundOf(bet)
    BY OwedAtLeast DEF StillEscrowed
  <2>2. RefundOf(bet) \in Nat /\ Owed \in Nat /\ token[Escrow] \in Nat
    BY <1>5, OwedType, AccountsFact, ConstantsAssumption DEF U64, TypeOK
  <2> QED
    BY <2>1, <2>2 DEF EscrowBacksBets
<1>7. Resynced(h, e) \in U64
  <2> DEFINE L == [book.liability EXCEPT ![o] = @ - bet.reserved]
  <2>1. book \in FixtureExposure
    BY <1>1, <1>2 DEF TypeOK, Exists
  <2>2. /\ book.liability \in [Outcomes -> Nat] /\ book.stakes_collected \in Nat
        /\ bet.reserved \in Nat
    BY <1>1, <2>1, ConstantsAssumption DEF FixtureExposure, Bet, U64
  <2>3. /\ e.liability = L /\ e.stakes_collected = book.stakes_collected
        /\ e.locked = book.locked
    BY <2>1 DEF UnreservedBook, FixtureExposure
  <2>4. book.liability[o] - bet.reserved \in Nat
    BY <1>1, <1>2, <1>3, <2>2
  <2>5. L \in [Outcomes -> Nat] /\ \A p \in Outcomes : L[p] <= book.liability[p]
    <3> HIDE DEF bet, o, book
    <3> QED
      BY <1>1, <2>2, <2>4, LighterLiability
  <2> HIDE DEF L, e, h, f, bet
  <2> QED
    BY <1>1, <1>2, <2>2, <2>3, <2>5, LighterBookResyncs
<1> QED
  BY <1>2, <1>3, <1>4, <1>5, <1>6, <1>7 DEF RefundPasses

(* And can take its fill. *)
LEMMA PendingFillPasses ==
    ASSUME BookInv, SolventInv, NEW bn \in Slots,
           Exists(bets[bn]), bets[bn].state = "Pending"
    PROVE  FillPasses(bets[bn])
<1> DEFINE bet == bets[bn]
           h == bet.house
           f == bet.fixture_id
           o == bet.outcome
           book == exposures[<<h, f>>]
<1> USE DEF BookInv, VaultInv, SolventInv, EscrowInv
<1>1. RefundPasses(bet)
  BY PendingRefundPasses
<1>2. /\ bet \in Bet /\ h \in Houses /\ f \in Fixtures /\ o \in Outcomes
      /\ Exists(houses[h]) /\ Exists(book) /\ Exists(config)
      /\ bet.reserved <= book.liability[o]
      /\ token[Escrow] >= RefundOf(bet)
  <2>1. bet \in Bet
    BY DEF TypeOK, Slots, Exists
  <2> QED
    BY <1>1, <2>1 DEF Bet, RefundPasses, Loaded
<1>3. Exists(frontends[bet.frontend]) /\ bet.keeper_rewards_remaining = 2
  BY DEF BetsAccounted, KEEPER_CRANKS
<1>4. /\ bet.stake \in Nat /\ bet.frontend_fee \in Nat /\ bet.protocol_fee \in Nat
      /\ bet.reserved \in Nat /\ config.keeper_reward \in Nat
      /\ token[Escrow] \in Nat /\ token[h] \in Nat
  BY <1>2, AccountsFact, ConstantsAssumption DEF TypeOK, Exists, Bet, U64, ConfigParams
<1>5. token[Escrow] >= bet.stake + bet.frontend_fee + bet.protocol_fee
                        + config.keeper_reward
  BY <1>2, <1>3, <1>4 DEF RefundOf
<1>6. ASSUME NEW pays \in 0..bet.reserved
      PROVE  LET total == Resynced(h, FilledBook(book, bet, pays))
             IN  total \in U64 /\ token[h] + bet.stake >= total
  <2> DEFINE L == [book.liability EXCEPT ![o] = @ - (bet.reserved - pays)]
             e == FilledBook(book, bet, pays)
  <2>1. book \in FixtureExposure
    BY <1>2 DEF TypeOK, Exists
  <2>2. book.liability \in [Outcomes -> Nat] /\ book.stakes_collected \in Nat
    BY <2>1, ConstantsAssumption DEF FixtureExposure, U64
  <2>3. /\ e.liability = L /\ e.stakes_collected = book.stakes_collected + bet.stake
        /\ e.locked = book.locked
    BY <2>1 DEF FilledBook, FixtureExposure
  <2>4. book.liability[o] - (bet.reserved - pays) \in Nat
    BY <1>2, <1>4, <2>2
  <2>5. L \in [Outcomes -> Nat] /\ \A p \in Outcomes : L[p] <= book.liability[p]
    <3> HIDE DEF bet, o, book
    <3>1. bet.reserved - pays \in Nat
      BY <1>4
    <3> QED
      BY <1>2, <2>2, <2>4, <3>1, LighterLiability
  <2>6. /\ book.stakes_collected + bet.stake \in Nat
        /\ book.stakes_collected + bet.stake >= book.stakes_collected
    BY <1>4, <2>2
  <2> HIDE DEF L, e, h, f, bet
  <2>7. Resynced(h, e) \in U64 /\ Resynced(h, e) <= token[h]
    BY <1>2, <2>3, <2>5, <2>6, LighterBookResyncs
  <2> QED
    BY <1>4, <2>7, ConstantsAssumption DEF U64, e
<1> QED
  BY <1>2, <1>3, <1>4, <1>5, <1>6, <1>1 DEF FillPasses, RefundPasses

(* An active bet's book and the escrow hold what its settlement takes.     *)
LEMMA ActiveReleasePasses ==
    ASSUME BookInv, SolventInv, NEW bn \in Slots,
           Exists(bets[bn]), bets[bn].state = "Active"
    PROVE  ReleasePasses(bets[bn])
<1> DEFINE bet == bets[bn]
           h == bet.house
           f == bet.fixture_id
           o == bet.outcome
           book == exposures[<<h, f>>]
<1> USE DEF BookInv, VaultInv, SolventInv, EscrowInv
<1>1. bet \in Bet /\ h \in Houses /\ f \in Fixtures /\ o \in Outcomes /\ OnBook(bet, h, f)
  <2>1. bet \in Bet
    BY DEF TypeOK, Slots, Exists
  <2> QED
    BY <2>1 DEF Bet, OnBook
<1>2. /\ Exists(houses[h]) /\ Exists(book) /\ book.open_bets >= 1
      /\ Collected(bet, h, f) <= book.stakes_collected
      /\ Claim(bet, h, f, o) <= book.liability[o]
  BY <1>1, LiveBetBooked
<1>3. Claim(bet, h, f, o) = bet.payout /\ Collected(bet, h, f) = bet.stake
  BY <1>1 DEF Claim, Collected
<1>4. Loaded(bet) /\ bet.keeper_rewards_remaining = 1
  BY <1>2 DEF Loaded, BetsAccounted
<1>5. token[Escrow] >= config.keeper_reward
  <2>1. StillEscrowed(bet) <= Owed /\ StillEscrowed(bet) = config.keeper_reward
    BY OwedAtLeast DEF StillEscrowed
  <2>2. config.keeper_reward \in Nat /\ Owed \in Nat /\ token[Escrow] \in Nat
    BY <1>4, OwedType, AccountsFact DEF TypeOK, Loaded, Exists, ConfigParams
  <2> QED
    BY <2>1, <2>2 DEF EscrowBacksBets
<1> QED
  BY <1>2, <1>3, <1>4, <1>5 DEF ReleasePasses

(* Every live bet can be cranked: as long as the reward is not raised, no  *)
(* history of the book, the escrow or the vault makes a refund, a fill at  *)
(* a payout within the reservation, or the book's and the escrow's part of *)
(* a settlement or void, fail.                                             *)
THEOREM CranksAlwaysPass == Spec /\ [][RewardNotRaised]_vars => []CranksPass
<1>1. BookInv /\ SolventInv => CranksPass
  BY PendingRefundPasses, PendingFillPasses, ActiveReleasePasses DEF CranksPass
<1> QED
  BY <1>1, BookInvHolds, SolventInvHolds, PTL

(* "The bettor can always get the stake back": while the reward is not     *)
(* raised, a pending bet past its expiry can be refunded in full, whatever *)
(* the house, the book and the escrow went through (refund.rs:60-109).     *)
THEOREM RefundsNeverFail == Spec /\ [][RewardNotRaised]_vars => []RefundNeverFails
<1>1. BookInv /\ SolventInv => RefundNeverFails
  <2> SUFFICES ASSUME BookInv, SolventInv, NEW bettor \in Bettors, NEW nonce \in Nonces,
                      InState(bettor, nonce, "Pending"), Expired(bets[<<bettor, nonce>>])
               PROVE  CanRefund(bettor, nonce)
    BY DEF RefundNeverFails
  <2>1. RefundPasses(bets[<<bettor, nonce>>])
    BY PendingRefundPasses DEF InState, IsBet, Slots
  <2> QED
    BY <2>1 DEF CanRefund, RefundPasses
<1> QED
  BY <1>1, BookInvHolds, SolventInvHolds, PTL

-----------------------------------------------------------------------------
(* Reservations *)

(* Owners may change every parameter, but odds_cap only downwards.         *)
CapNotRaised ==
    \A h \in Houses : Exists(houses[h]) =>
        houses'[h].params.odds_cap \in 0..houses[h].params.odds_cap

(* What commit_bet reserved covers the house's cap as it is now.           *)
CoversCap(bet) ==
    reserved(bet.stake, houses[bet.house].params.odds_cap) <= bet.reserved

ReservationInv ==
    \A bn \in Slots : Exists(bets[bn]) /\ bets[bn].state = "Pending" => CoversCap(bets[bn])

(* The reservation check of fill_bet, for whatever prints there are.       *)
ReservationsCoverFills ==
    \A bn \in Slots, commit_print \in prints, target_print \in prints :
        Exists(bets[bn]) /\ bets[bn].state = "Pending" =>
            payout(bets[bn].stake, FillOddsFor(bets[bn], commit_print, target_print))
                <= bets[bn].reserved

(* A stake pays no more at lower odds. *)
LEMMA AtOddsMonotone ==
    ASSUME NEW s \in Nat, NEW a \in Nat, NEW b \in Nat, a <= b
    PROVE  AtOdds(s, a) <= AtOdds(s, b)
<1>1. s * a \in Nat /\ s * b \in Nat /\ s * a <= s * b
  BY TimesFact, TimesMonotone
<1> HIDE DEF AtOdds
<1>2. \A x, y \in Nat : x <= y => x \div 1000 <= y \div 1000
  OBVIOUS
<1> QED
  BY <1>1, <1>2 DEF AtOdds, ODDS_SCALE

(* A bet that is pending was pending before, or this step commits it.      *)
LEMMA PendingWas ==
    ASSUME TypeOK, [Next]_vars, NEW bn \in Slots,
           Exists(bets'[bn]), bets'[bn].state = "Pending"
    PROVE  \/ bets'[bn] = bets[bn]
           \/ \E order \in Orders : CommitBet(order) /\ bn = <<order.bettor, order.nonce>>
<1> DEFINE Was == bets'[bn] = bets[bn]
           Committed == \E order \in Orders :
                            CommitBet(order) /\ bn = <<order.bettor, order.nonce>>
<1> USE DEF Slots
<1>0. DOMAIN bets = Slots
  BY DEF TypeOK
<1>1. ASSUME NEW order \in Orders, CommitBet(order)
      PROVE  Was \/ Committed
  BY <1>0, <1>1, CommitMakesPending DEF OnlyBet
<1>2. ASSUME NEW bettor \in Bettors, NEW nonce \in Nonces, NEW bet,
             OnlyBet(<<bettor, nonce>>, bet), bet = NoAccount \/ bet.state # "Pending"
      PROVE  Was
  <2>1. CASE bn = <<bettor, nonce>>
    <3>1. bets'[bn] = bet
      BY <1>0, <1>2, <2>1 DEF OnlyBet
    <3> QED
      BY <1>2, <3>1 DEF Exists
  <2>2. CASE bn # <<bettor, nonce>>
    BY <1>0, <1>2, <2>2 DEF OnlyBet
  <2> QED
    BY <2>1, <2>2
<1>3. ASSUME NEW cranker_token \in RewardAccounts, NEW bettor \in Bettors, NEW nonce \in Nonces,
             NEW commit_print \in prints, NEW target_print \in prints,
             FillBet(cranker_token, bettor, nonce, commit_print, target_print)
      PROVE  Was
  <2> DEFINE bet == bets[<<bettor, nonce>>]
  <2>1. PICK odds, ts, pays : OnlyBet(<<bettor, nonce>>,
            [bet EXCEPT !.fill_odds = odds, !.fill_ts_ms = ts, !.payout = pays,
                        !.keeper_rewards_remaining = @ - 1, !.state = "Active"])
    BY <1>3 DEF FillBet, OnlyBet
  <2>2. bet \in Bet
    BY <1>3, BetFact DEF FillBet, CanFill, InState
  <2>3. [bet EXCEPT !.fill_odds = odds, !.fill_ts_ms = ts, !.payout = pays,
                    !.keeper_rewards_remaining = @ - 1, !.state = "Active"].state # "Pending"
    BY <2>2 DEF Bet
  <2> HIDE DEF Was
  <2> QED
    BY <1>2, <2>1, <2>3
<1>4. ASSUME NEW cranker_token \in RewardAccounts, NEW bettor \in Bettors, NEW nonce \in Nonces,
             \/ \E ev \in scores : SettleBet(cranker_token, bettor, nonce, ev)
             \/ VoidBet(cranker_token, bettor, nonce)
      PROVE  Was
  <2>1. PICK paid \in Nat, state \in Terminal :
            /\ InState(bettor, nonce, "Active")
            /\ ReleaseAndReward(cranker_token, bettor, nonce, paid, state)
    BY <1>4, ReleasesEndBets
  <2>2. PICK left : OnlyBet(<<bettor, nonce>>,
            [bets[<<bettor, nonce>>] EXCEPT !.keeper_rewards_remaining = left,
                                            !.state = state])
    BY <2>1, ReleaseEndsOne
  <2>3. bets[<<bettor, nonce>>] \in Bet
    BY <2>1, BetFact DEF InState
  <2>4. [bets[<<bettor, nonce>>] EXCEPT !.keeper_rewards_remaining = left,
                                        !.state = state].state # "Pending"
    BY <2>3 DEF Bet, Terminal
  <2> HIDE DEF Was
  <2> QED
    BY <1>2, <2>2, <2>4
<1>5. ASSUME NEW bettor \in Bettors, NEW nonce \in Nonces, RefundCommit(bettor, nonce)
      PROVE  Was
  <2> DEFINE bet == [bets[<<bettor, nonce>>] EXCEPT !.state = "Refunded"]
  <2>1. OnlyBet(<<bettor, nonce>>, bet)
    BY <1>5 DEF RefundCommit, OnlyBet
  <2>2. bet.state # "Pending"
    BY <1>5, BetFact DEF RefundCommit, CanRefund, InState, Bet
  <2> HIDE DEF bet, Was
  <2> QED
    BY <1>2, <2>1, <2>2
<1>6. ASSUME NEW bettor \in Bettors, NEW nonce \in Nonces, CloseBet(bettor, nonce)
      PROVE  Was
  <2>1. OnlyBet(<<bettor, nonce>>, NoAccount)
    BY <1>6 DEF CloseBet, OnlyBet
  <2> HIDE DEF Was
  <2> QED
    BY <1>2, <2>1
<1>7. ASSUME UNCHANGED bets
      PROVE  Was
  BY <1>7
<1> HIDE DEF Was, Committed
<1>8. Was \/ Committed
  BY <1>1, <1>3, <1>4, <1>5, <1>6, <1>7, BetsChange
<1> QED
  BY <1>8 DEF Was, Committed

(* A commit reserves the stake at the cap of the house it finds.           *)
LEMMA CommitCoversCap ==
    ASSUME TypeOK, TypeOK', NEW order \in Orders, CommitBet(order)
    PROVE  LET bet == bets'[<<order.bettor, order.nonce>>]
           IN  Exists(houses[bet.house]) /\ CoversCap(bet)
<1> DEFINE bet == bets'[<<order.bettor, order.nonce>>]
           cap == houses[order.house].params.odds_cap
<1>1. order.bettor \in Bettors /\ order.nonce \in Nonces /\ order.stake \in Nat
  BY ConstantsAssumption DEF Order, U64
<1>2. /\ bet.house = order.house /\ bet.stake = order.stake
      /\ bet.reserved = reserved(order.stake, cap)
  BY <1>1 DEF CommitBet, Reservation, NewBet, TypeOK
<1>3. Exists(houses[order.house]) /\ order.house \in Houses
  BY ConstantsAssumption DEF CommitBet, CanCommit, Order
<1>4. cap \in Nat
  BY <1>3 DEF TypeOK, House, HouseParams, Exists
<1>5. reserved(order.stake, cap) \in Nat
  BY <1>1, <1>4, AtOddsFact DEF reserved
<1> QED
  BY <1>2, <1>3, <1>5 DEF CoversCap

(* No step that raises no cap uncovers a reservation.                      *)
LEMMA NextReservation ==
    ASSUME BookInv, BookInv', ReservationInv, [Next]_vars, [CapNotRaised]_vars
    PROVE  ReservationInv'
<1> USE DEF BookInv, VaultInv
<1> SUFFICES ASSUME NEW bn \in Slots, Exists(bets'[bn]), bets'[bn].state = "Pending"
             PROVE  CoversCap(bets[bn])'
  BY DEF ReservationInv
<1> DEFINE bet == bets'[bn]
           h == bet.house
           cap == houses[h].params.odds_cap
<1>1. bet \in Bet /\ h \in Houses /\ bet.stake \in Nat /\ bet.reserved \in Nat
  BY ConstantsAssumption DEF TypeOK, Slots, Exists, Bet, U64
<1>2. Exists(houses[h]) /\ CoversCap(bet)
  <2>1. CASE bet = bets[bn]
    <3>1. OnBook(bets[bn], h, bet.fixture_id) /\ bet.fixture_id \in Fixtures
      BY <1>1, <2>1 DEF OnBook, Bet
    <3>2. Exists(houses[h])
      BY <1>1, <3>1, LiveBetBooked
    <3> QED
      BY <2>1, <3>2 DEF ReservationInv
  <2>2. ASSUME NEW order \in Orders, CommitBet(order), bn = <<order.bettor, order.nonce>>
        PROVE  Exists(houses[h]) /\ CoversCap(bet)
    BY <2>2, CommitCoversCap
  <2> QED
    BY <2>1, <2>2, PendingWas
<1>3. cap \in Nat
  BY <1>1, <1>2 DEF TypeOK, House, HouseParams, Exists
<1>4. houses'[h].params.odds_cap \in 0..cap
  BY <1>1, <1>2, <1>3 DEF CapNotRaised, vars
<1>5. reserved(bet.stake, houses'[h].params.odds_cap) <= reserved(bet.stake, cap)
  BY <1>1, <1>3, <1>4, AtOddsMonotone DEF reserved
<1>6. /\ reserved(bet.stake, houses'[h].params.odds_cap) \in Nat
      /\ reserved(bet.stake, cap) \in Nat
  <2>1. houses'[h].params.odds_cap \in Nat
    BY <1>3, <1>4
  <2> HIDE DEF bet, h, cap
  <2> QED
    BY <1>1, <1>3, <2>1, AtOddsFact DEF reserved
<1> QED
  BY <1>1, <1>2, <1>5, <1>6 DEF CoversCap

(* The quote of a pending bet is a price of at most its house's cap.       *)
LEMMA QuoteFact ==
    ASSUME BookInv, NEW bn \in Slots,
           NEW commit_print \in prints, NEW target_print \in prints,
           Exists(bets[bn]), bets[bn].state = "Pending"
    PROVE  /\ houses[bets[bn].house].params \in HouseParams
           /\ bets[bn].stake \in Nat /\ bets[bn].reserved \in Nat
           /\ FillOddsFor(bets[bn], commit_print, target_print)
                \in 0..houses[bets[bn].house].params.odds_cap
<1> USE DEF BookInv, VaultInv
<1> DEFINE bet == bets[bn]
           h == bet.house
           f == bet.fixture_id
           o == bet.outcome
           book == exposures[<<h, f>>]
           L == [book.liability EXCEPT ![o] = @ - bet.reserved]
           params == houses[h].params
           odds == FillOddsFor(bet, commit_print, target_print)
<1>1. /\ bet \in Bet /\ h \in Houses /\ f \in Fixtures /\ o \in Outcomes
      /\ bet.stake \in Nat /\ bet.reserved \in Nat
  <2>1. bet \in Bet
    BY DEF TypeOK, Slots, Exists
  <2> QED
    BY <2>1, ConstantsAssumption DEF Bet, U64
<1>2. Exists(houses[h]) /\ Exists(book) /\ bet.reserved <= book.liability[o]
  <2>1. OnBook(bet, h, f)
    BY DEF OnBook
  <2>2. Exists(houses[h]) /\ Exists(book) /\ Claim(bet, h, f, o) <= book.liability[o]
    BY <1>1, <2>1, LiveBetBooked
  <2> QED
    BY <2>1, <2>2 DEF Claim
<1>3. book.liability \in [Outcomes -> Nat]
  <2>1. book \in FixtureExposure
    BY <1>1, <1>2 DEF TypeOK, Exists
  <2> HIDE DEF book
  <2> QED
    BY <2>1, ConstantsAssumption DEF FixtureExposure, U64
<1>4. L \in [Outcomes -> Nat]
  BY <1>1, <1>2, <1>3
<1>5. params \in HouseParams
  BY <1>1, <1>2 DEF TypeOK, Exists, House
<1>6. SkewFor(bet, houses[h], book) \in Nat
  <2> HIDE DEF L
  <2>1. skew_bps(params.skew_coeff_bps, L, o, params.max_risk_per_fixture) \in Nat
    BY <1>1, <1>4, <1>5, SkewFact DEF HouseParams
  <2> QED
    BY <2>1 DEF SkewFor, L
<1>7. commit_print.prices[o] \in Nat /\ target_print.prices[o] \in Nat
  BY <1>1 DEF TypeOK, ProvenPrint
<1>8. odds \in Nat /\ odds <= params.odds_cap /\ params.odds_cap \in Nat
  <2>1. params.spread_bps \in Nat /\ params.odds_cap \in Nat
    BY <1>5 DEF HouseParams
  <2> QED
    BY <1>6, <1>7, <2>1, FillOddsFact DEF FillOddsFor
<1> QED
  BY <1>1, <1>5, <1>8

(* So what it pays is a number. *)
LEMMA PaysType ==
    ASSUME BookInv, NEW bn \in Slots,
           NEW commit_print \in prints, NEW target_print \in prints,
           Exists(bets[bn]), bets[bn].state = "Pending"
    PROVE  payout(bets[bn].stake, FillOddsFor(bets[bn], commit_print, target_print)) \in Nat
<1> DEFINE odds == FillOddsFor(bets[bn], commit_print, target_print)
<1>1. odds \in Nat /\ bets[bn].stake \in Nat
  BY QuoteFact DEF HouseParams
<1> HIDE DEF odds
<1>2. AtOdds(bets[bn].stake, odds) \in Nat
  BY <1>1, AtOddsFact
<1> QED
  BY <1>2 DEF payout, odds

(* The quote of any two prints is clamped at the cap, so the reservation   *)
(* covers what it pays.                                                    *)
LEMMA CoveredFills == BookInv /\ ReservationInv => ReservationsCoverFills
<1> USE DEF BookInv, VaultInv
<1> SUFFICES ASSUME BookInv, ReservationInv, NEW bn \in Slots,
                    NEW commit_print \in prints, NEW target_print \in prints,
                    Exists(bets[bn]), bets[bn].state = "Pending"
             PROVE  payout(bets[bn].stake, FillOddsFor(bets[bn], commit_print, target_print))
                        <= bets[bn].reserved
  BY DEF ReservationsCoverFills
<1> DEFINE bet == bets[bn]
           params == houses[bet.house].params
           odds == FillOddsFor(bet, commit_print, target_print)
<1>1. /\ params \in HouseParams /\ bet.stake \in Nat /\ bet.reserved \in Nat
      /\ odds \in 0..params.odds_cap
  BY QuoteFact
<1>2. params.odds_cap \in Nat /\ odds \in Nat /\ odds <= params.odds_cap
  BY <1>1 DEF HouseParams
<1>3. /\ AtOdds(bet.stake, odds) <= AtOdds(bet.stake, params.odds_cap)
      /\ AtOdds(bet.stake, odds) \in Nat /\ AtOdds(bet.stake, params.odds_cap) \in Nat
  <2> HIDE DEF odds, params, bet
  <2> QED
    BY <1>1, <1>2, AtOddsMonotone, AtOddsFact
<1>4. AtOdds(bet.stake, params.odds_cap) <= bet.reserved
  BY DEF ReservationInv, CoversCap, reserved
<1> QED
  BY <1>1, <1>3, <1>4 DEF payout

(* While no owner raises odds_cap, every pending bet's reservation covers  *)
(* the cap of its house.                                                   *)
LEMMA ReservationInvHolds == Spec /\ [][CapNotRaised]_vars => []ReservationInv
<1>1. Init => ReservationInv
  BY DEF Init, ReservationInv, Slots, Exists
<1>2. /\ BookInv /\ BookInv' /\ ReservationInv /\ [Next]_vars /\ [CapNotRaised]_vars
      => ReservationInv'
  BY NextReservation
<1> QED
  BY <1>1, <1>2, BookInvHolds, PTL DEF Spec

(* "Fills can never fail economically" (commit.rs:98, fill.rs:161), of the *)
(* reservation and while no owner raises odds_cap: whatever two prints a   *)
(* keeper brings, and however spread, skew and book have moved since the   *)
(* commit, the payout is within what was reserved for the bet.             *)
THEOREM ReservationsAlwaysCoverFills ==
    Spec /\ [][CapNotRaised]_vars => []ReservationsCoverFills
  BY CoveredFills, BookInvHolds, ReservationInvHolds, PTL

-----------------------------------------------------------------------------
(* Fills *)

(* What bet stakes on the book of house h and fixture f, filled or not. *)
Staked(bet, h, f) == IF OnBook(bet, h, f) THEN bet.stake ELSE 0

(* What 64 bits have to hold for a fill to add up: on every book the       *)
(* stakes of its live bets, and the widening its whole liability would     *)
(* call for.  An owner who takes the stakes of a balanced book and bets    *)
(* them again, or sets a coefficient out of proportion, can outgrow both.  *)
StakesFit ==
    \A h \in Houses, f \in Fixtures :
        SumFunction([bn \in Slots |-> Staked(bets[bn], h, f)]) <= MaxU64
SkewsFit ==
    \A h \in Houses, f \in Fixtures, o \in Outcomes : Exists(houses[h]) =>
        houses[h].params.skew_coeff_bps * BookOf(h, f).liability[o]
            <= MaxU64 * houses[h].params.max_risk_per_fixture

(* The stake of a pending bet still fits on its book.                      *)
LEMMA StakeFits ==
    ASSUME BookInv, StakesFit, NEW bn \in Slots,
           Exists(bets[bn]), bets[bn].state = "Pending"
    PROVE  BookOf(bets[bn].house, bets[bn].fixture_id).stakes_collected + bets[bn].stake
                \in U64
<1> DEFINE bet == bets[bn]
           h == bet.house
           f == bet.fixture_id
           All == [other \in Slots |-> Staked(bets[other], h, f)]
           With == [StakesOn(h, f) EXCEPT ![bn] = bet.stake]
<1> USE DEF BookInv, VaultInv
<1>1. /\ bet \in Bet /\ h \in Houses /\ f \in Fixtures
      /\ bet.stake \in Nat /\ OnBook(bet, h, f)
  <2>1. bet \in Bet
    BY DEF TypeOK, Slots, Exists
  <2> QED
    BY <2>1, ConstantsAssumption DEF Bet, U64, OnBook
<1>2. \A other \in Slots : bets[other] \in Bet \cup {NoAccount}
  BY DEF TypeOK, Slots
<1>3. StakesOn(h, f) \in [Slots -> Nat] /\ With \in [Slots -> Nat]
  BY <1>1, PartsType
<1>4. ASSUME NEW other \in Slots
      PROVE  All[other] \in Nat /\ With[other] <= All[other]
  <2>1. bets[other] # NoAccount => bets[other].stake \in Nat
    BY <1>2, ConstantsAssumption DEF Bet, U64
  <2>2. StakesOn(h, f)[other] = Collected(bets[other], h, f)
    BY DEF StakesOn, Slots
  <2>3. /\ Staked(bets[other], h, f) \in Nat
        /\ Collected(bets[other], h, f) <= Staked(bets[other], h, f)
    BY <2>1 DEF Staked, Collected, OnBook, Exists
  <2>4. With[other] = IF other = bn THEN bet.stake ELSE Collected(bets[other], h, f)
    BY <1>3, <2>2
  <2>5. Staked(bet, h, f) = bet.stake
    BY <1>1 DEF Staked
  <2>6. bet.stake <= bet.stake
    BY <1>1
  <2> HIDE DEF With, h, f
  <2> QED
    BY <2>3, <2>4, <2>5, <2>6
<1>5. StakesOn(h, f)[bn] = 0 /\ With[bn] = bet.stake
  <2>1. StakesOn(h, f)[bn] = Collected(bet, h, f)
    BY DEF StakesOn, Slots
  <2> QED
    BY <1>3, <2>1 DEF Collected
<1>6. SumFunction(With) = SumFunction(StakesOn(h, f)) + bet.stake
  <2>1. \A other \in Slots : other # bn => With[other] = StakesOn(h, f)[other]
    BY <1>3
  <2>2. SumFunction(With) = SumFunction(StakesOn(h, f)) - StakesOn(h, f)[bn] + With[bn]
    BY <1>3, <2>1, PartsChange
  <2>3. SumFunction(StakesOn(h, f)) \in Nat
    BY <1>1, BookType DEF BookMatchesBets
  <2> HIDE DEF With, h, f
  <2> QED
    BY <1>5, <2>2, <2>3
<1>7. SumFunction(With) <= SumFunction(All)
  <2>1. IsFiniteSet(Slots) /\ DOMAIN With = Slots /\ DOMAIN All = Slots
    BY <1>3, FiniteAssumption DEF Slots
  <2>2. \A other \in Slots : All[other] \in Nat /\ With[other] \in Nat /\ With[other] <= All[other]
    BY <1>3, <1>4
  <2> HIDE DEF With, All
  <2> QED
    BY <2>1, <2>2, SumMonotone DEF SumFunction
<1>8. SumFunction(All) <= MaxU64
  BY <1>1 DEF StakesFit
<1>9. /\ BookOf(h, f).stakes_collected \in Nat
      /\ BookOf(h, f).stakes_collected = SumFunction(StakesOn(h, f))
  BY <1>1, BookType DEF BookMatchesBets
<1>10. SumFunction(All) \in Nat
  <2>1. IsFiniteSet(Slots) /\ DOMAIN All = Slots /\ \A other \in Slots : All[other] \in Nat
    BY <1>4, FiniteAssumption DEF Slots
  <2> HIDE DEF All
  <2> QED
    BY <2>1, SumNat DEF SumFunction
<1> HIDE DEF With, All, h, f
<1>11. BookOf(h, f).stakes_collected + bet.stake \in U64
  BY <1>1, <1>6, <1>7, <1>8, <1>9, <1>10, ConstantsAssumption DEF U64
<1> QED
  BY <1>11 DEF h, f

(* Whatever outcome a bet widens the quote of, the skew fits.              *)
LEMMA SkewFits ==
    ASSUME NEW k \in Nat, NEW L \in [Outcomes -> Nat], NEW o \in Outcomes,
           NEW risk \in Nat, NEW top \in Nat, top >= L[o],
           k * top <= MaxU64 * risk
    PROVE  skew_bps(k, L, o, risk) \in U64
<1>1. MaxU64 \in Nat
  BY ConstantsAssumption
<1>2. skew_bps(k, L, o, risk) \in Nat
  BY SkewFact
<1> DEFINE heavy == SatSub(L[o], Lightest(L))
<1>3. heavy \in Nat /\ heavy <= top
  BY LightestIs DEF SatSub
<1> HIDE DEF heavy
<1>4. k * heavy \in Nat /\ k * top \in Nat /\ k * heavy <= k * top
  BY <1>3, TimesFact, TimesMonotone
<1>5. CASE risk = 0
  BY <1>1, <1>5 DEF skew_bps, U64
<1>6. CASE risk # 0
  <2>1. k * heavy <= MaxU64 * risk /\ MaxU64 * risk \in Nat
    BY <1>1, <1>4, TimesFact
  <2>2. PICK x \in Nat : x = k * heavy
    BY <1>4
  <2>3. x \div risk <= MaxU64
    BY <1>1, <1>6, <2>1, <2>2, QuotientAtMost
  <2>4. skew_bps(k, L, o, risk) = x \div risk
    BY <1>6, <2>2 DEF skew_bps, heavy
  <2> QED
    BY <1>1, <1>2, <2>3, <2>4 DEF U64
<1> QED
  BY <1>5, <1>6

(* With both, fill_bet passes every check it makes of a pending bet and    *)
(* two prints that qualify for it.                                         *)
LEMMA PendingCanFill ==
    ASSUME BookInv, SolventInv, ReservationInv, StakesFit, SkewsFit,
           NEW bettor \in Bettors, NEW nonce \in Nonces, NEW cranker_token \in RewardAccounts,
           NEW commit_print \in prints, NEW target_print \in prints,
           InState(bettor, nonce, "Pending"),
           Qualify(bets[<<bettor, nonce>>], commit_print, target_print)
    PROVE  CanFill(cranker_token, bettor, nonce, commit_print, target_print)
<1> DEFINE bn == <<bettor, nonce>>
           bet == bets[bn]
           h == bet.house
           f == bet.fixture_id
           o == bet.outcome
           book == exposures[<<h, f>>]
           pays == payout(bet.stake, FillOddsFor(bet, commit_print, target_print))
           total == Resynced(h, FilledBook(book, bet, pays))
<1> USE DEF BookInv, VaultInv, SolventInv, EscrowInv
<1>1. bn \in Slots /\ Exists(bet) /\ bet.state = "Pending"
  BY DEF InState, IsBet, Slots
<1>2. /\ bet \in Bet /\ h \in Houses /\ f \in Fixtures /\ o \in Outcomes
      /\ bet.stake \in Nat /\ bet.reserved \in Nat
  <2>1. bet \in Bet
    BY <1>1 DEF TypeOK, Slots, Exists
  <2> QED
    BY <2>1, ConstantsAssumption DEF Bet, U64
<1>3. FillPasses(bet)
  BY <1>1, PendingFillPasses
<1>4. /\ Exists(config) /\ Exists(houses[h]) /\ Exists(book)
      /\ book = BookOf(h, f) /\ bet.reserved <= book.liability[o]
  BY <1>3 DEF FillPasses, Loaded, BookOf
<1>5. pays \in 0..bet.reserved
  <2>1. pays <= bet.reserved
    BY <1>1, CoveredFills DEF ReservationsCoverFills
  <2>2. pays \in Nat
    BY <1>1, <1>2, <1>4, PaysType
  <2> HIDE DEF pays, bet
  <2> QED
    BY <1>2, <2>1, <2>2
<1>6. total \in U64 /\ token[h] + bet.stake >= total
  BY <1>3, <1>5 DEF FillPasses
<1>7. book.stakes_collected + bet.stake \in U64
  BY <1>1, <1>4, StakeFits
<1>8. SkewFor(bet, houses[h], book) \in U64
  <2> DEFINE L == [book.liability EXCEPT ![o] = @ - bet.reserved]
             params == houses[h].params
  <2>1. book.liability \in [Outcomes -> Nat]
    <3>1. BookOf(h, f) \in FixtureExposure
      BY <1>2, BookType
    <3> QED
      BY <1>4, <3>1, ConstantsAssumption DEF FixtureExposure, U64
  <2>2. L \in [Outcomes -> Nat] /\ book.liability[o] >= L[o] /\ book.liability[o] \in Nat
    BY <1>2, <1>4, <2>1
  <2>3. params \in HouseParams
    BY <1>2, <1>4 DEF TypeOK, Exists, House
  <2>4. params.skew_coeff_bps \in Nat /\ params.max_risk_per_fixture \in Nat
    BY <2>3 DEF HouseParams
  <2>5. params.skew_coeff_bps * book.liability[o] <= MaxU64 * params.max_risk_per_fixture
    BY <1>2, <1>4 DEF SkewsFit
  <2>6. skew_bps(params.skew_coeff_bps, L, o, params.max_risk_per_fixture) \in U64
    <3> HIDE DEF L, params, book, o
    <3> QED
      BY <1>2, <2>2, <2>4, <2>5, SkewFits
  <2> QED
    BY <2>6 DEF SkewFor
<1>9. FillPayments(bet, cranker_token)[h] >= token[h] + bet.stake
  BY <1>2, <1>3, <1>4, FillPaysHouse DEF FillPasses, TypeOK, Exists
<1>10. VaultCovers(h, FillPayments(bet, cranker_token), total)
  <2>1. /\ token[h] \in Nat /\ total \in Nat
        /\ FillPayments(bet, cranker_token)[h] \in Nat
    <3>1. FillPayments(bet, cranker_token) \in [TokenAccounts -> Nat] /\ h \in TokenAccounts
      BY <1>2, <1>3, <1>4, AccountsFact, FillPaymentsFact DEF FillPasses, TypeOK, Exists
    <3>2. total \in Nat
      BY <1>6, ConstantsAssumption DEF U64
    <3> QED
      BY <1>2, <3>1, <3>2, AccountsFact DEF TypeOK
  <2> HIDE DEF total, h, bet
  <2> QED
    BY <1>2, <1>6, <1>9, <2>1 DEF VaultCovers
<1> QED
  BY <1>3, <1>4, <1>5, <1>6, <1>7, <1>8, <1>10 DEF CanFill, FillPasses

(* "Fills can never fail economically" (commit.rs:98, fill.rs:161), of     *)
(* every check fill_bet makes: while no reward and no odds_cap is raised   *)
(* and the sums stay within 64 bits, two qualifying prints are all that    *)
(* the fill of a pending bet takes, whatever params, books and vaults went *)
(* through since its commit.                                               *)
THEOREM FillsNeverFail ==
    /\ Spec
    /\ [][RewardNotRaised]_vars /\ [][CapNotRaised]_vars
    /\ []StakesFit /\ []SkewsFit
    => []FillNeverFails
<1>1. BookInv /\ SolventInv /\ ReservationInv /\ StakesFit /\ SkewsFit => FillNeverFails
  BY PendingCanFill DEF FillNeverFails
<1> QED
  BY <1>1, BookInvHolds, SolventInvHolds, ReservationInvHolds, PTL

=============================================================================
