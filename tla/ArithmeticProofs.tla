-------------------------- MODULE ArithmeticProofs --------------------------
(***************************************************************************)
(* Facts about the arithmetic of math.rs, for every value of its           *)
(* arguments, and about sums over finite sets.                             *)
(***************************************************************************)
EXTENDS BthMath, Functions, FiniteSetTheorems, TLAPS

(* Dividing by a positive number rounds down. *)
LEMMA DivFact ==
    ASSUME NEW a \in Nat, NEW d \in Nat \ {0}
    PROVE  /\ a \div d \in Nat
           /\ a \div d <= a
  OBVIOUS

(* Products of naturals are natural. *)
LEMMA TimesFact ==
    ASSUME NEW a \in Nat, NEW b \in Nat
    PROVE  a * b \in Nat
  OBVIOUS

(* A quotient is at most k when the dividend is at most k times the divisor. *)
LEMMA QuotientAtMost ==
    ASSUME NEW a \in Nat, NEW d \in Nat \ {0}, NEW k \in Nat, a <= k * d
    PROVE  a \div d <= k
  OBVIOUS

(* A product of naturals is at most the product with a larger factor. *)
LEMMA TimesMonotone ==
    ASSUME NEW a \in Nat, NEW k \in Nat, NEW m \in Nat, k <= m
    PROVE  a * k <= a * m
  OBVIOUS

(* A discount never raises a price. *)
LEMMA Discounted ==
    ASSUME NEW a \in Nat, NEW k \in 0..BPS
    PROVE  (a * k) \div BPS \in Nat /\ (a * k) \div BPS <= a
<1>1. a * k <= a * 10000 /\ a * k \in Nat
  BY TimesMonotone, TimesFact DEF BPS
<1>2. \A x \in Nat : x <= a * 10000 => x \div 10000 <= a
  OBVIOUS
<1>3. PICK x \in Nat : x = a * k
  BY <1>1
<1>4. x \div 10000 \in Nat /\ x \div 10000 <= a
  BY <1>1, <1>2, <1>3
<1> QED
  BY <1>3, <1>4 DEF BPS

(* The heaviest liability of a book bounds the others and is one of them. *)
LEMMA HeaviestIs ==
    ASSUME NEW L \in [Outcomes -> Nat]
    PROVE  /\ Heaviest(L) \in Nat
           /\ \A o \in Outcomes : L[o] <= Heaviest(L)
           /\ \E o \in Outcomes : L[o] = Heaviest(L)
<1> DEFINE S == {L[o] : o \in Outcomes}
<1>1. S = {L[0], L[1], L[2]}
  BY DEF Outcomes
<1>2. \E x \in S : \A y \in S : x >= y
  <2>1. L[0] \in Nat /\ L[1] \in Nat /\ L[2] \in Nat
    BY DEF Outcomes
  <2> QED
    BY <1>1, <2>1
<1>3. Max(S) \in S /\ \A y \in S : Max(S) >= y
  BY <1>2 DEF Max
<1> QED
  BY <1>3 DEF Heaviest, Outcomes

(* The lightest liability of a book is one of its liabilities. *)
LEMMA LightestIs ==
    ASSUME NEW L \in [Outcomes -> Nat]
    PROVE  Lightest(L) \in Nat
<1> DEFINE S == {L[o] : o \in Outcomes}
<1>1. S = {L[0], L[1], L[2]}
  BY DEF Outcomes
<1>2. \E x \in S : \A y \in S : x <= y
  <2>1. L[0] \in Nat /\ L[1] \in Nat /\ L[2] \in Nat
    BY DEF Outcomes
  <2>2. \E x \in {L[0], L[1], L[2]} : \A y \in {L[0], L[1], L[2]} : x <= y
    BY <2>1
  <2> QED
    BY <1>1, <2>2
<1>3. Min(S) \in S
  BY <1>2 DEF Min
<1> QED
  BY <1>3 DEF Lightest, Outcomes

(* Lowering liabilities at unchanged stakes never raises the lock of a     *)
(* book: what lets refund_commit leave the vault unchecked.                *)
LEMMA LockMonotone ==
    ASSUME NEW L \in [Outcomes -> Nat], NEW M \in [Outcomes -> Nat], NEW c \in Nat,
           \A o \in Outcomes : M[o] <= L[o]
    PROVE  locked(M, c) <= locked(L, c)
<1>1. PICK o \in Outcomes : M[o] = Heaviest(M)
  BY HeaviestIs
<1>2. L[o] <= Heaviest(L) /\ Heaviest(L) \in Nat /\ Heaviest(M) \in Nat
  BY HeaviestIs
<1>3. Heaviest(M) <= Heaviest(L)
  BY <1>1, <1>2
<1> QED
  BY <1>2, <1>3 DEF locked, SatSub

(* What a stake pays is a natural number. *)
LEMMA AtOddsFact ==
    ASSUME NEW s \in Nat, NEW o \in Nat
    PROVE  AtOdds(s, o) \in Nat
<1>1. s * o \in Nat
  BY TimesFact
<1> QED
  BY <1>1, DivFact DEF AtOdds, ODDS_SCALE

(* The quote of a fair price is no better than the price. *)
LEMMA EffOddsFact ==
    ASSUME NEW fair \in Nat, NEW spread \in Nat, NEW skew \in Nat
    PROVE  eff_odds(fair, spread, skew) \in Nat /\ eff_odds(fair, spread, skew) <= fair
<1>1. BPS - Lesser(spread + skew, BPS) \in 0..BPS
  BY DEF BPS, Lesser
<1> QED
  BY <1>1, Discounted DEF eff_odds

(* Odds of a fill are no better than either proven price.                  *)
LEMMA FillOddsFact ==
    ASSUME NEW c \in Nat, NEW t \in Nat, NEW spread \in Nat, NEW skew \in Nat,
           NEW cap \in Nat
    PROVE  /\ fill_odds(c, t, spread, skew, cap) \in Nat
           /\ fill_odds(c, t, spread, skew, cap) <= c
           /\ fill_odds(c, t, spread, skew, cap) <= t
           /\ fill_odds(c, t, spread, skew, cap) <= cap
<1>1. Lesser(c, t) \in Nat /\ Lesser(c, t) <= c /\ Lesser(c, t) <= t
  BY DEF Lesser
<1>2. eff_odds(Lesser(c, t), spread, skew) \in Nat
      /\ eff_odds(Lesser(c, t), spread, skew) <= Lesser(c, t)
  BY <1>1, EffOddsFact
<1> QED
  BY <1>1, <1>2 DEF fill_odds, Lesser

(* The skew of a book is a natural number. *)
LEMMA SkewFact ==
    ASSUME NEW coeff \in Nat, NEW L \in [Outcomes -> Nat], NEW o \in Outcomes,
           NEW risk \in Nat
    PROVE  skew_bps(coeff, L, o, risk) \in Nat
<1>1. SatSub(L[o], Lightest(L)) \in Nat
  BY LightestIs DEF SatSub
<1>2. coeff * SatSub(L[o], Lightest(L)) \in Nat
  BY <1>1, TimesFact
<1> QED
  BY <1>2, DivFact DEF skew_bps

-----------------------------------------------------------------------------
(* Sums over finite sets: what the invariants that count tokens rest on.   *)
(* The community modules define such a sum by taking out one chosen        *)
(* element after another.  Shown here is that any element may be taken     *)
(* out, so that a step which changes one element changes the sum by the    *)
(* difference.  Each induction over subsets is by a minimal counterexample.*)

AnyOf(s) == CHOOSE x \in s : TRUE

(* g gives every subset of S its sum, by the definition of the fold. *)
SumRec(g, F, S) ==
    g = [s \in SUBSET S |-> IF s = {} THEN 0 ELSE F[AnyOf(s)] + g[s \ {AnyOf(s)}]]

(* The fold of the community modules, unfolded once. *)
LEMMA SumIs ==
    ASSUME NEW F, NEW S
    PROVE  SumFunctionOnSet(F, S) = (CHOOSE g : SumRec(g, F, S))[S]
  BY DEF SumFunctionOnSet, FoldFunctionOnSet, MapThenFoldSet, SumRec, AnyOf

(* A non-empty set of subsets of a finite set has a minimal element: one   *)
(* with no proper subset in the set.                                       *)
LEMMA MinimalSubset ==
    ASSUME NEW S, IsFiniteSet(S), NEW B \in SUBSET (SUBSET S), B # {}
    PROVE  \E T \in B : \A U \in B : U \subseteq T => U = T
<1>1. IsWellFoundedOn(StrictSubsetOrdering(S), SUBSET S)
  BY FS_StrictSubsetOrderingWellFounded, FS_FiniteSubsetsOfFinite
<1>2. PICK T \in B : \A U \in B : ~ (<<U, T>> \in StrictSubsetOrdering(S))
  BY <1>1, WFMin
<1>3. ASSUME NEW U \in B, U \subseteq T, U # T
      PROVE  FALSE
  <2>1. <<U, T>> \in (SUBSET S) \X (SUBSET S)
    OBVIOUS
  <2>2. <<U, T>> \in StrictSubsetOrdering(S)
    BY <1>3, <2>1 DEF StrictSubsetOrdering
  <2> QED
    BY <1>2, <2>2
<1> QED
  BY <1>3

(* A set of naturals has a least element. *)
LEMMA LeastNatural ==
    ASSUME NEW N \in SUBSET Nat, N # {}
    PROVE  \E m \in N : \A n \in N : m <= n
<1>1. PICK top \in N : TRUE
  OBVIOUS
<1> DEFINE S == 0..top
           B == {0..k : k \in {n \in N : n <= top}}
<1>2. B \in SUBSET (SUBSET S) /\ B # {}
  OBVIOUS
<1>3. IsFiniteSet(S)
  BY FS_Interval
<1>4. PICK T \in B : \A U \in B : U \subseteq T => U = T
  <2> HIDE DEF B, S
  <2> QED
    BY <1>2, <1>3, MinimalSubset
<1>5. PICK m \in N : m <= top /\ T = 0..m
  OBVIOUS
<1>6. ASSUME NEW n \in N, n < m
      PROVE  FALSE
  <2>1. n <= top /\ 0..n \subseteq 0..m
    BY <1>5, <1>6
  <2>2. 0..n \in B
    BY <2>1
  <2>3. 0..n = 0..m
    <3> HIDE DEF B
    <3> QED
      BY <1>4, <1>5, <2>1, <2>2
  <2>4. m \in 0..m /\ m \notin 0..n
    BY <1>6
  <2> QED
    BY <2>3, <2>4
<1> QED
  BY <1>6

(* The chosen element is one of the set's. *)
LEMMA AnyOfIn == \A s : s # {} => AnyOf(s) \in s
  BY DEF AnyOf

(* What such a g says of one subset. *)
LEMMA SumRecAt ==
    ASSUME NEW F, NEW S, NEW g, SumRec(g, F, S), NEW s \in SUBSET S
    PROVE  g[s] = IF s = {} THEN 0 ELSE F[AnyOf(s)] + g[s \ {AnyOf(s)}]
<1> DEFINE rhs(h, u) == IF u = {} THEN 0 ELSE F[AnyOf(u)] + h[u \ {AnyOf(u)}]
<1>1. g = [u \in SUBSET S |-> rhs(g, u)]
  BY DEF SumRec
<1> HIDE DEF rhs
<1>2. g[s] = rhs(g, s)
  BY <1>1
<1> QED
  BY <1>2 DEF rhs

(* Two such functions agree where both are defined. *)
LEMMA SumRecUnique ==
    ASSUME NEW F, NEW S, IsFiniteSet(S), NEW U \in SUBSET S,
           NEW g, SumRec(g, F, S), NEW h, SumRec(h, F, U),
           NEW t \in SUBSET U
    PROVE  g[t] = h[t]
<1> DEFINE B == {s \in SUBSET U : g[s] # h[s]}
<1> SUFFICES ASSUME B # {}
             PROVE  FALSE
  OBVIOUS
<1>1. PICK T \in B : \A s \in B : s \subseteq T => s = T
  <2>1. IsFiniteSet(U)
    BY FS_Subset
  <2>2. B \in SUBSET (SUBSET U)
    OBVIOUS
  <2> HIDE DEF B
  <2> QED
    BY <2>1, <2>2, MinimalSubset
<1>2. T \in SUBSET U /\ T \in SUBSET S /\ g[T] # h[T]
  OBVIOUS
<1>3. g[T] = IF T = {} THEN 0 ELSE F[AnyOf(T)] + g[T \ {AnyOf(T)}]
  BY <1>2, SumRecAt
<1>4. h[T] = IF T = {} THEN 0 ELSE F[AnyOf(T)] + h[T \ {AnyOf(T)}]
  BY <1>2, SumRecAt
<1>5. T # {}
  BY <1>2, <1>3, <1>4
<1>6. AnyOf(T) \in T
  BY <1>5, AnyOfIn
<1>7. g[T \ {AnyOf(T)}] = h[T \ {AnyOf(T)}]
  BY <1>1, <1>2, <1>6
<1> QED
  BY <1>2, <1>3, <1>4, <1>7

(* On a finite set there is such a function. *)
LEMMA SumRecExists ==
    ASSUME NEW F, NEW S, IsFiniteSet(S)
    PROVE  \E g : SumRec(g, F, S)
<1> DEFINE B == {s \in SUBSET S : ~ \E g : SumRec(g, F, s)}
<1> SUFFICES ASSUME B # {}
             PROVE  FALSE
  OBVIOUS
<1>1. PICK T \in B : \A s \in B : s \subseteq T => s = T
  <2>1. B \in SUBSET (SUBSET S)
    OBVIOUS
  <2> HIDE DEF B
  <2> QED
    BY <2>1, MinimalSubset
<1>2. T \in SUBSET S /\ IsFiniteSet(T) /\ ~ \E g : SumRec(g, F, T)
  <2>1. T \in SUBSET S /\ ~ \E g : SumRec(g, F, T)
    OBVIOUS
  <2> HIDE DEF B
  <2> QED
    BY <2>1, FS_Subset
<1> DEFINE of(U) == CHOOSE g : SumRec(g, F, U)
           rhs(h, s) == IF s = {} THEN 0 ELSE F[AnyOf(s)] + h[s \ {AnyOf(s)}]
           below(s) == IF s = {} THEN 0
                       ELSE F[AnyOf(s)] + of(s \ {AnyOf(s)})[s \ {AnyOf(s)}]
           new == [s \in SUBSET T |-> below(s)]
<1>3. ASSUME NEW U \in SUBSET T, U # T
      PROVE  SumRec(of(U), F, U)
  <2>1. U \in SUBSET S /\ U \notin B
    BY <1>1, <1>2, <1>3
  <2>2. \E g : SumRec(g, F, U)
    BY <2>1
  <2> QED
    BY <2>2
<1> HIDE DEF B
<1>4. ASSUME NEW s \in SUBSET T
      PROVE  below(s) = rhs(new, s)
  <2>1. CASE s = {}
    BY <2>1
  <2>2. CASE s # {}
    <3> DEFINE u == s \ {AnyOf(s)}
    <3>1. u \in SUBSET T /\ u # T
      BY <2>2, AnyOfIn
    <3>2. new[u] = of(u)[u]
      <4>1. SumRec(of(u), F, u)
        BY <1>3, <3>1
      <4> HIDE DEF of, u
      <4>2. of(u)[u] = IF u = {} THEN 0 ELSE F[AnyOf(u)] + of(u)[u \ {AnyOf(u)}]
        BY <4>1, SumRecAt
      <4>3. ASSUME u # {}
            PROVE  of(u)[u \ {AnyOf(u)}] = of(u \ {AnyOf(u)})[u \ {AnyOf(u)}]
        <5> DEFINE v == u \ {AnyOf(u)}
        <5>1. v \in SUBSET u /\ v \in SUBSET T /\ v # T
          BY <3>1, <4>3, AnyOfIn
        <5>2. SumRec(of(v), F, v)
          BY <1>3, <5>1
        <5>3. IsFiniteSet(u)
          BY <1>2, <3>1, FS_Subset
        <5> HIDE DEF v
        <5>4. v \in SUBSET v
          OBVIOUS
        <5>5. of(u)[v] = of(v)[v]
          BY <4>1, <5>1, <5>2, <5>3, <5>4, SumRecUnique
        <5> QED
          BY <5>5 DEF v
      <4>4. new[u] = below(u)
        BY <3>1
      <4> QED
        BY <4>2, <4>3, <4>4
    <3> HIDE DEF new, of
    <3>3. rhs(new, s) = F[AnyOf(s)] + new[u]
      BY <2>2
    <3>4. below(s) = F[AnyOf(s)] + of(u)[u]
      BY <2>2
    <3> QED
      BY <3>2, <3>3, <3>4
  <2> QED
    BY <2>1, <2>2
<1> HIDE DEF below
<1>5. new = [s \in SUBSET T |-> rhs(new, s)]
  BY <1>4
<1>6. SumRec(new, F, T)
  <2> HIDE DEF new
  <2> QED
    BY <1>5 DEF SumRec
<1> QED
  BY <1>2, <1>6

-----------------------------------------------------------------------------
(* The sum itself *)

(* Nothing sums to 0, and any other finite set to the value of its chosen  *)
(* element and the sum of the rest.                                        *)
LEMMA SumAny ==
    ASSUME NEW F, NEW S, IsFiniteSet(S)
    PROVE  SumFunctionOnSet(F, S) =
                IF S = {} THEN 0
                ELSE F[AnyOf(S)] + SumFunctionOnSet(F, S \ {AnyOf(S)})
<1> DEFINE of(U) == CHOOSE g : SumRec(g, F, U)
<1>1. SumRec(of(S), F, S)
  BY SumRecExists
<1>2. SumFunctionOnSet(F, S) = of(S)[S]
  BY SumIs
<1> HIDE DEF of
<1>3. CASE S = {}
  BY <1>1, <1>2, <1>3, SumRecAt
<1>4. CASE S # {}
  <2> DEFINE T == S \ {AnyOf(S)}
  <2>1. T \in SUBSET S /\ IsFiniteSet(T)
    BY FS_RemoveElement
  <2>2. of(S)[S] = F[AnyOf(S)] + of(S)[T]
    <3>1. S \in SUBSET S
      OBVIOUS
    <3> QED
      BY <1>1, <1>4, <3>1, SumRecAt
  <2> HIDE DEF T
  <2>3. SumRec(of(T), F, T) /\ SumFunctionOnSet(F, T) = of(T)[T]
    BY <2>1, SumRecExists, SumIs DEF of
  <2>4. of(S)[T] = of(T)[T]
    <3>1. T \in SUBSET T
      OBVIOUS
    <3> QED
      BY <1>1, <2>1, <2>3, <3>1, SumRecUnique
  <2> QED
    BY <1>2, <1>4, <2>2, <2>3, <2>4 DEF T
<1> QED
  BY <1>3, <1>4

(* A sum of naturals is a natural. *)
LEMMA SumNat ==
    ASSUME NEW S, IsFiniteSet(S), NEW F, \A x \in S : F[x] \in Nat
    PROVE  SumFunctionOnSet(F, S) \in Nat
<1> DEFINE B == {T \in SUBSET S : SumFunctionOnSet(F, T) \notin Nat}
<1> SUFFICES ASSUME B # {}
             PROVE  FALSE
  OBVIOUS
<1>1. PICK T \in B : \A s \in B : s \subseteq T => s = T
  <2>1. B \in SUBSET (SUBSET S)
    OBVIOUS
  <2> HIDE DEF B
  <2> QED
    BY <2>1, MinimalSubset
<1>2. T \in SUBSET S /\ SumFunctionOnSet(F, T) \notin Nat
  OBVIOUS
<1>3. SumFunctionOnSet(F, T) =
        IF T = {} THEN 0 ELSE F[AnyOf(T)] + SumFunctionOnSet(F, T \ {AnyOf(T)})
  <2> HIDE DEF B
  <2>1. IsFiniteSet(T)
    BY <1>2, FS_Subset
  <2> QED
    BY <2>1, SumAny
<1>4. T # {}
  BY <1>2, <1>3
<1>5. AnyOf(T) \in T
  BY <1>4, AnyOfIn
<1>6. SumFunctionOnSet(F, T \ {AnyOf(T)}) \in Nat
  BY <1>1, <1>2, <1>5
<1>7. F[AnyOf(T)] \in Nat
  BY <1>2, <1>5
<1> QED
  BY <1>2, <1>3, <1>4, <1>6, <1>7

(* Any element may be taken out. *)
LEMMA SumTake ==
    ASSUME NEW S, IsFiniteSet(S), NEW F, \A x \in S : F[x] \in Nat, NEW y \in S
    PROVE  SumFunctionOnSet(F, S) = F[y] + SumFunctionOnSet(F, S \ {y})
<1> DEFINE B == {T \in SUBSET S : \E z \in T :
                    SumFunctionOnSet(F, T) # F[z] + SumFunctionOnSet(F, T \ {z})}
<1> SUFFICES ASSUME B # {}
             PROVE  FALSE
  OBVIOUS
<1>1. PICK T \in B : \A s \in B : s \subseteq T => s = T
  <2>1. B \in SUBSET (SUBSET S)
    OBVIOUS
  <2> HIDE DEF B
  <2> QED
    BY <2>1, MinimalSubset
<1>2. T \in SUBSET S
  OBVIOUS
<1>3. PICK z \in T : SumFunctionOnSet(F, T) # F[z] + SumFunctionOnSet(F, T \ {z})
  OBVIOUS
<1> DEFINE c == AnyOf(T)
<1>4. c \in T
  BY <1>3, AnyOfIn
<1> HIDE DEF c
<1>5. ASSUME NEW U \in SUBSET T, U # T, NEW u \in U
      PROVE  SumFunctionOnSet(F, U) = F[u] + SumFunctionOnSet(F, U \ {u})
  <2>1. U \in SUBSET S /\ U \notin B
    BY <1>1, <1>2, <1>5
  <2> QED
    BY <2>1
<1> HIDE DEF B
<1>6. /\ IsFiniteSet(T) /\ IsFiniteSet(T \ {z}) /\ IsFiniteSet(T \ {c})
      /\ IsFiniteSet((T \ {c}) \ {z})
  <2>1. IsFiniteSet(T)
    BY <1>2, FS_Subset
  <2>2. IsFiniteSet(T \ {c}) /\ IsFiniteSet(T \ {z})
    BY <2>1, FS_RemoveElement
  <2> QED
    BY <2>1, <2>2, FS_RemoveElement
<1>7. SumFunctionOnSet(F, T) = F[c] + SumFunctionOnSet(F, T \ {c})
  BY <1>3, <1>6, SumAny DEF c
<1>8. z # c
  BY <1>3, <1>7
<1>9. SumFunctionOnSet(F, T \ {c}) = F[z] + SumFunctionOnSet(F, (T \ {c}) \ {z})
  <2>1. T \ {c} \in SUBSET T /\ T \ {c} # T /\ z \in T \ {c}
    BY <1>4, <1>8
  <2> QED
    BY <1>5, <2>1
<1>10. SumFunctionOnSet(F, T \ {z}) = F[c] + SumFunctionOnSet(F, (T \ {c}) \ {z})
  <2>1. T \ {z} \in SUBSET T /\ T \ {z} # T /\ c \in T \ {z}
    BY <1>4, <1>8
  <2>2. (T \ {z}) \ {c} = (T \ {c}) \ {z}
    OBVIOUS
  <2> QED
    BY <1>5, <2>1, <2>2
<1>11. F[c] \in Nat /\ F[z] \in Nat /\ SumFunctionOnSet(F, (T \ {c}) \ {z}) \in Nat
  <2>1. \A x \in (T \ {c}) \ {z} : F[x] \in Nat
    BY <1>2
  <2> QED
    BY <1>2, <1>4, <1>6, <2>1, SumNat
<1> QED
  BY <1>3, <1>7, <1>9, <1>10, <1>11

(* Functions that agree on a set have the same sum over it. *)
LEMMA SumSame ==
    ASSUME NEW S, IsFiniteSet(S), NEW F, NEW G, \A x \in S : F[x] = G[x]
    PROVE  SumFunctionOnSet(F, S) = SumFunctionOnSet(G, S)
<1> DEFINE B == {T \in SUBSET S : SumFunctionOnSet(F, T) # SumFunctionOnSet(G, T)}
<1> SUFFICES ASSUME B # {}
             PROVE  FALSE
  OBVIOUS
<1>1. PICK T \in B : \A s \in B : s \subseteq T => s = T
  <2>1. B \in SUBSET (SUBSET S)
    OBVIOUS
  <2> HIDE DEF B
  <2> QED
    BY <2>1, MinimalSubset
<1>2. T \in SUBSET S /\ SumFunctionOnSet(F, T) # SumFunctionOnSet(G, T)
  OBVIOUS
<1>3. /\ SumFunctionOnSet(F, T) =
            IF T = {} THEN 0 ELSE F[AnyOf(T)] + SumFunctionOnSet(F, T \ {AnyOf(T)})
      /\ SumFunctionOnSet(G, T) =
            IF T = {} THEN 0 ELSE G[AnyOf(T)] + SumFunctionOnSet(G, T \ {AnyOf(T)})
  <2> HIDE DEF B
  <2>1. IsFiniteSet(T)
    BY <1>2, FS_Subset
  <2> QED
    BY <2>1, SumAny
<1>4. AnyOf(T) \in T /\ F[AnyOf(T)] = G[AnyOf(T)]
  <2>1. T # {}
    BY <1>2, <1>3
  <2>2. AnyOf(T) \in T
    BY <2>1, AnyOfIn
  <2> QED
    BY <1>2, <2>2
<1>5. SumFunctionOnSet(F, T \ {AnyOf(T)}) = SumFunctionOnSet(G, T \ {AnyOf(T)})
  BY <1>1, <1>2, <1>4
<1> QED
  BY <1>2, <1>3, <1>4, <1>5

(* Changing one element changes the sum by the difference. *)
LEMMA SumChange ==
    ASSUME NEW S, IsFiniteSet(S), NEW y \in S,
           NEW F, \A x \in S : F[x] \in Nat, NEW G, \A x \in S : G[x] \in Nat,
           \A x \in S : x # y => G[x] = F[x]
    PROVE  SumFunctionOnSet(G, S) = SumFunctionOnSet(F, S) - F[y] + G[y]
<1>1. IsFiniteSet(S \ {y})
  BY FS_RemoveElement
<1>2. SumFunctionOnSet(F, S \ {y}) = SumFunctionOnSet(G, S \ {y})
  <2>1. \A x \in S \ {y} : F[x] = G[x]
    OBVIOUS
  <2> QED
    BY <1>1, <2>1, SumSame
<1>3. SumFunctionOnSet(F, S) = F[y] + SumFunctionOnSet(F, S \ {y})
  BY SumTake
<1>4. SumFunctionOnSet(G, S) = G[y] + SumFunctionOnSet(G, S \ {y})
  BY SumTake
<1>5. SumFunctionOnSet(F, S \ {y}) \in Nat
  <2>1. \A x \in S \ {y} : F[x] \in Nat
    OBVIOUS
  <2> QED
    BY <1>1, <2>1, SumNat
<1> QED
  BY <1>2, <1>3, <1>4, <1>5

(* One element counts for no more than the sum. *)
LEMMA SumAtLeast ==
    ASSUME NEW S, IsFiniteSet(S), NEW F, \A x \in S : F[x] \in Nat, NEW y \in S
    PROVE  F[y] <= SumFunctionOnSet(F, S)
<1>1. SumFunctionOnSet(F, S) = F[y] + SumFunctionOnSet(F, S \ {y})
  BY SumTake
<1>2. SumFunctionOnSet(F, S \ {y}) \in Nat
  <2>1. IsFiniteSet(S \ {y}) /\ \A x \in S \ {y} : F[x] \in Nat
    BY FS_RemoveElement
  <2> QED
    BY <2>1, SumNat
<1> QED
  BY <1>1, <1>2

(* Zeros sum to zero. *)
LEMMA SumZero ==
    ASSUME NEW S, IsFiniteSet(S), NEW F, \A x \in S : F[x] = 0
    PROVE  SumFunctionOnSet(F, S) = 0
<1> DEFINE B == {T \in SUBSET S : SumFunctionOnSet(F, T) # 0}
<1> SUFFICES ASSUME B # {}
             PROVE  FALSE
  OBVIOUS
<1>1. PICK T \in B : \A s \in B : s \subseteq T => s = T
  <2>1. B \in SUBSET (SUBSET S)
    OBVIOUS
  <2> HIDE DEF B
  <2> QED
    BY <2>1, MinimalSubset
<1>2. T \in SUBSET S /\ SumFunctionOnSet(F, T) # 0
  OBVIOUS
<1>3. SumFunctionOnSet(F, T) =
        IF T = {} THEN 0 ELSE F[AnyOf(T)] + SumFunctionOnSet(F, T \ {AnyOf(T)})
  <2> HIDE DEF B
  <2>1. IsFiniteSet(T)
    BY <1>2, FS_Subset
  <2> QED
    BY <2>1, SumAny
<1>4. T # {}
  BY <1>2, <1>3
<1>5. AnyOf(T) \in T
  BY <1>4, AnyOfIn
<1>6. SumFunctionOnSet(F, T \ {AnyOf(T)}) = 0
  BY <1>1, <1>2, <1>5
<1> QED
  BY <1>2, <1>3, <1>4, <1>5, <1>6

(* A sum of no larger naturals is no larger. *)
LEMMA SumMonotone ==
    ASSUME NEW S, IsFiniteSet(S), NEW F, NEW G,
           \A x \in S : F[x] \in Nat /\ G[x] \in Nat /\ F[x] <= G[x]
    PROVE  SumFunctionOnSet(F, S) <= SumFunctionOnSet(G, S)
<1> DEFINE B == {T \in SUBSET S : ~ (SumFunctionOnSet(F, T) <= SumFunctionOnSet(G, T))}
<1> SUFFICES ASSUME B # {}
             PROVE  FALSE
  OBVIOUS
<1>1. PICK T \in B : \A s \in B : s \subseteq T => s = T
  <2>1. B \in SUBSET (SUBSET S)
    OBVIOUS
  <2> HIDE DEF B
  <2> QED
    BY <2>1, MinimalSubset
<1>2. T \in SUBSET S /\ ~ (SumFunctionOnSet(F, T) <= SumFunctionOnSet(G, T))
  OBVIOUS
<1>3. /\ SumFunctionOnSet(F, T) =
            IF T = {} THEN 0 ELSE F[AnyOf(T)] + SumFunctionOnSet(F, T \ {AnyOf(T)})
      /\ SumFunctionOnSet(G, T) =
            IF T = {} THEN 0 ELSE G[AnyOf(T)] + SumFunctionOnSet(G, T \ {AnyOf(T)})
  <2> HIDE DEF B
  <2>1. IsFiniteSet(T)
    BY <1>2, FS_Subset
  <2> QED
    BY <2>1, SumAny
<1>4. T # {}
  BY <1>2, <1>3
<1>5. AnyOf(T) \in T
  BY <1>4, AnyOfIn
<1>6. SumFunctionOnSet(F, T \ {AnyOf(T)}) <= SumFunctionOnSet(G, T \ {AnyOf(T)})
  BY <1>1, <1>2, <1>5
<1>7. /\ SumFunctionOnSet(F, T \ {AnyOf(T)}) \in Nat
      /\ SumFunctionOnSet(G, T \ {AnyOf(T)}) \in Nat
  <2> HIDE DEF B
  <2>1. IsFiniteSet(T \ {AnyOf(T)})
    BY <1>2, FS_Subset
  <2>2. \A x \in T \ {AnyOf(T)} : F[x] \in Nat /\ G[x] \in Nat
    BY <1>2
  <2> QED
    BY <2>1, <2>2, SumNat
<1>8. F[AnyOf(T)] \in Nat /\ G[AnyOf(T)] \in Nat /\ F[AnyOf(T)] <= G[AnyOf(T)]
  BY <1>2, <1>5
<1> QED
  BY <1>2, <1>3, <1>4, <1>6, <1>7, <1>8

=============================================================================
