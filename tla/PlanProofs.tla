------------------------------- MODULE PlanProofs -------------------------------
(***************************************************************************)
(* Proofs about the two fuel plans and the stations they are made from, for *)
(* any tank, road, route and catalogue: no station of the corridor is lost   *)
(* by the grid, a validated route of the first API is driven to its end, and *)
(* a plan of the second keeps to its reserve and its tank.                   *)
(***************************************************************************)
EXTENDS MarketPlanner, FirstPlanner, RouteGeometry, FiniteSetTheorems, TLAPS

--------------------------------------------------------------------------------
(* Numbers and finite sets *)

\* Induction over the numbers, for a property given as the set that has it: the
\* least number without it would have a predecessor with it.
LEMMA AllNumbers ==
    ASSUME NEW P, 0 \in P, \A n \in Nat : n \in P => n + 1 \in P
    PROVE  Nat \subseteq P
<1> DEFINE Without == Nat \ P
<1> SUFFICES ASSUME Without # {} PROVE FALSE
  OBVIOUS
<1> DEFINE R == {p \in Nat \X Nat : p[1] < p[2]}
<1>0. IsWellFoundedOn(R, Nat)
  BY NatLessThanWellFounded DEF OpToRel
<1>1. PICK n \in Without : \A m \in Without : ~(<<m, n>> \in R)
  <2> HIDE DEF R
  <2> QED BY <1>0, WFMin
<1>2. n \in Nat \ {0} /\ n - 1 \in Nat /\ n - 1 < n
  BY <1>1
<1>3. <<n - 1, n>> \in R
  BY <1>2
<1>4. n - 1 \in P
  BY <1>1, <1>2, <1>3
<1> QED BY <1>1, <1>2, <1>4

\* A non-empty finite set that R orders totally has a last element: a smallest
\* subset without one would have two elements or more, and dropping one of them
\* leaves a subset that has one.
LEMMA LastExists ==
    ASSUME NEW S, IsFiniteSet(S), S # {}, NEW R,
           \A x \in S, y \in S : <<x, y>> \in R \/ <<y, x>> \in R,
           \A x \in S, y \in S, z \in S :
              <<x, y>> \in R /\ <<y, z>> \in R => <<x, z>> \in R
    PROVE  \E x \in S : \A y \in S : <<y, x>> \in R
<1> DEFINE HasLast(T) == \E x \in T : \A y \in T : <<y, x>> \in R
           Without == {T \in FiniteSubsetsOf(S) : T # {} /\ ~HasLast(T)}
<1>1. S \in FiniteSubsetsOf(S)
  BY DEF FiniteSubsetsOf
<1>2. SUFFICES Without = {}
  BY <1>1
<1>3. SUFFICES ASSUME Without # {} PROVE FALSE
  OBVIOUS
<1> HIDE DEF HasLast
<1>4. Without \subseteq FiniteSubsetsOf(S)
  OBVIOUS
<1>5. IsWellFoundedOn(StrictSubsetOrdering(S), FiniteSubsetsOf(S))
  BY FS_StrictSubsetOrderingWellFounded
<1>6. PICK T \in Without : \A U \in Without : ~(<<U, T>> \in StrictSubsetOrdering(S))
  BY <1>3, <1>4, <1>5, WFMin
<1>7. /\ T \subseteq S /\ IsFiniteSet(T) /\ T # {} /\ ~HasLast(T)
  BY <1>6 DEF FiniteSubsetsOf
<1>8. PICK x \in T : TRUE
  BY <1>7
<1> DEFINE U == T \ {x}
<1>9. /\ U \in SUBSET S /\ IsFiniteSet(U)
  BY <1>7, FS_Subset
<1>10. CASE U = {}
  <2>1. T = {x}
    BY <1>8, <1>10
  <2>2. <<x, x>> \in R
    BY <1>7, <1>8
  <2> QED BY <1>7, <2>1, <2>2 DEF HasLast
<1>11. CASE U # {}
  <2>1. <<U, T>> \in StrictSubsetOrdering(S)
    BY <1>7, <1>8, <1>9 DEF StrictSubsetOrdering
  <2>2. U \notin Without
    BY <1>6, <2>1
  <2>3. U \in FiniteSubsetsOf(S)
    BY <1>9 DEF FiniteSubsetsOf
  <2>4. HasLast(U)
    BY <1>11, <2>2, <2>3
  <2>5. PICK y \in U : \A z \in U : <<z, y>> \in R
    BY <2>4 DEF HasLast
  <2>6. CASE <<x, y>> \in R
    BY <1>7, <2>5, <2>6 DEF HasLast
  <2>7. CASE <<y, x>> \in R
    <3>1. \A z \in T : <<z, x>> \in R
      BY <1>7, <1>8, <2>5, <2>7
    <3> QED BY <1>7, <1>8, <3>1 DEF HasLast
  <2> QED BY <1>7, <1>8, <2>5, <2>6, <2>7
<1> QED BY <1>10, <1>11

LEMMA Extremes ==
    ASSUME NEW S, IsFiniteSet(S), S # {}, S \subseteq Int
    PROVE  /\ Max(S) \in S /\ \A x \in S : x <= Max(S)
           /\ Min(S) \in S /\ \A x \in S : x >= Min(S)
<1> DEFINE up == {p \in S \X S : p[1] <= p[2]}
           down == {p \in S \X S : p[1] >= p[2]}
<1>1. \A x, y \in S : (<<x, y>> \in up <=> x <= y) /\ (<<x, y>> \in down <=> x >= y)
  OBVIOUS
<1> HIDE DEF up, down
<1>2. /\ \A x, y \in S : <<x, y>> \in up \/ <<y, x>> \in up
      /\ \A x, y, z \in S : <<x, y>> \in up /\ <<y, z>> \in up => <<x, z>> \in up
      /\ \A x, y \in S : <<x, y>> \in down \/ <<y, x>> \in down
      /\ \A x, y, z \in S : <<x, y>> \in down /\ <<y, z>> \in down => <<x, z>> \in down
  BY <1>1
<1>3. \E x \in S : \A y \in S : x >= y
  <2>1. \E x \in S : \A y \in S : <<y, x>> \in up
    BY <1>2, LastExists
  <2> QED BY <1>1, <2>1
<1>4. \E x \in S : \A y \in S : x =< y
  <2>1. \E x \in S : \A y \in S : <<y, x>> \in down
    BY <1>2, LastExists
  <2> QED BY <1>1, <2>1
<1>5. Max(S) \in S /\ \A y \in S : Max(S) >= y
  BY <1>3 DEF Max
<1>6. Min(S) \in S /\ \A y \in S : Min(S) =< y
  BY <1>4 DEF Min
<1> QED BY <1>5, <1>6

LEMMA OfTwo ==
    ASSUME NEW a \in Int, NEW b \in Int
    PROVE  /\ Max({a, b}) = IF a >= b THEN a ELSE b
           /\ Min({a, b}) = IF a <= b THEN a ELSE b
BY DEF Max, Min

--------------------------------------------------------------------------------
(* Folds *)

\* Folding op over subsets of D, the next element of a set first.
Foldable(D, V, base, next, op) ==
    /\ IsFiniteSet(D) /\ base \in V
    /\ \A t \in SUBSET D : t # {} => next[t] \in t
    /\ \A x \in D : \A v \in V : op[<<x, v>>] \in V

Folds(g, D, base, next, op) ==
    \A t \in SUBSET D :
        g[t] = IF t = {} THEN base ELSE op[<<next[t], g[t \ {next[t]}]>>]

\* A fold is well defined, whatever element is chosen next: the functions that
\* satisfy its equation for sets of n elements extend to sets of n + 1.
LEMMA FoldExists ==
    ASSUME NEW D, NEW V, NEW base, NEW next, NEW op, Foldable(D, V, base, next, op)
    PROVE  \E g \in [SUBSET D -> V] : Folds(g, D, base, next, op)
<1> USE DEF Foldable
<1> DEFINE Extended(g, t) == IF t = {} THEN base ELSE op[<<next[t], g[t \ {next[t]}]>>]
           UpTo(n) == \E g \in [SUBSET D -> V] : \A t \in SUBSET D :
                         Cardinality(t) <= n => g[t] = Extended(g, t)
           P == {n \in Nat : UpTo(n)}
<1>1. \A t \in SUBSET D : /\ IsFiniteSet(t) /\ Cardinality(t) \in Nat
                          /\ Cardinality(t) <= Cardinality(D)
                          /\ Cardinality(t) = 0 <=> t = {}
  BY FS_Subset, FS_CardinalityType, FS_EmptySet
<1>2. \A t \in SUBSET D : t # {} =>
         /\ t \ {next[t]} \in SUBSET D
         /\ Cardinality(t \ {next[t]}) = Cardinality(t) - 1
  BY <1>1, FS_RemoveElement
<1>3. \A g \in [SUBSET D -> V] : \A t \in SUBSET D : Extended(g, t) \in V
  BY <1>2
<1>4. 0 \in P
  <2>1. [t \in SUBSET D |-> base] \in [SUBSET D -> V]
    OBVIOUS
  <2>2. \A t \in SUBSET D : Cardinality(t) <= 0 => t = {}
    BY <1>1
  <2> QED BY <2>1, <2>2
<1>5. ASSUME NEW n \in Nat, n \in P PROVE n + 1 \in P
  <2>1. PICK g \in [SUBSET D -> V] : \A t \in SUBSET D :
           Cardinality(t) <= n => g[t] = Extended(g, t)
    BY <1>5
  <2> DEFINE h == [t \in SUBSET D |-> Extended(g, t)]
  <2>2. h \in [SUBSET D -> V] /\ \A t \in SUBSET D : h[t] = Extended(g, t)
    BY <1>3
  <2>3. ASSUME NEW t \in SUBSET D, Cardinality(t) <= n + 1 PROVE h[t] = Extended(h, t)
    <3>1. CASE t = {}
      BY <2>2, <3>1
    <3>2. CASE t # {}
      <4> DEFINE u == t \ {next[t]}
      <4>1. u \in SUBSET D /\ Cardinality(u) <= n
        BY <1>1, <1>2, <2>3, <3>2
      <4>2. h[u] = g[u]
        BY <2>1, <2>2, <4>1
      <4>3. h[t] = op[<<next[t], g[u]>>]
        BY <2>2, <3>2
      <4>4. Extended(h, t) = op[<<next[t], h[u]>>]
        BY <3>2
      <4> QED BY <4>2, <4>3, <4>4
    <3> QED BY <3>1, <3>2
  <2> HIDE DEF h, Extended
  <2> QED BY <2>2, <2>3
<1>6. Nat \subseteq P
  <2> HIDE DEF P
  <2> QED BY <1>4, <1>5, AllNumbers
<1>7. UpTo(Cardinality(D))
  BY <1>6, FS_CardinalityType
<1>8. PICK g \in [SUBSET D -> V] : \A t \in SUBSET D :
         Cardinality(t) <= Cardinality(D) => g[t] = Extended(g, t)
  BY <1>7
<1> QED BY <1>1, <1>8 DEF Folds
--------------------------------------------------------------------------------
(* Sums *)

\* Induction over the finite sets within D, by their size: given as the set of
\* those that have the property.
LEMMA AllSubsets ==
    ASSUME NEW D, IsFiniteSet(D), NEW Q, {} \in Q,
           \A t \in SUBSET D : t # {} /\ (\A x \in t : t \ {x} \in Q) => t \in Q
    PROVE  SUBSET D \subseteq Q
<1> DEFINE P == {n \in Nat : \A t \in SUBSET D : Cardinality(t) = n => t \in Q}
<1>1. \A t \in SUBSET D : /\ IsFiniteSet(t) /\ Cardinality(t) \in Nat
                          /\ Cardinality(t) = 0 <=> t = {}
                          /\ \A x \in t : Cardinality(t \ {x}) = Cardinality(t) - 1
  BY FS_Subset, FS_CardinalityType, FS_EmptySet, FS_RemoveElement
<1>2. 0 \in P
  BY <1>1
<1>3. ASSUME NEW n \in Nat, n \in P PROVE n + 1 \in P
  <2> SUFFICES ASSUME NEW t \in SUBSET D, Cardinality(t) = n + 1 PROVE t \in Q
    OBVIOUS
  <2>1. t # {} /\ \A x \in t : t \ {x} \in SUBSET D /\ Cardinality(t \ {x}) = n
    BY <1>1
  <2>2. \A x \in t : t \ {x} \in Q
    BY <1>3, <2>1
  <2> QED BY <2>1, <2>2
<1>4. Nat \subseteq P
  <2> HIDE DEF P
  <2> QED BY <1>2, <1>3, AllNumbers
<1> QED BY <1>1, <1>4

Total(p, E) == MapThenSumSet(LAMBDA j : p[j], E)

Summable(p, D) == IsFiniteSet(D) /\ \A j \in D : p[j] \in Int

Sums(g, p, D) ==
    /\ g \in [SUBSET D -> Int]
    /\ g[{}] = 0
    /\ \A t \in SUBSET D : \A x \in t : g[t] = g[t \ {x}] + p[x]
    /\ \A E \in SUBSET D : Total(p, E) = g[E]

\* A sum does not depend on the order in which the elements are taken.
LEMMA SumOf ==
    ASSUME NEW D, NEW p, Summable(p, D)
    PROVE  \E g : Sums(g, p, D)
<1> USE DEF Summable
<1> DEFINE next == [t \in SUBSET D |-> CHOOSE x \in t : TRUE]
           op == [q \in D \X Int |-> p[q[1]] + q[2]]
<1>1. \A t \in SUBSET D : /\ next[t] = CHOOSE x \in t : TRUE
                          /\ t # {} => next[t] \in t
  OBVIOUS
<1>2. \A x \in D : \A v \in Int : op[<<x, v>>] = p[x] + v /\ op[<<x, v>>] \in Int
  OBVIOUS
<1> HIDE DEF next, op
<1>3. PICK g \in [SUBSET D -> Int] : Folds(g, D, 0, next, op)
  <2>1. Foldable(D, Int, 0, next, op)
    BY <1>1, <1>2 DEF Foldable
  <2> QED BY <2>1, FoldExists
<1>4. g[{}] = 0
  BY <1>3 DEF Folds
<1>5. \A t \in SUBSET D : t # {} => g[t] = p[next[t]] + g[t \ {next[t]}]
  <2> SUFFICES ASSUME NEW t \in SUBSET D, t # {} PROVE g[t] = p[next[t]] + g[t \ {next[t]}]
    OBVIOUS
  <2>1. next[t] \in D /\ t \ {next[t]} \in SUBSET D /\ g[t \ {next[t]}] \in Int
    BY <1>1, <1>3
  <2>2. g[t] = op[<<next[t], g[t \ {next[t]}]>>]
    BY <1>3 DEF Folds
  <2> QED BY <1>2, <2>1, <2>2
<1> DEFINE Q == {t \in SUBSET D : \A x \in t : g[t] = g[t \ {x}] + p[x]}
<1>6. SUBSET D \subseteq Q
  <2>1. {} \in Q
    OBVIOUS
  <2>2. ASSUME NEW t \in SUBSET D, t # {}, \A x \in t : t \ {x} \in Q PROVE t \in Q
    <3> SUFFICES ASSUME NEW x \in t PROVE g[t] = g[t \ {x}] + p[x]
      OBVIOUS
    <3> DEFINE c == next[t]
    <3>1. c \in t /\ g[t] = p[c] + g[t \ {c}] /\ x \in D /\ c \in D
      BY <1>1, <1>5, <2>2
    <3>2. CASE x = c
      <4>1. p[c] \in Int /\ g[t \ {c}] \in Int
        BY <1>3, <3>1
      <4> QED BY <3>1, <3>2, <4>1
    <3>3. CASE x # c
      <4>1. t \ {c} \in Q /\ t \ {x} \in Q /\ x \in t \ {c} /\ c \in t \ {x}
        BY <2>2, <3>1, <3>3
      <4>2. /\ g[t \ {c}] = g[(t \ {c}) \ {x}] + p[x]
            /\ g[t \ {x}] = g[(t \ {x}) \ {c}] + p[c]
        BY <4>1
      <4>3. (t \ {c}) \ {x} = (t \ {x}) \ {c} /\ (t \ {c}) \ {x} \in SUBSET D
        OBVIOUS
      <4>4. p[c] \in Int /\ p[x] \in Int /\ g[(t \ {c}) \ {x}] \in Int
        BY <1>3, <3>1, <4>3
      <4>5. g[(t \ {x}) \ {c}] = g[(t \ {c}) \ {x}]
        BY <4>3
      <4> DEFINE rest == g[(t \ {c}) \ {x}]
      <4>6. g[t \ {c}] = rest + p[x] /\ g[t \ {x}] = rest + p[c] /\ rest \in Int
        BY <4>2, <4>4, <4>5
      <4> HIDE DEF c, rest
      <4> QED BY <3>1, <4>4, <4>6
    <3> QED BY <3>2, <3>3
  <2> HIDE DEF Q
  <2> QED BY <2>1, <2>2, AllSubsets
<1>7. ASSUME NEW E \in SUBSET D PROVE Total(p, E) = g[E]
  <2> DEFINE Sum(f) == [s \in SUBSET E |->
                          IF s = {} THEN 0
                          ELSE p[CHOOSE x \in s : TRUE] + f[s \ {CHOOSE x \in s : TRUE}]]
             iter == CHOOSE f : f = Sum(f)
             r == [s \in SUBSET E |-> g[s]]
  <2>1. Total(p, E) = iter[E]
    BY DEF Total, MapThenSumSet, MapThenFoldSet
  <2>2. r = Sum(r)
    <3>1. ASSUME NEW s \in SUBSET E, s # {}
          PROVE  g[s] = p[CHOOSE x \in s : TRUE] + r[s \ {CHOOSE x \in s : TRUE}]
      <4>1. s \in SUBSET D /\ s \ {CHOOSE x \in s : TRUE} \in SUBSET E
        OBVIOUS
      <4> QED BY <1>1, <1>5, <3>1, <4>1
    <3> QED BY <1>4, <3>1
  <2>3. iter = Sum(iter)
    <3> HIDE DEF Sum
    <3> QED BY <2>2
  <2> HIDE DEF iter
  <2>4. \A s \in SUBSET E :
           iter[s] = IF s = {} THEN 0
                     ELSE p[CHOOSE x \in s : TRUE] + iter[s \ {CHOOSE x \in s : TRUE}]
    BY <2>3
  <2> DEFINE Same == {s \in SUBSET E : iter[s] = g[s]}
  <2>5. {} \in Same
    BY <1>4, <2>4
  <2>6. ASSUME NEW s \in SUBSET E, s # {}, \A x \in s : s \ {x} \in Same PROVE s \in Same
    <3>1. s \in SUBSET D /\ next[s] \in s /\ next[s] = CHOOSE x \in s : TRUE
      BY <1>1, <2>6
    <3>2. iter[s] = p[next[s]] + iter[s \ {next[s]}]
      BY <2>4, <2>6, <3>1
    <3>3. iter[s \ {next[s]}] = g[s \ {next[s]}]
      BY <2>6, <3>1
    <3> QED BY <1>5, <2>6, <3>1, <3>2, <3>3
  <2>7. SUBSET E \subseteq Same
    <3>1. IsFiniteSet(E)
      BY FS_Subset
    <3> HIDE DEF Same
    <3> QED BY <2>5, <2>6, <3>1, AllSubsets
  <2> QED BY <2>1, <2>7
<1>8. \A t \in SUBSET D : \A x \in t : g[t] = g[t \ {x}] + p[x]
  BY <1>6
<1> QED BY <1>3, <1>4, <1>7, <1>8 DEF Sums

LEMMA NothingIsBought == ASSUME NEW p PROVE SumUpTo(p, 0) = 0
<1>1. 1..0 = {} /\ IsFiniteSet({})
  BY FS_EmptySet
<1>2. PICK g : Sums(g, p, {})
  <2>1. Summable(p, {})
    BY <1>1 DEF Summable
  <2> QED BY <2>1, SumOf
<1>3. Total(p, {}) = 0
  BY <1>2 DEF Sums
<1> QED BY <1>1, <1>3 DEF SumUpTo, Total

LEMMA PurchasesAddUp ==
    ASSUME NEW n \in Nat, NEW p, \A j \in 1..(n + 1) : p[j] \in Int
    PROVE  SumUpTo(p, n) \in Int /\ SumUpTo(p, n + 1) = SumUpTo(p, n) + p[n + 1]
<1> DEFINE D == 1..(n + 1)
<1>1. IsFiniteSet(D)
  BY FS_Interval
<1>2. n + 1 \in D /\ D \ {n + 1} = 1..n
  OBVIOUS
<1> HIDE DEF D
<1>3. PICK g : Sums(g, p, D)
  <2>1. Summable(p, D)
    BY <1>1 DEF D, Summable
  <2> QED BY <2>1, SumOf
<1>4. g[D] = g[1..n] + p[n + 1] /\ g[1..n] \in Int /\ Total(p, D) = g[D] /\ Total(p, 1..n) = g[1..n]
  BY <1>2, <1>3 DEF Sums
<1> QED BY <1>4 DEF SumUpTo, Total, D

LEMMA SamePurchases ==
    ASSUME NEW n \in Nat, NEW p, NEW q, \A j \in 1..n : p[j] \in Int /\ q[j] = p[j]
    PROVE  SumUpTo(p, n) = SumUpTo(q, n)
<1> DEFINE P == {k \in Nat : k <= n => SumUpTo(p, k) = SumUpTo(q, k)}
<1>1. 0 \in P
  BY NothingIsBought
<1>2. ASSUME NEW k \in Nat, k \in P PROVE k + 1 \in P
  <2> SUFFICES ASSUME k + 1 <= n PROVE SumUpTo(p, k + 1) = SumUpTo(q, k + 1)
    OBVIOUS
  <2>1. k + 1 \in 1..n /\ \A j \in 1..(k + 1) : p[j] \in Int /\ q[j] \in Int
    OBVIOUS
  <2>2. SumUpTo(p, k) = SumUpTo(q, k)
    BY <1>2
  <2>3. /\ SumUpTo(p, k + 1) = SumUpTo(p, k) + p[k + 1]
        /\ SumUpTo(q, k + 1) = SumUpTo(q, k) + q[k + 1]
    BY <2>1, PurchasesAddUp
  <2> QED BY <2>1, <2>2, <2>3
<1>3. Nat \subseteq P
  <2> HIDE DEF P
  <2> QED BY <1>1, <1>2, AllNumbers
<1> QED BY <1>3

--------------------------------------------------------------------------------
(* Distances as fractions *)

Fraction == [num: Nat, den: Nat \ {0}]

LEMMA Squares == ASSUME NEW x \in Int PROVE x * x \in Nat
OBVIOUS

LEMMA Products == ASSUME NEW x \in Nat, NEW y \in Nat PROVE x * y \in Nat
OBVIOUS

\* A longer multiple of the same is longer.
LEMMA Multiples ==
    ASSUME NEW x \in Int, NEW y \in Int, NEW k \in Nat \ {0}
    PROVE  /\ x <= y <=> x * k <= y * k
           /\ x < y <=> x * k < y * k
OBVIOUS

\* Comparing distances is transitive.
LEMMA LessTransitive ==
    ASSUME NEW d \in Fraction, NEW e \in Fraction, NEW f \in Fraction,
           ~Less(e, d), ~Less(f, e)
    PROVE  ~Less(f, d)
<1> DEFINE dn == d.num
           dd == d.den
           en == e.num
           ed == e.den
           fn == f.num
           fd == f.den
<1>1. /\ dn \in Nat /\ en \in Nat /\ fn \in Nat
      /\ dd \in Nat \ {0} /\ ed \in Nat \ {0} /\ fd \in Nat \ {0}
  BY DEF Fraction
<1>2. dn * ed <= en * dd /\ en * fd <= fn * ed
  BY <1>1 DEF Less
<1>3. ~Less(f, d) <=> dn * fd <= fn * dd
  BY <1>1 DEF Less
<1> HIDE DEF dn, dd, en, ed, fn, fd
<1>4. (dn * ed) * fd <= (en * dd) * fd
  <2>1. dn * ed \in Int /\ en * dd \in Int
    BY <1>1
  <2> QED BY <1>1, <1>2, <2>1, Multiples
<1>5. (en * fd) * dd <= (fn * ed) * dd
  <2>1. en * fd \in Int /\ fn * ed \in Int
    BY <1>1
  <2> QED BY <1>1, <1>2, <2>1, Multiples
<1>6. /\ (dn * ed) * fd = (dn * fd) * ed
      /\ (en * dd) * fd = (en * fd) * dd
      /\ (fn * ed) * dd = (fn * dd) * ed
  BY <1>1
<1>7. (dn * fd) * ed <= (fn * dd) * ed
  <2>1. /\ (dn * ed) * fd \in Int /\ (en * dd) * fd \in Int /\ (fn * ed) * dd \in Int
        /\ (en * fd) * dd \in Int
    BY <1>1
  <2> QED BY <1>4, <1>5, <1>6, <2>1
<1>8. dn * fd <= fn * dd
  <2>1. dn * fd \in Int /\ fn * dd \in Int
    BY <1>1
  <2> QED BY <1>1, <1>7, <2>1, Multiples
<1> QED BY <1>3, <1>8

LEMMA LessTotal ==
    ASSUME NEW d \in Fraction, NEW e \in Fraction PROVE ~Less(d, e) \/ ~Less(e, d)
BY DEF Less, Fraction

\* What is within the corridor is not farther than what is not.
LEMMA WithinIsNearer ==
    ASSUME NEW d \in Fraction, NEW e \in Fraction, NEW c \in Nat,
           Within(d, c), ~Less(d, e)
    PROVE  Within(e, c)
<1> DEFINE k == c * c
           dn == d.num
           dd == d.den
           en == e.num
           ed == e.den
<1>1. /\ k \in Nat /\ dn \in Nat /\ en \in Nat /\ dd \in Nat \ {0} /\ ed \in Nat \ {0}
  BY Squares DEF Fraction
<1>2. dn <= k * dd /\ en * dd <= dn * ed /\ (Within(e, c) <=> en <= k * ed)
  BY <1>1 DEF Within, Less
<1> HIDE DEF k, dn, dd, en, ed
<1>3. dn * ed <= (k * dd) * ed
  BY <1>1, <1>2, Multiples, k * dd \in Int
<1>4. en * dd <= (k * ed) * dd
  <2>1. (k * dd) * ed = (k * ed) * dd /\ (k * dd) * ed \in Int /\ en * dd \in Int /\ dn * ed \in Int
    BY <1>1
  <2> QED BY <1>2, <1>3, <2>1
<1>5. en <= k * ed
  BY <1>1, <1>4, Multiples, k * ed \in Int
<1> QED BY <1>2, <1>5

\* What the projection is measured in.
LEMMA ProjectionTyped ==
    ASSUME NEW a \in Point, NEW b \in Point, NEW p \in Point
    PROVE  LET on == ProjectTo([start |-> a, finish |-> b], p)
           IN  on.far \in Fraction /\ on.fraction \in Fraction
<1> DEFINE dx == b[1] - a[1]
           dy == b[2] - a[2]
           px == p[1] - a[1]
           py == p[2] - a[2]
           length == dx * dx + dy * dy
           along == px * dx + py * dy
           cross == px * dy - py * dx
           on == ProjectTo([start |-> a, finish |-> b], p)
<1>1. dx \in Int /\ dy \in Int /\ px \in Int /\ py \in Int
  BY DEF Point
<1>2. on = IF along <= 0
           THEN [fraction |-> [num |-> 0, den |-> 1], far |-> [num |-> px * px + py * py, den |-> 1]]
           ELSE IF along >= length
           THEN [fraction |-> [num |-> 1, den |-> 1],
                 far |-> [num |-> (px - dx) * (px - dx) + (py - dy) * (py - dy), den |-> 1]]
           ELSE [fraction |-> [num |-> along, den |-> length],
                 far |-> [num |-> cross * cross, den |-> length]]
  BY DEF ProjectTo
<1> HIDE DEF on, dx, dy, px, py
<1>3. along \in Int /\ length \in Nat /\ cross \in Int /\ px - dx \in Int /\ py - dy \in Int
  BY <1>1, Squares
<1>4. px * px + py * py \in Nat /\ cross * cross \in Nat
  BY <1>1, <1>3, Squares
<1>5. (px - dx) * (px - dx) + (py - dy) * (py - dy) \in Nat
  BY <1>3, Squares
<1> HIDE DEF along, length, cross
<1>6. on.far \in Fraction /\ on.fraction \in Fraction
  <2>1. CASE along <= 0
    BY <1>2, <1>4, <2>1 DEF Fraction
  <2>2. CASE along >= length
    BY <1>2, <1>3, <1>4, <1>5, <2>2 DEF Fraction
  <2>3. CASE ~(along <= 0) /\ ~(along >= length)
    <3>1. along \in Nat /\ length \in Nat \ {0}
      BY <1>3, <2>3
    <3> QED BY <1>2, <1>4, <2>3, <3>1 DEF Fraction
  <2> QED BY <2>1, <2>2, <2>3
<1> QED BY <1>6 DEF on

--------------------------------------------------------------------------------
(* The grid *)

\* Numbers at most k apart are at most Ceiling(k, size) cells apart.
LEMMA CellsApart ==
    ASSUME NEW x \in Int, NEW y \in Int, NEW k \in Nat, NEW size \in Nat \ {0}, x <= y + k
    PROVE  x \div size <= y \div size + Ceiling(k, size)
<1> DEFINE q == y \div size
           c == (k + size - 1) \div size
           u == x \div size
<1>1. /\ q \in Int /\ size * q <= y /\ y < size * q + size
      /\ u \in Int /\ size * u <= x
      /\ c \in Int /\ k + size - 1 < size * c + size
  BY Z3
<1> HIDE DEF q, c, u
<1>2. size * u < size * (q + c + 1)
  <2>1. size * (q + c + 1) = size * q + size * c + size
    BY <1>1
  <2>2. size * q \in Int /\ size * c \in Int /\ size * u \in Int
    BY <1>1
  <2> QED BY <1>1, <2>1, <2>2
<1>3. u < q + c + 1
  <2>1. u * size < (q + c + 1) * size
    BY <1>1, <1>2
  <2> QED BY <1>1, <2>1, Multiples, q + c + 1 \in Int
<1>4. u <= q + c
  BY <1>1, <1>3
<1> QED BY <1>4 DEF Ceiling, u, q, c

\* A square within another's is the square of a number within.
LEMMA SquaresWithin ==
    ASSUME NEW x \in Int, NEW k \in Nat, x * x <= k * k
    PROVE  x <= k /\ -x <= k
<1>1. ASSUME x > k PROVE FALSE
  <2>1. x * x > k * x /\ k * x >= k * k
    BY <1>1
  <2> QED BY <2>1
<1>2. ASSUME -x > k PROVE FALSE
  <2>1. (-x) * (-x) > k * (-x) /\ k * (-x) >= k * k /\ (-x) * (-x) = x * x
    BY <1>2
  <2> QED BY <2>1
<1> QED BY <1>1, <1>2
\* The foot of a perpendicular of at most k is beside its segment: in one
\* coordinate the place is at most k outside the segment's ends.
LEMMA FootIsNear ==
    ASSUME NEW dx \in Int, NEW dy \in Int, NEW px \in Int, NEW py \in Int, NEW k \in Nat,
           NEW length, length = dx * dx + dy * dy,
           NEW along, along = px * dx + py * dy, 0 < along, along < length,
           NEW cross, cross = px * dy - py * dx, cross * cross <= (k * k) * length
    PROVE  /\ 0 <= px + k \/ dx <= px + k
           /\ px <= k \/ px <= dx + k
<1> DEFINE w == dy * cross
<1>1. along \in Nat /\ length \in Nat \ {0} /\ cross \in Int /\ w \in Int
  BY Squares
<1>2. px * length = along * dx + w
  <2>1. px * length = px * (dx * dx) + px * (dy * dy)
    OBVIOUS
  <2>2. along * dx = px * (dx * dx) + (py * dy) * dx
    OBVIOUS
  <2>3. w = px * (dy * dy) - (py * dy) * dx
    OBVIOUS
  <2> QED BY <2>1, <2>2, <2>3
<1> HIDE DEF w
<1>3. w * w <= (k * length) * (k * length)
  <2>1. w * w = (dy * dy) * (cross * cross)
    BY <1>1 DEF w
  <2>2. /\ dx * dx \in Nat /\ dy * dy \in Nat /\ cross * cross \in Nat /\ k * k \in Nat
    BY <1>1, Squares
  <2>3. dy * dy <= length
    BY <2>2
  <2>4. (dy * dy) * (cross * cross) <= length * (cross * cross)
    BY <1>1, <2>2, <2>3
  <2>5. (cross * cross) * length <= ((k * k) * length) * length
    <3>1. (k * k) * length \in Int
      BY <1>1, <2>2
    <3> QED BY <1>1, <2>2, <3>1, Multiples
  <2>6. ((k * k) * length) * length = (k * length) * (k * length)
    BY <1>1
  <2>7. length * (cross * cross) = (cross * cross) * length
    BY <1>1, <2>2
  <2>8. /\ (dy * dy) * (cross * cross) \in Int /\ length * (cross * cross) \in Int
        /\ (k * length) * (k * length) \in Int
    BY <1>1, <2>2
  <2> QED BY <2>1, <2>4, <2>5, <2>6, <2>7, <2>8
<1>4. k * length \in Nat
  BY <1>1
<1>5. w <= k * length /\ -w <= k * length
  BY <1>1, <1>3, <1>4, SquaresWithin
<1>6. \/ 0 <= along * dx /\ along * dx <= dx * length
      \/ dx * length <= along * dx /\ along * dx <= 0
  <2>1. CASE dx >= 0
    BY <1>1, <2>1
  <2>2. CASE dx < 0
    <3>1. along * (-dx) >= 0 /\ along * (-dx) <= length * (-dx)
      BY <1>1, <2>2
    <3>2. along * (-dx) = -(along * dx) /\ length * (-dx) = -(dx * length)
      BY <1>1
    <3>3. along * dx \in Int /\ dx * length \in Int
      BY <1>1
    <3> QED BY <3>1, <3>2, <3>3
  <2> QED BY <2>1, <2>2
<1>7. \/ 0 <= (px + k) * length
      \/ dx * length <= (px + k) * length
  <2>1. (px + k) * length = px * length + k * length
    BY <1>1
  <2>2. along * dx \in Int /\ dx * length \in Int /\ px * length \in Int
    BY <1>1
  <2> QED BY <1>1, <1>2, <1>4, <1>5, <1>6, <2>1, <2>2
<1>8. \/ px * length <= k * length
      \/ px * length <= (dx + k) * length
  <2>1. (dx + k) * length = dx * length + k * length
    BY <1>1
  <2>2. along * dx \in Int /\ dx * length \in Int /\ px * length \in Int
    BY <1>1
  <2> QED BY <1>1, <1>2, <1>4, <1>5, <1>6, <2>1, <2>2
<1>9. 0 = 0 * length
  BY <1>1
<1>10. /\ 0 <= px + k \/ dx <= px + k
  BY <1>1, <1>7, <1>9, Multiples, px + k \in Int
<1>11. px <= k \/ px <= dx + k
  BY <1>1, <1>8, Multiples, dx + k \in Int
<1> QED BY <1>10, <1>11

\* In one coordinate, a place within k of a segment is at most k outside it.
Beside(x, a, b, k) == (a <= x + k \/ b <= x + k) /\ (x <= a + k \/ x <= b + k)

LEMMA WithinIsBeside ==
    ASSUME NEW a \in Point, NEW b \in Point, NEW p \in Point, NEW k \in Nat,
           Within(ProjectTo([start |-> a, finish |-> b], p).far, k)
    PROVE  Beside(p[1], a[1], b[1], k) /\ Beside(p[2], a[2], b[2], k)
<1> DEFINE dx == b[1] - a[1]
           dy == b[2] - a[2]
           px == p[1] - a[1]
           py == p[2] - a[2]
           length == dx * dx + dy * dy
           along == px * dx + py * dy
           cross == px * dy - py * dx
           far == ProjectTo([start |-> a, finish |-> b], p).far
<1>1. /\ dx \in Int /\ dy \in Int /\ px \in Int /\ py \in Int
      /\ a[1] \in Int /\ a[2] \in Int /\ b[1] \in Int /\ b[2] \in Int /\ p[1] \in Int /\ p[2] \in Int
  BY DEF Point
<1>2. far = IF along <= 0
           THEN [num |-> px * px + py * py, den |-> 1]
           ELSE IF along >= length
           THEN [num |-> (px - dx) * (px - dx) + (py - dy) * (py - dy), den |-> 1]
           ELSE [num |-> cross * cross, den |-> length]
  BY DEF ProjectTo
<1>3. far.num <= (k * k) * far.den
  BY DEF Within
<1> SUFFICES /\ (0 <= px + k \/ dx <= px + k) /\ (px <= k \/ px <= dx + k)
             /\ (0 <= py + k \/ dy <= py + k) /\ (py <= k \/ py <= dy + k)
  BY <1>1 DEF Beside
<1> HIDE DEF far, dx, dy, px, py
<1>4. along \in Int /\ length \in Nat /\ cross \in Int /\ px - dx \in Int /\ py - dy \in Int /\ k * k \in Nat
  BY <1>1, Squares
<1>5. CASE along <= 0
  <2>1. px * px + py * py <= k * k
    BY <1>2, <1>3, <1>4, <1>5
  <2>2. px * px <= k * k /\ py * py <= k * k
    <3>1. px * px \in Nat /\ py * py \in Nat
      BY <1>1, Squares
    <3> QED BY <1>4, <2>1, <3>1
  <2>3. px <= k /\ -px <= k /\ py <= k /\ -py <= k
    BY <1>1, <2>2, SquaresWithin
  <2> QED BY <1>1, <2>3
<1>6. CASE ~(along <= 0) /\ along >= length
  <2>1. (px - dx) * (px - dx) + (py - dy) * (py - dy) <= k * k
    BY <1>2, <1>3, <1>4, <1>6
  <2>2. (px - dx) * (px - dx) <= k * k /\ (py - dy) * (py - dy) <= k * k
    <3>1. (px - dx) * (px - dx) \in Nat /\ (py - dy) * (py - dy) \in Nat
      BY <1>4, Squares
    <3> QED BY <1>4, <2>1, <3>1
  <2>3. px - dx <= k /\ -(px - dx) <= k /\ py - dy <= k /\ -(py - dy) <= k
    BY <1>4, <2>2, SquaresWithin
  <2> QED BY <1>1, <2>3
<1>7. CASE ~(along <= 0) /\ ~(along >= length)
  <2>1. cross * cross <= (k * k) * length
    BY <1>2, <1>3, <1>7
  <2>2. 0 < along /\ along < length
    BY <1>4, <1>7
  <2>3. (0 <= px + k \/ dx <= px + k) /\ (px <= k \/ px <= dx + k)
    BY <1>1, <2>1, <2>2, FootIsNear
  <2>4. (0 <= py + k \/ dy <= py + k) /\ (py <= k \/ py <= dy + k)
    <3> DEFINE turned == py * dx - px * dy
    <3>1. length = dy * dy + dx * dx /\ along = py * dy + px * dx
      BY <1>1
    <3>2. turned = -cross
      BY <1>1
    <3>3. turned * turned = cross * cross
      BY <1>4, <3>2
    <3> HIDE DEF length, along, cross
    <3>4. turned * turned <= (k * k) * length
      BY <2>1, <3>3
    <3> QED BY <1>1, <2>2, <3>1, <3>4, FootIsNear
  <2> QED BY <2>3, <2>4
<1> QED BY <1>5, <1>6, <1>7

\* A segment within the corridor of a place is in a cell around it.
LEMMA NearIsIndexed ==
    ASSUME NEW a \in Point, NEW b \in Point, NEW p \in Point,
           Within(ProjectTo([start |-> a, finish |-> b], p).far, Corridor)
    PROVE  Indexed([start |-> a, finish |-> b], p)
<1>1. Corridor \in Nat /\ CellWidth \in Nat \ {0} /\ CellHeight \in Nat \ {0}
  BY GeometryAssumption
<1>2. /\ a[1] \in Int /\ a[2] \in Int /\ b[1] \in Int /\ b[2] \in Int /\ p[1] \in Int /\ p[2] \in Int
  BY DEF Point
<1>3. Beside(p[1], a[1], b[1], Corridor) /\ Beside(p[2], a[2], b[2], Corridor)
  BY <1>1, WithinIsBeside
<1>4. ASSUME NEW x \in Int, NEW y \in Int, NEW z \in Int, NEW size \in Nat \ {0},
             Beside(x, y, z, Corridor)
      PROVE  /\ Lower(y \div size, z \div size) <= x \div size + Ceiling(Corridor, size)
             /\ Higher(y \div size, z \div size) >= x \div size - Ceiling(Corridor, size)
  <2>1. /\ x \div size \in Int /\ y \div size \in Int /\ z \div size \in Int
        /\ Ceiling(Corridor, size) \in Int
    BY <1>1 DEF Ceiling
  <2>2. \/ y \div size <= x \div size + Ceiling(Corridor, size)
        \/ z \div size <= x \div size + Ceiling(Corridor, size)
    BY <1>1, <1>4, CellsApart DEF Beside
  <2>3. \/ x \div size <= y \div size + Ceiling(Corridor, size)
        \/ x \div size <= z \div size + Ceiling(Corridor, size)
    BY <1>1, <1>4, CellsApart DEF Beside
  <2> QED BY <2>1, <2>2, <2>3 DEF Lower, Higher
<1> QED BY <1>1, <1>2, <1>3, <1>4 DEF Indexed, Meets, Row, Column

--------------------------------------------------------------------------------
(* The nearest segment *)

LEMMA SegmentsTyped ==
    ASSUME NEW points \in Routes, NEW p \in Point
    PROVE  /\ IsFiniteSet(Segments(points))
           /\ \A i \in Segments(points) :
                 /\ points[i] \in Point /\ points[i + 1] \in Point
                 /\ Projected(points, i, p).far \in Fraction
                 /\ Projected(points, i, p).fraction \in Fraction
<1>1. points \in Seq(Point)
  BY GeometryAssumption
<1>2. IsFiniteSet(Segments(points))
  <2>1. IsFiniteSet(1..(Len(points) - 1))
    BY <1>1, FS_Interval
  <2> QED BY <2>1, FS_Subset DEF Segments
<1>3. ASSUME NEW i \in Segments(points)
      PROVE  /\ points[i] \in Point /\ points[i + 1] \in Point
             /\ Projected(points, i, p).far \in Fraction
             /\ Projected(points, i, p).fraction \in Fraction
  <2>1. i \in 1..(Len(points) - 1)
    BY <1>3 DEF Segments
  <2>2. points[i] \in Point /\ points[i + 1] \in Point
    BY <1>1, <2>1
  <2> QED BY <2>2, ProjectionTyped DEF Projected, Segment
<1> QED BY <1>2, <1>3

\* A place the grid shows a segment for has a nearest one.
LEMMA NearestExists ==
    ASSUME NEW points \in Routes, NEW p \in Point, Seen(points, p) # {}
    PROVE  Nearest(points, p) # {}
<1> DEFINE far(i) == Projected(points, i, p).far
           S == Seen(points, p)
           R == {k \in S \X S : ~Less(far(k[1]), far(k[2]))}
<1>1. IsFiniteSet(S)
  BY SegmentsTyped, FS_Subset DEF Seen
<1>2. \A i \in S : far(i) \in Fraction
  BY SegmentsTyped DEF Seen
<1>3. \A i, j \in S : <<i, j>> \in R <=> ~Less(far(i), far(j))
  OBVIOUS
<1>4. Nearest(points, p) = {i \in S : \A k \in S : ~Less(far(k), far(i))}
  BY DEF Nearest
<1> HIDE DEF S, R, far
<1>5. \A i, j \in S : <<i, j>> \in R \/ <<j, i>> \in R
  BY <1>2, <1>3, LessTotal
<1>6. \A i, j, k \in S : <<i, j>> \in R /\ <<j, k>> \in R => <<i, k>> \in R
  BY <1>2, <1>3, LessTransitive
<1>7. \E i \in S : \A k \in S : <<k, i>> \in R
  BY <1>1, <1>5, <1>6, LastExists DEF S
<1> QED BY <1>3, <1>4, <1>7

\* The distance of a projection is to the whole route, if it is within the
\* corridor: a segment the grid hides is not.
LEMMA ProjectionIsNearest ==
    ASSUME NEW points \in Routes, NEW p \in Point, NEW on \in Projections(points, p),
           Within(on.far, Corridor), NEW i \in Segments(points)
    PROVE  ~Less(Projected(points, i, p).far, on.far)
<1>1. PICK j \in Nearest(points, p) : on.far = Projected(points, j, p).far
  BY DEF Projections
<1>2. j \in Segments(points) /\ \A k \in Seen(points, p) :
         ~Less(Projected(points, k, p).far, Projected(points, j, p).far)
  BY <1>1 DEF Nearest, Seen
<1>3. CASE i \in Seen(points, p)
  BY <1>1, <1>2, <1>3
<1>4. CASE i \notin Seen(points, p)
  <2>1. ~Indexed(Segment(points, i), p)
    BY <1>4 DEF Seen
  <2>2. ~Within(Projected(points, i, p).far, Corridor)
    BY <2>1, SegmentsTyped, NearIsIndexed DEF Projected, Segment
  <2>3. /\ Projected(points, i, p).far \in Fraction /\ on.far \in Fraction
        /\ Corridor \in Nat
    BY <1>1, <1>2, SegmentsTyped, GeometryAssumption
  <2>4. ASSUME Less(Projected(points, i, p).far, on.far) PROVE FALSE
    <3>1. ~Less(on.far, Projected(points, i, p).far)
      BY <2>3, <2>4, LessTotal
    <3> QED BY <2>2, <2>3, <3>1, WithinIsNearer
  <2> QED BY <2>4
<1> QED BY <1>3, <1>4

\* A station within the corridor is projected on a segment within it.
LEMMA OnTheWayIsProjected ==
    ASSUME route \in Routes, NEW s, s.at \in Point, OnTheWay(s)
    PROVE  \E on \in Projections(route, s.at) : Within(on.far, Corridor)
<1>1. PICK i \in Segments(route) : Within(Projected(route, i, s.at).far, Corridor)
  BY DEF OnTheWay
<1>2. i \in Seen(route, s.at)
  BY <1>1, SegmentsTyped, NearIsIndexed DEF Seen, Projected, Segment
<1>3. PICK j \in Nearest(route, s.at) : TRUE
  BY <1>2, NearestExists
<1>4. /\ j \in Segments(route)
      /\ ~Less(Projected(route, i, s.at).far, Projected(route, j, s.at).far)
  BY <1>2, <1>3 DEF Nearest, Seen
<1>5. Within(Projected(route, j, s.at).far, Corridor)
  BY <1>1, <1>4, SegmentsTyped, WithinIsNearer, GeometryAssumption
<1> DEFINE on == [mile |-> StartMile(route, j),
                  fraction |-> Projected(route, j, s.at).fraction,
                  far |-> Projected(route, j, s.at).far]
<1>6. on \in Projections(route, s.at)
  BY <1>3 DEF Projections
<1> QED BY <1>5, <1>6

--------------------------------------------------------------------------------
(* The matching loop *)

LEMMA GeometryAtStart == GeometryInit => GeometryInvariant
BY DEF GeometryInit, GeometryInvariant, CandidatesAreProjected, PassedAreShown

LEMMA StationsTyped ==
    ASSUME catalogue \in Sets, NEW s \in catalogue PROVE s.at \in Point /\ s.price \in Nat
BY GeometryAssumption

\* Who was shown stays shown while candidates are only added.
LEMMA ShownStaysAdded ==
    ASSUME matched \subseteq matched', UNCHANGED <<route, rules>>, NEW s, Shown(s)
    PROVE  Shown(s)'
BY DEF Shown

\* A candidate that ranks better than those of its place and city costs no more,
\* so who was shown by one of them is shown by it.
LEMMA ShownStaysReplaced ==
    ASSUME NEW c, NEW same, same = {d \in matched : PlaceKey(d) = PlaceKey(c)},
           \A d \in same : Ranks(c, d),
           matched' = (matched \ same) \union {c},
           rules = "first", UNCHANGED <<route, rules>>,
           c.station.price \in Nat, \A d \in matched : d.station.price \in Nat,
           \A d \in matched : d.on \in Projections(route, d.station.at),
           NEW s, s.price \in Nat, Shown(s)
    PROVE  Shown(s)'
<1>1. PICK d \in matched :
         \/ d.station = s
         \/ /\ d.station.price <= s.price
            /\ \E p \in Projections(route, s.at) : PlaceKey(d) = PlaceKey([station |-> s, on |-> p])
  BY DEF Shown
<1>2. CASE d \notin same
  <2>1. d \in matched'
    BY <1>1, <1>2
  <2> QED BY <1>1, <2>1 DEF Shown
<1>3. CASE d \in same
  <2>1. c.station.price <= d.station.price
    BY <1>3 DEF Ranks
  <2>2. c.station.price <= s.price
    BY <1>1, <2>1
  <2>3. PlaceKey(c) = PlaceKey(d)
    BY <1>3
  <2>4. \E p \in Projections(route, s.at) : PlaceKey(c) = PlaceKey([station |-> s, on |-> p])
    <3>1. CASE d.station = s
      <4>1. PlaceKey(d) = PlaceKey([station |-> s, on |-> d.on])
        BY <3>1 DEF PlaceKey
      <4> QED BY <1>1, <2>3, <3>1, <4>1
    <3>2. CASE d.station # s
      BY <1>1, <2>3, <3>2
    <3> QED BY <3>1, <3>2
  <2>5. c \in matched'
    OBVIOUS
  <2> QED BY <2>2, <2>4, <2>5 DEF Shown
<1> QED BY <1>2, <1>3

LEMMA GeometryKept == GeometryInvariant /\ [Match]_geometryVars => GeometryInvariant'
<1> SUFFICES ASSUME GeometryInvariant, [Match]_geometryVars PROVE GeometryInvariant'
  OBVIOUS
<1>1. CASE UNCHANGED geometryVars
  BY <1>1 DEF geometryVars, GeometryInvariant, CandidatesAreProjected, PassedAreShown,
              OnTheWay, Offered, Shown
<1>2. ASSUME NEW q \in left, left' = left \ {q}, UNCHANGED <<route, catalogue, rules>>,
             (rules = "priced" /\ MatchPriced(q)) \/ (rules = "first" /\ MatchFirst(q))
      PROVE  GeometryInvariant'
  <2> DEFINE on == {p \in Projections(route, q.at) : Within(p.far, Corridor)}
  <2>1. /\ route \in Routes /\ catalogue \in Sets /\ q \in catalogue
        /\ q.at \in Point /\ q.price \in Nat
    BY <1>2, StationsTyped DEF GeometryInvariant
  <2>2. OnTheWay(q) => on # {}
    BY <2>1, OnTheWayIsProjected
  <2>3. \A c \in matched : /\ c.station \in catalogue /\ c.station.price \in Nat
                           /\ c.on \in Projections(route, c.station.at)
    BY <2>1, StationsTyped DEF GeometryInvariant, CandidatesAreProjected
  \* What a step may do to the candidates.
  <2>4. /\ CandidatesAreProjected'
        /\ \A s \in catalogue : Shown(s) => Shown(s)'
        /\ OnTheWay(q) /\ Offered(q) => Shown(q)'
    <3>1. CASE UNCHANGED matched /\ ~(OnTheWay(q) /\ Offered(q))
      <4>1. CandidatesAreProjected'
        BY <1>2, <3>1 DEF GeometryInvariant, CandidatesAreProjected
      <4> QED BY <1>2, <3>1, <4>1, ShownStaysAdded
    <3>2. ASSUME NEW p \in on, matched' = matched \union {[station |-> q, on |-> p]}
          PROVE  /\ CandidatesAreProjected'
                 /\ \A s \in catalogue : Shown(s) => Shown(s)'
                 /\ Shown(q)'
      <4>1. CandidatesAreProjected'
        BY <1>2, <2>1, <3>2 DEF GeometryInvariant, CandidatesAreProjected
      <4>2. Shown(q)'
        BY <3>2 DEF Shown
      <4> QED BY <1>2, <3>2, <4>1, <4>2, ShownStaysAdded
    <3>3. CASE rules = "priced" /\ MatchPriced(q)
      <4>1. CASE q.closed \/ q.price = 0 \/ on = {}
        <5>1. UNCHANGED matched /\ ~(OnTheWay(q) /\ Offered(q))
          BY <2>1, <2>2, <3>3, <4>1 DEF MatchPriced, Offered
        <5> QED BY <3>1, <5>1
      <4>2. CASE ~(q.closed \/ q.price = 0 \/ on = {})
        <5>1. PICK p \in on : matched' = matched \union {[station |-> q, on |-> p]}
          BY <3>3, <4>2 DEF MatchPriced
        <5> QED BY <3>2, <5>1
      <4> QED BY <4>1, <4>2
    <3>4. CASE rules = "first" /\ MatchFirst(q)
      <4>1. CASE on = {}
        <5>1. UNCHANGED matched /\ ~(OnTheWay(q) /\ Offered(q))
          BY <2>2, <3>4, <4>1 DEF MatchFirst
        <5> QED BY <3>1, <5>1
      <4>2. CASE on # {}
        <5>1. PICK p \in on :
                LET c == [station |-> q, on |-> p]
                    same == {d \in matched : PlaceKey(d) = PlaceKey(c)}
                IN  matched' = IF \A d \in same : Ranks(c, d)
                               THEN (matched \ same) \union {c} ELSE matched
          BY <3>4, <4>2 DEF MatchFirst
        <5> DEFINE c == [station |-> q, on |-> p]
                   same == {d \in matched : PlaceKey(d) = PlaceKey(c)}
        <5>2. CASE \A d \in same : Ranks(c, d)
          <6>1. matched' = (matched \ same) \union {c}
            BY <5>1, <5>2
          <6>2. CandidatesAreProjected'
            BY <1>2, <2>1, <6>1 DEF GeometryInvariant, CandidatesAreProjected
          <6>3. Shown(q)'
            BY <6>1 DEF Shown
          <6>4. c.station.price \in Nat
            BY <2>1
          <6> HIDE DEF c
          <6>5. \A s \in catalogue : s.price \in Nat
            BY <2>1, StationsTyped
          <6>6. \A s \in catalogue : Shown(s) => Shown(s)'
            BY <1>2, <2>3, <3>4, <5>2, <6>1, <6>4, <6>5, ShownStaysReplaced
          <6> QED BY <6>2, <6>3, <6>6
        <5>3. CASE ~(\A d \in same : Ranks(c, d))
          <6>1. UNCHANGED matched
            BY <5>1, <5>3
          <6>2. PICK d \in same : ~Ranks(c, d)
            BY <5>3
          <6>3. d.station.price <= q.price
            BY <2>1, <2>3, <6>2 DEF Ranks
          <6>4. Shown(q)'
            BY <1>2, <3>4, <6>1, <6>2, <6>3 DEF Shown
          <6>5. CandidatesAreProjected'
            BY <1>2, <6>1 DEF GeometryInvariant, CandidatesAreProjected
          <6> QED BY <1>2, <6>1, <6>4, <6>5, ShownStaysAdded
        <5> QED BY <5>2, <5>3
      <4> QED BY <4>1, <4>2
    <3> QED BY <1>2, <3>3, <3>4
  <2>5. PassedAreShown'
    <3>1. \A s : OnTheWay(s)' = OnTheWay(s) /\ Offered(s)' = Offered(s)
      BY <1>2 DEF OnTheWay, Offered
    <3>2. \A s \in catalogue \ left : OnTheWay(s) /\ Offered(s) => Shown(s)
      BY DEF GeometryInvariant, PassedAreShown
    <3>3. catalogue' \ left' \subseteq (catalogue \ left) \union {q}
      BY <1>2
    <3> HIDE DEF on
    <3> QED BY <2>1, <2>4, <3>1, <3>2, <3>3 DEF PassedAreShown
  <2> QED BY <1>2, <2>4, <2>5 DEF GeometryInvariant
<1> QED BY <1>1, <1>2 DEF Match

\* A candidate's distance is the one to the whole route, and no station that can
\* be used within the corridor is overlooked (RouteGeometryIndex.project,
\* route_priced_stations and route_stations).
THEOREM NoStationIsLost == GeometrySpec => []StationsAreMatched
<1>1. GeometryInvariant => StationsAreMatched
  <2> SUFFICES ASSUME GeometryInvariant PROVE StationsAreMatched
    OBVIOUS
  <2>1. ASSUME NEW c \in matched, NEW i \in Segments(route)
        PROVE  ~Less(Projected(route, i, c.station.at).far, c.on.far)
    BY <2>1, StationsTyped, ProjectionIsNearest DEF GeometryInvariant, CandidatesAreProjected
  <2>2. left = {} => \A s \in catalogue : OnTheWay(s) /\ Offered(s) => Shown(s)
    BY DEF GeometryInvariant, PassedAreShown
  <2> QED BY <2>1, <2>2 DEF StationsAreMatched
<1> QED BY <1>1, GeometryAtStart, GeometryKept, PTL DEF GeometrySpec

--------------------------------------------------------------------------------
(* The order of the candidates *)

LEMMA BeforeOrders ==
    /\ \A a, b \in Candidate : a = b \/ Before(a, b) \/ Before(b, a)
    /\ \A a, b \in Candidate : Before(a, b) => a # b /\ a.at <= b.at
    /\ \A a, b, c \in Candidate : Before(a, b) /\ Before(b, c) => Before(a, c)
BY DEF Before, Candidate

LEMMA BetterOrders ==
    /\ \A a, b \in Candidate : a = b \/ Better(a, b) \/ Better(b, a)
    /\ \A a, b, c \in Candidate : Better(a, b) /\ Better(b, c) => Better(a, c)
BY DEF Better, Candidate

\* The sequences of a set's elements, one after the other.
InTurn(s) == \A i, j \in DOMAIN s : i < j => Before(s[i], s[j])

\* Every finite set of candidates can be sorted: of a smallest set that cannot,
\* what precedes its last element can be.
LEMMA SortedExists ==
    ASSUME NEW S \in SUBSET Candidate, IsFiniteSet(S)
    PROVE  \E s \in SetToSeqs(S) : InTurn(s)
<1> DEFINE Ordered(n) == \A T \in SUBSET Candidate :
               IsFiniteSet(T) /\ Cardinality(T) = n => \E s \in SetToSeqs(T) : InTurn(s)
           P == {n \in Nat : Ordered(n)}
<1>1. 0 \in P
  <2>1. ASSUME NEW T \in SUBSET Candidate, IsFiniteSet(T), Cardinality(T) = 0
        PROVE  \E s \in SetToSeqs(T) : InTurn(s)
    <3>1. T = {}
      BY <2>1, FS_EmptySet
    <3> DEFINE s == [i \in 1..0 |-> i]
    <3>2. s \in [1..Cardinality(T) -> T] /\ DOMAIN s = {}
      BY <2>1
    <3>3. s \in SetToSeqs(T)
      BY <2>1, <3>2 DEF SetToSeqs
    <3> QED BY <3>2, <3>3 DEF InTurn
  <2> QED BY <2>1
<1>2. ASSUME NEW n \in Nat, n \in P PROVE n + 1 \in P
  <2> SUFFICES ASSUME NEW T \in SUBSET Candidate, IsFiniteSet(T), Cardinality(T) = n + 1
               PROVE  \E s \in SetToSeqs(T) : InTurn(s)
    OBVIOUS
  <2> DEFINE R == {p \in T \X T : p[1] = p[2] \/ Before(p[1], p[2])}
  <2>1. \A x, y \in T : <<x, y>> \in R <=> x = y \/ Before(x, y)
    OBVIOUS
  <2> HIDE DEF R
  <2>2. T # {}
    BY FS_EmptySet
  <2>3. /\ \A x, y \in T : <<x, y>> \in R \/ <<y, x>> \in R
        /\ \A x, y, z \in T : <<x, y>> \in R /\ <<y, z>> \in R => <<x, z>> \in R
    BY <2>1, BeforeOrders
  <2>4. PICK x \in T : \A y \in T : <<y, x>> \in R
    BY <2>2, <2>3, LastExists
  <2> DEFINE U == T \ {x}
  <2>5. U \in SUBSET Candidate /\ IsFiniteSet(U) /\ Cardinality(U) = n
    <3>1. Cardinality(U) = Cardinality(T) - 1 /\ IsFiniteSet(U)
      BY FS_RemoveElement
    <3> QED BY <3>1
  <2>6. PICK u \in SetToSeqs(U) : InTurn(u)
    BY <1>2, <2>5
  <2>7. u \in [1..n -> U] /\ \A i, j \in 1..n : i # j => u[i] # u[j]
    BY <2>5, <2>6 DEF SetToSeqs
  <2> DEFINE s == [i \in 1..(n + 1) |-> IF i = n + 1 THEN x ELSE u[i]]
  <2>8. s \in [1..(n + 1) -> T] /\ \A i, j \in 1..(n + 1) : i # j => s[i] # s[j]
    BY <2>7
  <2>9. s \in SetToSeqs(T)
    BY <2>8 DEF SetToSeqs
  <2>10. InTurn(s)
    <3>1. ASSUME NEW i \in 1..(n + 1), NEW j \in 1..(n + 1), i < j PROVE Before(s[i], s[j])
      <4>1. i \in 1..n /\ s[i] = u[i] /\ u[i] \in U
        BY <2>7, <3>1
      <4>2. CASE j = n + 1
        BY <2>1, <2>4, <4>1, <4>2
      <4>3. CASE j # n + 1
        BY <2>6, <2>7, <3>1, <4>1, <4>3 DEF InTurn
      <4> QED BY <4>2, <4>3
    <3> QED BY <3>1 DEF InTurn
  <2> QED BY <2>9, <2>10
<1>3. Nat \subseteq P
  <2> HIDE DEF P
  <2> QED BY <1>1, <1>2, AllNumbers
<1> QED BY <1>3, FS_CardinalityType

LEMMA SortedIsInTurn ==
    ASSUME NEW S \in SUBSET Candidate, IsFiniteSet(S)
    PROVE  Sorted(S) \in Seq(S) /\ InTurn(Sorted(S))
<1>1. Sorted(S) \in SetToSeqs(S) /\ InTurn(Sorted(S))
  BY SortedExists DEF Sorted, InTurn
<1>2. Sorted(S) \in [1..Cardinality(S) -> S] /\ Cardinality(S) \in Nat
  BY <1>1, FS_CardinalityType DEF SetToSeqs
<1> QED BY <1>1, <1>2

--------------------------------------------------------------------------------
(* Merging *)

LEMMA KeepTyped ==
    ASSUME NEW kept \in Seq(Candidate), NEW c \in Candidate
    PROVE  /\ Keep(kept, c) \in Seq(Candidate)
           /\ \/ Keep(kept, c) = kept
              \/ Keep(kept, c) = Append(kept, c)
              \/ kept # <<>> /\ Keep(kept, c) = [kept EXCEPT ![Len(kept)] = c]
BY DEF Keep, ReplaceAt, Last

\* What is kept of the first n candidates is in order, and before the next.
LEMMA KeepInOrder ==
    ASSUME NEW kept \in Seq(Candidate), InTurn(kept), NEW c \in Candidate,
           \A i \in DOMAIN kept : Before(kept[i], c)
    PROVE  /\ InTurn(Keep(kept, c))
           /\ \A i \in DOMAIN Keep(kept, c) :
                 Keep(kept, c)[i] = c \/ \E j \in DOMAIN kept : Keep(kept, c)[i] = kept[j]
<1> DEFINE new == Keep(kept, c)
<1>1. CASE new = kept
  BY <1>1
<1>2. CASE new = Append(kept, c)
  <2>1. /\ DOMAIN new = 1..(Len(kept) + 1) /\ new[Len(kept) + 1] = c
        /\ \A i \in 1..Len(kept) : new[i] = kept[i]
    BY <1>2
  <2> HIDE DEF new
  <2> QED BY <2>1 DEF InTurn, new
<1>3. CASE kept # <<>> /\ new = [kept EXCEPT ![Len(kept)] = c]
  <2>1. /\ DOMAIN new = 1..Len(kept) /\ new[Len(kept)] = c
        /\ \A i \in 1..Len(kept) : i # Len(kept) => new[i] = kept[i]
    BY <1>3
  <2> HIDE DEF new
  <2> QED BY <2>1 DEF InTurn, new
<1> QED BY <1>1, <1>2, <1>3, KeepTyped

LEMMA UpToNext ==
    ASSUME NEW n \in Nat
    PROVE  /\ 1..(n + 1) # {} /\ (1..(n + 1)) \ {n + 1} = 1..n
           /\ Max(1..(n + 1)) = n + 1
<1>1. n + 1 \in 1..(n + 1) /\ 1..(n + 1) \subseteq Int
  OBVIOUS
<1>2. IsFiniteSet(1..(n + 1)) /\ 1..(n + 1) # {}
  <2>1. IsFiniteSet(1..(n + 1))
    BY FS_Interval
  <2> QED BY <1>1, <2>1
<1>3. /\ Max(1..(n + 1)) \in 1..(n + 1)
      /\ \A x \in 1..(n + 1) : x <= Max(1..(n + 1))
  BY <1>1, <1>2, Extremes
<1>4. (1..(n + 1)) \ {n + 1} = 1..n
  OBVIOUS
<1> QED BY <1>1, <1>2, <1>3, <1>4

\* What is kept of the first n candidates of a sequence.
Merged(s) == FoldLeft(Keep, <<>>, s)

KeptInTurn(g, s) ==
    /\ g[0] = <<>> /\ g[Len(s)] = Merged(s)
    /\ \A n \in Nat : n + 1 <= Len(s) => g[n + 1] = Keep(g[n], s[n + 1])

LEMMA KeptOneByOne ==
    ASSUME NEW s \in Seq(Candidate)
    PROVE  \E g : KeptInTurn(g, s)
<1> DEFINE D == DOMAIN s
           Fold(g) == [t \in SUBSET D |->
                         IF t = {} THEN <<>> ELSE Keep(g[t \ {Max(t)}], s[Max(t)])]
           iter == CHOOSE g : g = Fold(g)
<1>3. Merged(s) = iter[D]
  BY DEF Merged, FoldLeft, MapThenFoldSet
<1>4. D = 1..Len(s) /\ Len(s) \in Nat /\ IsFiniteSet(D) /\ D \subseteq Int
  BY FS_Interval
<1>5. \A t \in SUBSET D : t # {} => Max(t) \in t
  BY <1>4, Extremes, FS_Subset
<1>6. iter = Fold(iter)
  <2> DEFINE next == [t \in SUBSET D |-> Max(t)]
             op == [p \in D \X Seq(Candidate) |-> Keep(p[2], s[p[1]])]
  <2>1. \A t \in SUBSET D : next[t] = Max(t)
    OBVIOUS
  <2>2. \A x \in D : \A v \in Seq(Candidate) : op[<<x, v>>] = Keep(v, s[x])
    OBVIOUS
  <2> HIDE DEF next, op
  <2>3. ASSUME NEW x \in D, NEW v \in Seq(Candidate)
        PROVE  op[<<x, v>>] \in Seq(Candidate)
    <3>1. s[x] \in Candidate
      BY <1>4
    <3>2. Keep(v, s[x]) \in Seq(Candidate)
      BY <3>1, KeepTyped
    <3>3. op[<<x, v>>] = Keep(v, s[x])
      BY <2>2
    <3> QED BY <3>2, <3>3
  <2>4. \A t \in SUBSET D : t # {} => next[t] \in t
    BY <1>5, <2>1
  <2>5. PICK g \in [SUBSET D -> Seq(Candidate)] : Folds(g, D, <<>>, next, op)
    <3>1. <<>> \in Seq(Candidate)
      OBVIOUS
    <3> HIDE DEF D
    <3>2. Foldable(D, Seq(Candidate), <<>>, next, op)
      BY <1>4, <2>3, <2>4, <3>1 DEF Foldable
    <3> QED BY <3>2, FoldExists
  <2>6. \A t \in SUBSET D : g[t] = Fold(g)[t]
    <3>1. ASSUME NEW t \in SUBSET D, t # {}
          PROVE  g[t] = Keep(g[t \ {Max(t)}], s[Max(t)])
      <4>1. t \ {Max(t)} \in SUBSET D /\ Max(t) \in D
        BY <1>5, <3>1
      <4>2. g[t \ {Max(t)}] \in Seq(Candidate)
        BY <2>5, <4>1
      <4>3. g[t] = op[<<Max(t), g[t \ {Max(t)}]>>]
        BY <2>1, <2>5, <3>1 DEF Folds
      <4> QED BY <2>2, <4>1, <4>2, <4>3
    <3>2. g[{}] = <<>>
      BY <2>5 DEF Folds
    <3> QED BY <3>1, <3>2
  <2>7. g = Fold(g)
    BY <2>5, <2>6
  <2> HIDE DEF Fold
  <2> QED BY <2>7
<1> HIDE DEF iter
<1>7. \A t \in SUBSET D :
         iter[t] = IF t = {} THEN <<>> ELSE Keep(iter[t \ {Max(t)}], s[Max(t)])
  BY <1>6
<1> HIDE DEF D, Fold
<1>8. iter[1..0] = <<>>
  <2>1. 1..0 = {} /\ {} \in SUBSET D
    OBVIOUS
  <2> QED BY <1>7, <2>1
<1>9. ASSUME NEW n \in Nat, n + 1 <= Len(s)
      PROVE  iter[1..(n + 1)] = Keep(iter[1..n], s[n + 1])
  <2>1. 1..(n + 1) \subseteq 1..Len(s)
    <3> DEFINE l == Len(s)
    <3>1. l \in Nat /\ n + 1 <= l
      BY <1>4, <1>9
    <3> HIDE DEF l
    <3> QED BY <3>1 DEF l
  <2>2. 1..(n + 1) \in SUBSET D
    BY <1>4, <2>1
  <2> QED BY <1>7, <2>2, UpToNext
<1> DEFINE g == [n \in 0..Len(s) |-> iter[1..n]]
<1>10. \A n \in 0..Len(s) : g[n] = iter[1..n]
  OBVIOUS
<1>11. /\ 0 \in 0..Len(s) /\ Len(s) \in 0..Len(s)
       /\ \A n \in Nat : n + 1 <= Len(s) => n \in 0..Len(s) /\ n + 1 \in 0..Len(s)
  BY <1>4
<1> HIDE DEF g
<1>12. g[Len(s)] = Merged(s)
  BY <1>3, <1>4, <1>10, <1>11
<1>13. g[0] = <<>>
  BY <1>8, <1>10, <1>11
<1>14. \A n \in Nat : n + 1 <= Len(s) => g[n + 1] = Keep(g[n], s[n + 1])
  BY <1>9, <1>10, <1>11
<1> QED BY <1>12, <1>13, <1>14 DEF KeptInTurn

\* The stations a plan is made for are candidates on the route, in order.
LEMMA PreparedInOrder ==
    ASSUME NEW S \in SUBSET Candidate, IsFiniteSet(S), NEW far \in Nat
    PROVE  InOrder(Prepare(S, far), far)
<1> DEFINE T == {c \in S : 0 < c.at /\ c.at < far}
           s == Sorted(T)
<1>1. T \in SUBSET Candidate /\ IsFiniteSet(T)
  BY FS_Subset
<1>2. s \in Seq(T) /\ InTurn(s)
  BY <1>1, SortedIsInTurn
<1>3. Prepare(S, far) = Merged(s)
  BY DEF Prepare, Merged, FoldLeft, MapThenFoldSet
<1> HIDE DEF s
<1>4. s \in Seq(Candidate) /\ Len(s) \in Nat /\ DOMAIN s = 1..Len(s)
  BY <1>1, <1>2
<1>5. PICK g : KeptInTurn(g, s)
  BY <1>4, KeptOneByOne
<1> DEFINE Good(kept, n) == /\ kept \in Seq(T) /\ InTurn(kept)
                            /\ \A i \in DOMAIN kept : \E j \in 1..n : kept[i] = s[j]
           P == {n \in Nat : n <= Len(s) => Good(g[n], n)}
<1>8. 0 \in P
  <2>1. <<>> \in Seq(T) /\ DOMAIN <<>> = {}
    OBVIOUS
  <2>2. Good(<<>>, 0)
    BY <2>1 DEF InTurn
  <2>3. g[0] = <<>>
    BY <1>5 DEF KeptInTurn
  <2> HIDE DEF Good
  <2> QED BY <2>2, <2>3
<1>9. ASSUME NEW n \in Nat, n \in P PROVE n + 1 \in P
  <2> SUFFICES ASSUME n + 1 <= Len(s) PROVE Good(g[n + 1], n + 1)
    OBVIOUS
  <2>1. Good(g[n], n)
    BY <1>4, <1>9
  <2> DEFINE kept == g[n]
             c == s[n + 1]
  <2>4. g[n + 1] = Keep(kept, c)
    BY <1>5 DEF KeptInTurn
  <2>5. c \in T /\ c \in Candidate /\ \A j \in 1..n : Before(s[j], c)
    BY <1>1, <1>2, <1>4 DEF InTurn
  <2>6. kept \in Seq(Candidate) /\ kept \in Seq(T) /\ InTurn(kept)
    BY <1>1, <2>1
  <2>7. \A i \in DOMAIN kept : Before(kept[i], c)
    BY <2>1, <2>5
  <2> HIDE DEF kept, c, T
  <2>8. /\ InTurn(Keep(kept, c))
        /\ \A i \in DOMAIN Keep(kept, c) :
              Keep(kept, c)[i] = c \/ \E j \in DOMAIN kept : Keep(kept, c)[i] = kept[j]
    BY <2>5, <2>6, <2>7, KeepInOrder
  <2>9. Keep(kept, c) \in Seq(T)
    <3>1. Keep(kept, c) \in Seq(Candidate)
      BY <2>5, <2>6, KeepTyped
    <3>2. \A i \in DOMAIN Keep(kept, c) : Keep(kept, c)[i] \in T
      BY <2>5, <2>6, <2>8
    <3> QED BY <3>1, <3>2
  <2>10. \A i \in DOMAIN Keep(kept, c) : \E j \in 1..(n + 1) : Keep(kept, c)[i] = s[j]
    <3>1. \A i \in DOMAIN kept : \E j \in 1..n : kept[i] = s[j]
      BY <2>1 DEF kept
    <3>2. n + 1 \in 1..(n + 1) /\ 1..n \subseteq 1..(n + 1) /\ c = s[n + 1]
      BY DEF c
    <3> QED BY <2>8, <3>1, <3>2
  <2> QED BY <2>4, <2>8, <2>9, <2>10
<1>10. Nat \subseteq P
  <2> HIDE DEF P
  <2> QED BY <1>8, <1>9, AllNumbers
<1>11. Good(g[Len(s)], Len(s))
  <2>1. Len(s) \in P
    BY <1>4, <1>10
  <2> HIDE DEF Good
  <2> QED BY <1>4, <2>1
<1>12. Merged(s) \in Seq(T) /\ InTurn(Merged(s))
  BY <1>5, <1>11 DEF KeptInTurn
<1>13. \A i \in DOMAIN Merged(s) : Merged(s)[i] \in T
  BY <1>12
<1> QED BY <1>1, <1>3, <1>12, <1>13 DEF InOrder, InTurn

--------------------------------------------------------------------------------
(* How far the loop buys *)

\* What is looked up among the next stations is nothing or one of their places.
LEMMA LookedUp ==
    ASSUME NEW here \in Int, NEW price \in Int, NEW next \in Seq(Candidate)
    PROVE  /\ FirstCheaper(here, price, next) # 0 =>
                \E k \in DOMAIN next : FirstCheaper(here, price, next) = next[k].at
           /\ LastEqual(here, price, next) # 0 =>
                \E k \in DOMAIN next : LastEqual(here, price, next) = next[k].at
<1> DEFINE cheaper == {i \in DOMAIN next : next[i].at - here <= Capacity /\ next[i].price < price}
           equal == {i \in DOMAIN next : next[i].at - here <= Capacity /\ next[i].price = price}
<1>1. IsFiniteSet(DOMAIN next) /\ DOMAIN next \subseteq Int
  BY FS_Interval
<1>2. /\ IsFiniteSet(cheaper) /\ cheaper \subseteq Int
      /\ IsFiniteSet(equal) /\ equal \subseteq Int
  BY <1>1, FS_Subset
<1>3. /\ FirstCheaper(here, price, next) = IF cheaper = {} THEN 0 ELSE next[Min(cheaper)].at
      /\ LastEqual(here, price, next) = IF equal = {} THEN 0 ELSE next[Max(equal)].at
  BY DEF FirstCheaper, LastEqual
<1>4. cheaper \subseteq DOMAIN next /\ equal \subseteq DOMAIN next
  OBVIOUS
<1> HIDE DEF cheaper, equal
<1>5. /\ cheaper # {} => Min(cheaper) \in DOMAIN next
      /\ equal # {} => Max(equal) \in DOMAIN next
  BY <1>2, <1>4, Extremes
<1> QED BY <1>3, <1>5

\* The stops of a plan, from the origin.
OnTheRoad ==
    /\ distance \in Nat /\ stops \in Seq(Candidate)
    /\ \A i \in DOMAIN stops : stops[i].at <= distance
    /\ \A i \in 1..(Len(stops) - 1) : 0 < stops[i + 1].at /\ Leg(i) >= 0

\* Where stops lie, a later one is no nearer.
LEMMA Onwards ==
    ASSUME OnTheRoad, \A i, j \in DOMAIN stops : 1 < i /\ i < j => stops[i].at <= stops[j].at,
           NEW i \in DOMAIN stops
    PROVE  /\ Leg(i) \in Nat
           /\ RoadTarget(i) # 0 => RoadTarget(i) \in Int /\ RoadTarget(i) - stops[i].at >= Leg(i)
<1> DEFINE here == stops[i]
           next == SubSeq(stops, i + 1, Len(stops))
<1>1. here \in Candidate /\ i \in Nat /\ Len(stops) \in Nat /\ i <= Len(stops) /\ 1 <= i
  BY DEF OnTheRoad
<1>2. /\ next \in Seq(Candidate) /\ DOMAIN next = 1..(Len(stops) - i)
      /\ \A k \in DOMAIN next : next[k] = stops[i + k]
  BY <1>1 DEF OnTheRoad
<1> HIDE DEF next
<1> DEFINE n == Len(stops)
<1>3. /\ DOMAIN stops = 1..n /\ distance \in Int
      /\ \A j \in 1..n : stops[j].at \in Int /\ stops[j].at <= distance
  <2>1. DOMAIN stops = 1..n /\ distance \in Int
    BY DEF OnTheRoad
  <2>2. \A j \in 1..n : stops[j] \in Candidate /\ stops[j].at <= distance
    BY <2>1 DEF OnTheRoad
  <2> HIDE DEF n
  <2>3. \A c \in Candidate : c.at \in Int
    BY DEF Candidate
  <2> QED BY <2>1, <2>2, <2>3
<1>4. /\ i = n => Leg(i) = distance - here.at
      /\ i # n => /\ i + 1 \in 1..n
                  /\ Leg(i) = stops[i + 1].at - here.at /\ Leg(i) >= 0
  <2>1. i # n => i \in 1..(n - 1) /\ i + 1 \in 1..n
    BY <1>1
  <2> QED BY <2>1 DEF Leg, OnTheRoad
<1>5. Leg(i) \in Nat /\ distance - here.at >= Leg(i)
  <2>1. here.at \in Int /\ here.at <= distance
    BY <1>1, <1>3
  <2>2. CASE i = n
    BY <1>3, <1>4, <2>1, <2>2
  <2>3. CASE i # n
    <3>1. stops[i + 1].at \in Int /\ stops[i + 1].at <= distance
      BY <1>3, <1>4, <2>3
    <3> QED BY <1>3, <1>4, <2>1, <2>3, <3>1
  <2> QED BY <2>2, <2>3
<1>5a. \A k \in DOMAIN next : next[k].at \in Int /\ next[k].at - here.at >= Leg(i)
  <2> SUFFICES ASSUME NEW k \in DOMAIN next
               PROVE  next[k].at \in Int /\ next[k].at - here.at >= Leg(i)
    OBVIOUS
  <2>1. k \in Int /\ k >= 1 /\ i + k \in 1..n /\ i # n /\ next[k] = stops[i + k]
    BY <1>1, <1>2
  <2>2. stops[i + 1].at <= stops[i + k].at
    <3>1. CASE k = 1
      <4>1. stops[i + 1].at \in Int
        BY <1>3, <1>4, <2>1
      <4> QED BY <3>1, <4>1
    <3>2. CASE k # 1
      <4>1. 1 < i + 1 /\ i + 1 < i + k /\ i + 1 \in DOMAIN stops /\ i + k \in DOMAIN stops
        BY <1>1, <1>3, <1>4, <2>1, <3>2
      <4> QED BY <4>1
    <3> QED BY <3>1, <3>2
  <2>3. stops[i + k].at \in Int /\ stops[i + 1].at \in Int /\ here.at \in Int
    BY <1>1, <1>3, <1>4, <2>1
  <2> QED BY <1>4, <2>1, <2>2, <2>3
<1>6. here.at \in Int /\ here.price \in Int
  BY <1>1 DEF Candidate
<1>7. RoadTarget(i) \in {0, distance} \/ \E k \in DOMAIN next : RoadTarget(i) = next[k].at
  <2>1. \/ RoadTarget(i) = distance
        \/ RoadTarget(i) = FirstCheaper(here.at, here.price, next) /\ RoadTarget(i) # 0
        \/ RoadTarget(i) = LastEqual(here.at, here.price, next)
    BY DEF RoadTarget, next
  <2>2. /\ FirstCheaper(here.at, here.price, next) # 0 =>
             \E k \in DOMAIN next : FirstCheaper(here.at, here.price, next) = next[k].at
        /\ LastEqual(here.at, here.price, next) # 0 =>
             \E k \in DOMAIN next : LastEqual(here.at, here.price, next) = next[k].at
    BY <1>2, <1>6, LookedUp
  <2> HIDE DEF here
  <2> QED BY <2>1, <2>2
<1> HIDE DEF here
<1>8. distance \in Int
  BY <1>3
<1> QED BY <1>5, <1>5a, <1>7, <1>8 DEF here

\* After a purchase the tank lasts to the next stop, but for a volume too small
\* to buy.
LEMMA WantedIsTyped ==
    ASSUME NEW i \in DOMAIN stops, stops[i].at \in Int,
           RoadTarget(i) # 0 => RoadTarget(i) \in Int, NEW rest \in Nat
    PROVE  RoadWanted(i, rest) \in Nat
<1> DEFINE desired == IF RoadTarget(i) = 0 THEN Capacity ELSE RoadTarget(i) - stops[i].at
<1>1. Capacity \in Int /\ desired \in Int
  BY TankAssumption
<1>2. RoadWanted(i, rest) = Max({0, Min({Capacity, desired}) - rest})
  BY DEF RoadWanted
<1> HIDE DEF desired
<1>3. Min({Capacity, desired}) \in Int
  BY <1>1, OfTwo
<1> DEFINE most == Min({Capacity, desired})
<1>4. most - rest \in Int /\ 0 \in Int
  BY <1>3
<1> HIDE DEF most
<1>5. Max({0, most - rest}) \in Nat
  BY <1>4, OfTwo
<1> QED BY <1>2, <1>5 DEF most

LEMMA WantedIsEnough ==
    ASSUME NEW i \in DOMAIN stops, Leg(i) \in Nat, Leg(i) <= Capacity, stops[i].at \in Int,
           RoadTarget(i) # 0 => RoadTarget(i) \in Int /\ RoadTarget(i) - stops[i].at >= Leg(i),
           NEW rest \in Nat
    PROVE  RoadWanted(i, rest) \in Nat /\ rest + RoadWanted(i, rest) >= Leg(i)
<1> DEFINE desired == IF RoadTarget(i) = 0 THEN Capacity ELSE RoadTarget(i) - stops[i].at
           most == IF Capacity <= desired THEN Capacity ELSE desired
<1>1. Capacity \in Nat
  BY TankAssumption
<1>2. desired \in Int /\ desired >= Leg(i)
  <2>1. CASE RoadTarget(i) = 0
    BY <1>1, <2>1
  <2>2. CASE RoadTarget(i) # 0
    <3> DEFINE target == RoadTarget(i)
    <3>1. target # 0 /\ target \in Int /\ target - stops[i].at >= Leg(i)
      BY <2>2
    <3>2. desired = target - stops[i].at
      BY <2>2
    <3> HIDE DEF target, desired
    <3> QED BY <3>1, <3>2
  <2> QED BY <2>1, <2>2
<1>3. RoadWanted(i, rest) = Max({0, Min({Capacity, desired}) - rest})
  BY DEF RoadWanted
<1> HIDE DEF desired
<1>4. Min({Capacity, desired}) = most
  <2>1. Capacity \in Int /\ desired \in Int
    BY <1>1, <1>2
  <2> QED BY <2>1, OfTwo DEF most
<1>5. most \in Int /\ most >= Leg(i)
  BY <1>1, <1>2 DEF most
<1> HIDE DEF most
<1>6. Max({0, most - rest}) = IF 0 >= most - rest THEN 0 ELSE most - rest
  <2>1. most - rest \in Int /\ 0 \in Int
    BY <1>5
  <2> QED BY <2>1, OfTwo
<1>7. RoadWanted(i, rest) = IF 0 >= most - rest THEN 0 ELSE most - rest
  BY <1>3, <1>4, <1>6
<1> QED BY <1>5, <1>7

--------------------------------------------------------------------------------
(* The first API's loop *)

LEMMA RoadAtStart == RoadInit => RoadInvariant
<1> SUFFICES ASSUME RoadInit PROVE RoadInvariant
  OBVIOUS
<1>1. PICK road \in Roads : distance = road.distance /\ stations = Prepare(road.near, distance)
  BY DEF RoadInit
<1> DEFINE S == road.near
<1>2. S \in SUBSET Candidate /\ IsFiniteSet(S)
  BY RoadAssumption
<1>3. distance \in Nat
  BY <1>1, RoadAssumption
<1>4. InOrder(stations, distance)
  BY <1>1, <1>2, <1>3, PreparedInOrder
<1> QED BY <1>3, <1>4 DEF RoadInit, RoadInvariant, StopsAreOrdered, TankLasts, ValidatedRoutesAreDriven

\* The stations of a validated route are stops of it, after the origin.
LEMMA StopsFit ==
    ASSUME RoadInvariant, progress \in {"driving", "stuck", "planned"}
    PROVE  /\ OnTheRoad /\ Len(stops) >= 1
           /\ \A i, j \in DOMAIN stops : 1 < i /\ i < j => stops[i].at <= stops[j].at
<1>1. /\ distance \in Nat /\ InOrder(stations, distance)
      /\ stops \in Seq(Candidate) /\ Len(stops) = Len(stations) + 1 /\ stops[1].at = 0
      /\ \A i \in DOMAIN stations : stops[i + 1] = stations[i]
  BY DEF RoadInvariant, StopsAreOrdered
<1>2. stations \in Seq(Candidate) /\ Len(stations) \in Nat
  BY <1>1 DEF InOrder
<1>3. \A i \in DOMAIN stops : i # 1 => i - 1 \in DOMAIN stations /\ stops[i] = stations[i - 1]
  <2> SUFFICES ASSUME NEW i \in DOMAIN stops, i # 1
               PROVE  i - 1 \in DOMAIN stations /\ stops[i] = stations[i - 1]
    OBVIOUS
  <2>1. i - 1 \in 1..Len(stations) /\ (i - 1) + 1 = i
    BY <1>1, <1>2
  <2> QED BY <1>1, <1>2, <2>1
<1>4. \A i \in DOMAIN stops : i # 1 => 0 < stops[i].at /\ stops[i].at < distance
  <2>1. \A i \in DOMAIN stations : 0 < stations[i].at /\ stations[i].at < distance
    BY <1>1 DEF InOrder
  <2> QED BY <1>3, <2>1
<1>5. \A i \in DOMAIN stops : stops[i].at \in Int
  <2>1. \A c \in Candidate : c.at \in Int
    BY DEF Candidate
  <2> QED BY <1>1, <2>1
<1>6. \A i, j \in DOMAIN stops : 1 < i /\ i < j => stops[i].at <= stops[j].at
  <2> SUFFICES ASSUME NEW i \in DOMAIN stops, NEW j \in DOMAIN stops, 1 < i, i < j
               PROVE  stops[i].at <= stops[j].at
    OBVIOUS
  <2>1. i \in Int /\ j \in Int
    BY <1>1
  <2>2. i - 1 < j - 1 /\ i - 1 \in DOMAIN stations /\ j - 1 \in DOMAIN stations
        /\ stops[i] = stations[i - 1] /\ stops[j] = stations[j - 1]
    BY <1>3, <2>1
  <2>3. Before(stops[i], stops[j])
    BY <1>1, <2>2 DEF InOrder
  <2> QED BY <1>1, <2>3, BeforeOrders
<1>7. \A i \in 1..(Len(stops) - 1) : 0 < stops[i + 1].at /\ Leg(i) >= 0
  <2> SUFFICES ASSUME NEW i \in 1..(Len(stops) - 1)
               PROVE  0 < stops[i + 1].at /\ Leg(i) >= 0
    OBVIOUS
  <2>1. i \in DOMAIN stops /\ i + 1 \in DOMAIN stops /\ i + 1 # 1 /\ i # Len(stops)
    BY <1>1, <1>2
  <2>2. stops[i].at <= stops[i + 1].at
    <3>1. CASE i = 1
      BY <1>1, <1>4, <1>5, <2>1, <3>1
    <3>2. CASE i # 1
      BY <1>1, <1>6, <2>1, <3>2
    <3> QED BY <3>1, <3>2
  <2> QED BY <1>4, <1>5, <2>1, <2>2 DEF Leg
<1>8. \A i \in DOMAIN stops : stops[i].at <= distance
  BY <1>1, <1>4, <1>5
<1> QED BY <1>1, <1>2, <1>6, <1>7, <1>8 DEF OnTheRoad

\* The origin is a station moved there: of those looked at, one is better than
\* every other.
LEMMA OriginTyped ==
    ASSUME InOrder(stations, distance), ReferenceStations # {}
    PROVE  Origin \in Candidate /\ Origin.at = 0
<1> DEFINE S == ReferenceStations
           R == {k \in S \X S : k[1] = k[2] \/ Better(stations[k[2]], stations[k[1]])}
<1>1. stations \in Seq(Candidate) /\ S \subseteq DOMAIN stations
  BY DEF ReferenceStations, InOrder
<1>2. IsFiniteSet(S)
  <2>1. IsFiniteSet(DOMAIN stations)
    BY <1>1, FS_Interval
  <2> QED BY <1>1, <2>1, FS_Subset
<1>3. \A i, j \in S : <<i, j>> \in R <=> i = j \/ Better(stations[j], stations[i])
  OBVIOUS
<1>4. \A i, j \in S : i # j => stations[i] # stations[j]
  <2> SUFFICES ASSUME NEW i \in S, NEW j \in S, i # j PROVE stations[i] # stations[j]
    OBVIOUS
  <2>1. i \in DOMAIN stations /\ j \in DOMAIN stations /\ (i < j \/ j < i)
    BY <1>1
  <2>2. Before(stations[i], stations[j]) \/ Before(stations[j], stations[i])
    BY <2>1 DEF InOrder
  <2> QED BY <1>1, <2>1, <2>2, BeforeOrders
<1>5. \A i \in S : stations[i] \in Candidate
  BY <1>1
<1> HIDE DEF S, R
<1>6. /\ \A i, j \in S : <<i, j>> \in R \/ <<j, i>> \in R
      /\ \A i, j, k \in S : <<i, j>> \in R /\ <<j, k>> \in R => <<i, k>> \in R
  BY <1>3, <1>4, <1>5, BetterOrders
<1>7. PICK b \in S : \A j \in S : <<j, b>> \in R
  BY <1>2, <1>6, LastExists DEF S
<1>8. \A j \in S \ {b} : Better(stations[b], stations[j])
  BY <1>3, <1>7
<1> DEFINE best == CHOOSE i \in S : \A j \in S \ {i} : Better(stations[i], stations[j])
<1>9. best \in S
  BY <1>8
<1>10. Origin = [stations[best] EXCEPT !.at = 0]
  BY DEF Origin, S
<1> HIDE DEF best
<1> QED BY <1>5, <1>9, <1>10 DEF Candidate

\* The origin comes before the stations, which keep their places behind it.
LEMMA StopsBehindOrigin ==
    ASSUME InOrder(stations, distance), NEW o \in Candidate, o.at = 0,
           stops' = <<o>> \o stations
    PROVE  /\ stops' \in Seq(Candidate) /\ Len(stops') = Len(stations) + 1
           /\ stops'[1].at = 0
           /\ \A i \in DOMAIN stations : stops'[i + 1] = stations[i]
<1>1. stations \in Seq(Candidate) /\ <<o>> \in Seq(Candidate) /\ Len(<<o>>) = 1
  BY DEF InOrder
<1>2. /\ <<o>> \o stations \in Seq(Candidate)
      /\ Len(<<o>> \o stations) = Len(stations) + 1
      /\ (<<o>> \o stations)[1] = o
  BY <1>1
<1>3. \A i \in DOMAIN stations : (<<o>> \o stations)[i + 1] = stations[i]
  BY <1>1
<1> QED BY <1>2, <1>3

LEMMA ValidateKeepsRoad == RoadInvariant /\ ValidateRoad => RoadInvariant'
<1> SUFFICES ASSUME RoadInvariant, ValidateRoad PROVE RoadInvariant'
  OBVIOUS
<1>1. /\ progress = "planning" /\ at = 0 /\ at' = at /\ fuel' = fuel /\ bought' = bought
      /\ distance' = distance /\ stations' = stations
      /\ bought \in Seq(Int) /\ fuel \in Int /\ stops = <<>>
      /\ distance \in Nat /\ InOrder(stations, distance)
  BY DEF ValidateRoad, RoadInvariant, StopsAreOrdered
<1>2. CASE progress' = "refused" /\ stops' = stops
  <2>1. at' \in 0..Len(stops')
    BY <1>1, <1>2
  <2>2. InOrder(stations, distance)'
    BY <1>1 DEF InOrder
  <2> QED BY <1>1, <1>2, <2>1, <2>2
          DEF RoadInvariant, StopsAreOrdered, TankLasts, ValidatedRoutesAreDriven
<1>3. CASE progress' = "driving" /\ ReferenceStations # {} /\ stops' = <<Origin>> \o stations
  <2>1. Origin \in Candidate /\ Origin.at = 0
    BY <1>1, <1>3, OriginTyped
  <2>2. /\ stops' \in Seq(Candidate) /\ Len(stops') = Len(stations) + 1
        /\ stops'[1].at = 0
        /\ \A i \in DOMAIN stations : stops'[i + 1] = stations[i]
    BY <1>1, <1>3, <2>1, StopsBehindOrigin
  <2>3. at' \in 0..Len(stops')
    BY <1>1, <2>2
  <2>4. StopsAreOrdered'
    <3>1. InOrder(stations, distance)'
      BY <1>1 DEF InOrder
    <3> QED BY <1>1, <2>2, <3>1 DEF StopsAreOrdered
  <2> QED BY <1>1, <1>3, <2>3, <2>4 DEF RoadInvariant, TankLasts, ValidatedRoutesAreDriven
<1> QED BY <1>2, <1>3 DEF ValidateRoad

\* Where stops, stations and distance stay, so does what is said of them.
LEMMA RoadStays ==
    ASSUME RoadInvariant, progress = "driving",
           distance' = distance, stations' = stations, stops' = stops,
           progress' \in {"driving", "stuck", "planned"}
    PROVE  /\ StopsAreOrdered'
           /\ LegsFit' <=> LegsFit
           /\ \A i : Leg(i)' = Leg(i)
<1>1. InOrder(stations, distance)' <=> InOrder(stations, distance)
  BY DEF InOrder
<1>2. StopsAreOrdered'
  BY <1>1 DEF StopsAreOrdered, RoadInvariant
<1>3. \A i : Leg(i)' = Leg(i)
  BY DEF Leg
<1>4. LegsFit' <=> LegsFit
  BY DEF LegsFit, Leg
<1> QED BY <1>2, <1>3, <1>4

LEMMA LegTyped ==
    ASSUME RoadInvariant, progress = "driving", NEW i \in DOMAIN stops
    PROVE  Leg(i) \in Nat
BY StopsFit, Onwards

\* Where a leg fits the tank, what the loop wants there is enough for it.
LEMMA EnoughIsBought ==
    ASSUME RoadInvariant, progress = "driving", NEW i \in DOMAIN stops, NEW rest \in Nat
    PROVE  /\ RoadWanted(i, rest) \in Nat
           /\ LegsFit => rest + RoadWanted(i, rest) >= Leg(i)
<1>1. /\ OnTheRoad
      /\ \A j, k \in DOMAIN stops : 1 < j /\ j < k => stops[j].at <= stops[k].at
  BY StopsFit
<1>2. /\ Leg(i) \in Nat
      /\ RoadTarget(i) # 0 => RoadTarget(i) \in Int /\ RoadTarget(i) - stops[i].at >= Leg(i)
  BY <1>1, Onwards
<1>3. stops[i].at \in Int
  <2>1. \A c \in Candidate : c.at \in Int
    BY DEF Candidate
  <2> QED BY <1>1, <2>1 DEF OnTheRoad
<1>4. RoadWanted(i, rest) \in Nat
  BY <1>2, <1>3, WantedIsTyped
<1>5. LegsFit => Leg(i) <= Capacity
  BY DEF LegsFit
<1> QED BY <1>2, <1>3, <1>4, <1>5, WantedIsEnough

LEMMA FillKeepsRoad == RoadInvariant /\ FillAtOrigin => RoadInvariant'
<1> SUFFICES ASSUME RoadInvariant, FillAtOrigin PROVE RoadInvariant'
  OBVIOUS
<1> DEFINE volume == RoadWanted(1, 0)
<1>1. /\ progress = "driving" /\ progress' = progress /\ at' = 1
      /\ distance' = distance /\ stations' = stations /\ stops' = stops
      /\ bought' = <<volume>> /\ fuel' = volume
  BY DEF FillAtOrigin
<1>2. stops \in Seq(Candidate) /\ Len(stops) >= 1
  BY <1>1, StopsFit DEF OnTheRoad
<1>3. 1 \in DOMAIN stops /\ at' \in 0..Len(stops)
  BY <1>1, <1>2
<1>4. volume \in Nat /\ (LegsFit => volume >= Leg(1))
  BY <1>1, <1>3, EnoughIsBought
<1>5. StopsAreOrdered' /\ (LegsFit' <=> LegsFit) /\ Leg(1)' = Leg(1)
  BY <1>1, RoadStays
<1> HIDE DEF volume
<1>6. bought' \in Seq(Int) /\ fuel' \in Int
  BY <1>1, <1>4
<1>7. Leg(1) \in Int
  BY <1>1, <1>3, LegTyped
<1>8. LegsFit' => fuel' >= Leg(1)' - Near
  BY <1>1, <1>4, <1>5, <1>7, TankAssumption
<1>9. TankLasts'
  BY <1>1, <1>8 DEF TankLasts, Leg
<1> QED BY <1>1, <1>3, <1>5, <1>6, <1>9 DEF RoadInvariant, ValidatedRoutesAreDriven

LEMMA DriveKeepsRoad == RoadInvariant /\ DriveRoad => RoadInvariant'
<1> SUFFICES ASSUME RoadInvariant, DriveRoad PROVE RoadInvariant'
  OBVIOUS
<1> DEFINE i == at + 1
           remains == fuel - (stops[i].at - stops[at].at)
           rest == Max({0, remains})
           volume == RoadWanted(i, rest)
           kept == IF volume > Near THEN volume ELSE 0
<1>1. /\ progress = "driving" /\ at \in 1..(Len(stops) - 1)
      /\ distance' = distance /\ stations' = stations /\ stops' = stops
  BY DEF DriveRoad
<1>2. /\ stops \in Seq(Candidate) /\ fuel \in Int /\ bought \in Seq(Int)
  BY <1>1, StopsFit DEF OnTheRoad, RoadInvariant
<1>3. /\ at \in Nat /\ at \in DOMAIN stops /\ i \in DOMAIN stops /\ at # Len(stops)
      /\ i \in 0..Len(stops)
  BY <1>1, <1>2
<1>4. remains = fuel - Leg(at) /\ Leg(at) \in Int
  BY <1>1, <1>3, LegTyped DEF Leg
<1> HIDE DEF remains
<1>5. remains \in Int /\ rest = IF 0 >= remains THEN 0 ELSE remains
  BY <1>2, <1>4, OfTwo
<1> HIDE DEF rest
<1>6. rest \in Nat
  BY <1>5
<1>7. volume \in Nat /\ (LegsFit => rest + volume >= Leg(i))
  BY <1>1, <1>3, <1>6, EnoughIsBought
<1> HIDE DEF volume
<1>8. LegsFit => remains >= -Near
  BY <1>1, <1>2, <1>3, <1>4, TankAssumption DEF RoadInvariant, TankLasts
<1>9. CASE remains < -Near
  <2>1. /\ progress' = "stuck" /\ at' = at /\ fuel' = fuel /\ bought' = bought
    <3>1. ~(remains >= -Near)
      BY <1>5, <1>9, TankAssumption
    <3> QED BY <3>1 DEF DriveRoad, remains
  <2>2. StopsAreOrdered' /\ (LegsFit' <=> LegsFit)
    BY <1>1, <2>1, RoadStays
  <2>3. ~LegsFit
    BY <1>5, <1>8, <1>9, TankAssumption
  <2> QED BY <1>1, <1>2, <2>1, <2>2, <2>3
          DEF RoadInvariant, TankLasts, ValidatedRoutesAreDriven
<1>10. CASE remains >= -Near
  <2>1. /\ progress' = progress /\ at' = i /\ bought' = Append(bought, kept)
        /\ fuel' = rest + Last(bought')
    BY <1>10 DEF DriveRoad, remains, rest, volume
  <2>2. StopsAreOrdered' /\ (LegsFit' <=> LegsFit)
    BY <1>1, <2>1, RoadStays
  <2>3. kept \in Int /\ (LegsFit => rest + kept >= Leg(i) - Near)
    <3>1. Leg(i) \in Int
      BY <1>1, <1>3, LegTyped
    <3> HIDE DEF i
    <3> QED BY <1>6, <1>7, <3>1, TankAssumption
  <2> HIDE DEF kept
  <2>4. bought' \in Seq(Int) /\ Last(bought') = kept
    BY <1>2, <2>1, <2>3 DEF Last
  <2>5. fuel' \in Int /\ (LegsFit => fuel' >= Leg(i) - Near)
    BY <1>6, <2>1, <2>3, <2>4
  <2>6. TankLasts'
    <3>1. Leg(at)' = Leg(i)
      BY <1>1, <2>1 DEF Leg
    <3> QED BY <2>2, <2>5, <3>1 DEF TankLasts
  <2>7. at' \in 0..Len(stops')
    BY <1>1, <1>3, <2>1
  <2> QED BY <1>1, <2>1, <2>2, <2>4, <2>5, <2>6, <2>7
          DEF RoadInvariant, ValidatedRoutesAreDriven
<1>11. remains < -Near \/ remains >= -Near
  BY <1>5, TankAssumption
<1> QED BY <1>9, <1>10, <1>11

LEMMA ArriveKeepsRoad == RoadInvariant /\ ArriveOnRoad => RoadInvariant'
<1> SUFFICES ASSUME RoadInvariant, ArriveOnRoad PROVE RoadInvariant'
  OBVIOUS
<1>1. /\ progress = "driving" /\ at > 0 /\ at = Len(stops) /\ at' = at
      /\ progress' = IF fuel - (distance - stops[at].at) >= -Near THEN "planned" ELSE "stuck"
      /\ distance' = distance /\ stations' = stations /\ stops' = stops
      /\ fuel' = fuel /\ bought' = bought
  BY DEF ArriveOnRoad
<1>2. fuel \in Int /\ bought \in Seq(Int) /\ at \in 0..Len(stops)
  BY DEF RoadInvariant
<1>3. at \in DOMAIN stops
  BY <1>1, <1>2, StopsFit DEF OnTheRoad
<1>4. Leg(at) \in Int /\ Leg(at) = distance - stops[at].at
  BY <1>1, <1>3, LegTyped DEF Leg
<1>5. LegsFit => fuel >= Leg(at) - Near
  BY <1>1 DEF RoadInvariant, TankLasts
<1>6. progress' = "stuck" => ~LegsFit
  BY <1>1, <1>2, <1>4, <1>5, TankAssumption
<1>7. progress' \in {"stuck", "planned"}
  BY <1>1
<1>8. StopsAreOrdered' /\ (LegsFit' <=> LegsFit)
  BY <1>1, <1>7, RoadStays
<1> QED BY <1>1, <1>2, <1>6, <1>7, <1>8
        DEF RoadInvariant, TankLasts, ValidatedRoutesAreDriven

\* A validated route is driven to its end unless a leg of it is longer than a
\* full tank: dropping purchases too small to make never leaves the tank short
\* by more than _consume_fuel forgives.
THEOREM DroppedPurchasesAreForgiven == RoadSpec => []ValidatedRoutesAreDriven
<1>1. RoadInvariant /\ [RoadNext]_roadVars => RoadInvariant'
  <2>1. RoadInvariant /\ UNCHANGED roadVars => RoadInvariant'
    BY DEF roadVars, RoadInvariant, StopsAreOrdered, InOrder, TankLasts,
           ValidatedRoutesAreDriven, LegsFit, Leg
  <2> QED BY <2>1, ValidateKeepsRoad, FillKeepsRoad, DriveKeepsRoad, ArriveKeepsRoad DEF RoadNext
<1>2. RoadInvariant => ValidatedRoutesAreDriven
  BY DEF RoadInvariant
<1> QED BY <1>1, <1>2, RoadAtStart, PTL DEF RoadSpec

--------------------------------------------------------------------------------
(* The tank of the second API's vehicle                                       *)

\* What a plan bought, its last purchase included.
LEMMA TotalTyped ==
    ASSUME NEW n \in Nat, NEW p, \A j \in 1..n : p[j] \in Int
    PROVE  SumUpTo(p, n) \in Int
<1>1. CASE n = 0
  BY <1>1, NothingIsBought
<1>2. CASE n # 0
  <2>1. n - 1 \in Nat /\ (n - 1) + 1 = n
    BY <1>2
  <2>2. SumUpTo(p, n) = SumUpTo(p, n - 1) + p[n] /\ SumUpTo(p, n - 1) \in Int
    BY <2>1, PurchasesAddUp
  <2>3. n \in 1..n
    BY <1>2
  <2> QED BY <2>2, <2>3
<1> QED BY <1>1, <1>2

\* Rounding adds half a grain at most.
LEMMA RoundingAdds ==
    ASSUME Grain \in Nat \ {0}, NEW x \in Nat
    PROVE  /\ Rounded(x) \in Nat /\ 2 * Rounded(x) <= 2 * x + Grain
           /\ x = 0 => Rounded(x) = 0
<1> DEFINE size == 2 * Grain
           q == (2 * x + Grain) \div size
<1>1. size \in Nat \ {0} /\ 2 * x + Grain \in Int
  OBVIOUS
<1>2. q \in Int /\ size * q <= 2 * x + Grain /\ 2 * x + Grain < size * q + size
  <2> DEFINE y == 2 * x + Grain
  <2>1. y \in Int
    OBVIOUS
  <2> HIDE DEF y, size
  <2>2. y \div size \in Int /\ size * (y \div size) <= y /\ y < size * (y \div size) + size
    BY <1>1, <2>1, Z3
  <2> QED BY <2>2 DEF y
<1>3. Rounded(x) = q * Grain
  BY DEF Rounded
<1> HIDE DEF q
<1>4. size * q = 2 * (q * Grain) /\ size * q + size = 2 * ((q + 1) * Grain)
  BY <1>2
<1>5. q >= 0
  <2>1. 0 * Grain < (q + 1) * Grain
    BY <1>2, <1>4
  <2>2. 0 < q + 1
    BY <1>2, <2>1, Multiples, q + 1 \in Int
  <2> QED BY <1>2, <2>2
<1>6. x = 0 => q = 0
  <2> SUFFICES ASSUME x = 0 PROVE q = 0
    OBVIOUS
  <2>1. (2 * q) * Grain <= 1 * Grain
    BY <1>2, <1>4
  <2>2. 2 * q <= 1
    BY <1>2, <2>1, Multiples, 2 * q \in Int
  <2> QED BY <1>2, <1>5, <2>2
<1>7. q * Grain \in Nat
  BY <1>5, <1>2, Products
<1>8. x = 0 => q * Grain = 0
  BY <1>6
<1>9. 2 * (q * Grain) <= 2 * x + Grain
  BY <1>2, <1>4
<1> QED BY <1>3, <1>7, <1>8, <1>9

\* A purchase fills the tank to its capacity at most, but for the rounding.
LEMMA VehicleWants ==
    ASSUME Grain \in Nat \ {0}, distance \in Nat, stations \in Seq(Candidate),
           NEW i \in DOMAIN stations, NEW rest \in Nat
    PROVE  /\ Wanted(i, rest) \in Nat
           /\ Wanted(i, rest) > 0 => 2 * (rest + Wanted(i, rest)) <= 2 * Capacity + Grain
<1> DEFINE here == stations[i]
           next == SubSeq(stations, i + 1, Len(stations))
<1>0. \A c \in Candidate : c.at \in Int /\ c.price \in Int
  BY DEF Candidate
<1>1. here.at \in Int /\ here.price \in Int /\ next \in Seq(Candidate)
  <2>1. here \in Candidate /\ i \in Nat /\ Len(stations) \in Nat /\ i <= Len(stations)
    OBVIOUS
  <2>2. next \in Seq(Candidate)
    BY <2>1
  <2> HIDE DEF here, next
  <2> QED BY <1>0, <2>1, <2>2
<1>2. \A k \in DOMAIN next : next[k].at \in Int
  <2> HIDE DEF next
  <2>1. \A k \in DOMAIN next : next[k] \in Candidate
    BY <1>1
  <2> QED BY <1>0, <2>1
<1>3. Target(i) \in Int
  <2> HIDE DEF next
  <2>1. \/ Target(i) = distance
        \/ Target(i) = FirstCheaper(here.at, here.price, next) /\ Target(i) # 0
        \/ Target(i) = LastEqual(here.at, here.price, next)
    BY DEF Target, next
  <2>2. /\ FirstCheaper(here.at, here.price, next) # 0 =>
             \E k \in DOMAIN next : FirstCheaper(here.at, here.price, next) = next[k].at
        /\ LastEqual(here.at, here.price, next) # 0 =>
             \E k \in DOMAIN next : LastEqual(here.at, here.price, next) = next[k].at
    BY <1>1, LookedUp
  <2> HIDE DEF here
  <2>3. \/ Target(i) \in {0, distance}
        \/ \E k \in DOMAIN next : Target(i) = next[k].at
    BY <2>1, <2>2
  <2> QED BY <1>2, <2>3
<1>4. Place(i) \in Int
  BY <1>1 DEF Place
<1> DEFINE desired == IF Target(i) = 0 THEN Capacity
                      ELSE Least(Capacity, Target(i) - Place(i))
           short == Most(0, desired - rest)
<1>5. desired \in Int /\ desired <= Capacity /\ Capacity \in Nat
  BY <1>3, <1>4, TankAssumption DEF Least
<1>6. Wanted(i, rest) = Rounded(short)
  BY DEF Wanted
<1> HIDE DEF desired
<1>7. short \in Nat /\ (short = 0 \/ short = desired - rest)
  BY <1>5 DEF Most
<1> HIDE DEF short
<1>8. /\ Rounded(short) \in Nat /\ 2 * Rounded(short) <= 2 * short + Grain
      /\ short = 0 => Rounded(short) = 0
  BY <1>7, RoundingAdds
<1> QED BY <1>5, <1>6, <1>7, <1>8

--------------------------------------------------------------------------------
(* The second API's loop *)

LEMMA VehicleBegins ==
    /\ distance \in Nat /\ start \in Nat /\ InOrder(stations, distance)
    /\ at = 0 /\ fuel = start /\ bought = <<>> /\ outcome = "planning"
    => VehicleInvariant
<1> SUFFICES ASSUME distance \in Nat, start \in Nat, InOrder(stations, distance),
                    at = 0, fuel = start, bought = <<>>, outcome = "planning"
             PROVE  VehicleInvariant
  OBVIOUS
<1>1. SumUpTo(bought, at) = 0 /\ Place(at) = 0
  BY NothingIsBought DEF Place
<1>2. FuelIsBelieved
  <2>1. at * Grain = 0
    BY VehicleAssumption
  <2> QED BY <1>1, <2>1 DEF FuelIsBelieved
<1>3. FuelStaysInBounds
  <2>1. 1..at = {}
    OBVIOUS
  <2> QED BY <2>1 DEF FuelStaysInBounds, ReserveIsKept, TankNotOverfilled
<1>4. at \in 0..Len(stations) /\ bought \in Seq(Nat) /\ Len(bought) = at
  BY DEF InOrder
<1> QED BY <1>2, <1>3, <1>4 DEF VehicleInvariant

LEMMA VehicleAtStart == ASSUME Init PROVE VehicleInvariant
<1>1. PICK trip \in Trips : /\ distance = trip.distance /\ start = trip.start
                         /\ stations = Prepare(trip.near, distance)
  BY DEF Init
<1> DEFINE S == trip.near
<1>2. S \in SUBSET Candidate /\ IsFiniteSet(S)
  BY VehicleAssumption
<1>3. distance \in Nat /\ start \in Nat /\ at = 0 /\ fuel = start /\ bought = <<>>
      /\ outcome = "planning"
  BY <1>1, VehicleAssumption DEF Init
<1>4. InOrder(stations, distance)
  BY <1>1, <1>2, <1>3, PreparedInOrder
<1> QED BY <1>3, <1>4, VehicleBegins

\* What is said of the tank depends on the stations passed and the purchases.
LEMMA TankStays ==
    ASSUME start' = start, stations' = stations, bought' = bought
    PROVE  /\ \A j : SumUpTo(bought, j)' = SumUpTo(bought, j)
           /\ \A j : Tank(j)' = Tank(j) /\ Place(j)' = Place(j)
<1>1. \A j : SumUpTo(bought, j)' = SumUpTo(bought, j)
  BY DEF SumUpTo, MapThenSumSet, MapThenFoldSet
<1>2. \A j : Place(j)' = Place(j)
  BY DEF Place
<1>3. \A j : Tank(j)' = Tank(j)
  <2> TAKE j
  <2>1. SumUpTo(bought, j - 1)' = SumUpTo(bought, j - 1)
    BY <1>1
  <2> QED BY <1>2, <2>1 DEF Tank
<1> QED BY <1>1, <1>2, <1>3

LEMMA VehicleStays ==
    ASSUME VehicleInvariant, distance' = distance, start' = start, stations' = stations,
           at' = at, fuel' = fuel, bought' = bought,
           \/ outcome' = outcome
           \/ outcome = "planning" /\ outcome' \in {"driving", "refused"}
           \/ outcome = "driving" /\ outcome' = "stuck"
    PROVE  VehicleInvariant'
<1>0. /\ at \in Nat /\ (outcome' = "planned" <=> outcome = "planned")
      /\ outcome' \in {"planning", "driving", "refused", "stuck", "planned"}
      /\ outcome' \in {"planning", "refused"} => at' = 0
  BY DEF VehicleInvariant, InOrder
<1>1. InOrder(stations, distance)' <=> InOrder(stations, distance)
  BY DEF InOrder
<1>2. FuelIsBelieved' <=> FuelIsBelieved
  <2>1. SumUpTo(bought, at)' = SumUpTo(bought, at)
    BY DEF SumUpTo, MapThenSumSet, MapThenFoldSet
  <2>2. Place(at)' = Place(at)
    BY DEF Place
  <2> QED BY <2>1, <2>2 DEF FuelIsBelieved
<1>3. ReserveIsKept => ReserveIsKept'
  <2>1. SumUpTo(bought, at)' = SumUpTo(bought, at)
    BY DEF SumUpTo, MapThenSumSet, MapThenFoldSet
  <2>2. at = 0 => 1..at = {}
    BY <1>0
  <2> QED BY <1>0, <2>1, <2>2, TankStays DEF ReserveIsKept, VehicleInvariant
<1>4. TankNotOverfilled => TankNotOverfilled'
  <2>1. at = 0 => 1..at = {}
    BY <1>0
  <2> QED BY <2>1, TankStays DEF TankNotOverfilled, VehicleInvariant
<1> QED BY <1>0, <1>1, <1>2, <1>3, <1>4 DEF VehicleInvariant, FuelStaysInBounds

LEMMA VehicleValidates ==
    ASSUME VehicleInvariant, Validate PROVE VehicleInvariant'
<1>1. /\ outcome = "planning" /\ outcome' \in {"driving", "refused"}
      /\ distance' = distance /\ start' = start /\ stations' = stations
      /\ at' = at /\ fuel' = fuel /\ bought' = bought
  BY DEF Validate
<1> QED BY <1>1, VehicleStays

\* The i-th pass of the loop.
LEMMA VehicleDrives ==
    ASSUME VehicleInvariant, DriveAndBuy, NEW i, i = at + 1
    PROVE  VehicleInvariant'
<1> DEFINE leg == Place(i) - Place(at)
           remains == fuel - leg
           rest == Most(0, remains)
           volume == Wanted(i, rest)
           kept == IF volume > Grain THEN volume ELSE 0
           spent == SumUpTo(bought, at)
           real == start + spent - Place(at)
<1>1. /\ outcome = "driving" /\ at < Len(stations)
      /\ distance' = distance /\ start' = start /\ stations' = stations
  BY DEF DriveAndBuy
<1>2. /\ distance \in Nat /\ start \in Nat /\ fuel \in Nat /\ Grain \in Nat \ {0}
      /\ InOrder(stations, distance)
      /\ at \in 0..Len(stations) /\ bought \in Seq(Nat) /\ Len(bought) = at
      /\ FuelIsBelieved /\ ReserveIsKept /\ TankNotOverfilled
  BY <1>1, VehicleAssumption DEF VehicleInvariant, FuelStaysInBounds
<1>3. /\ stations \in Seq(Candidate) /\ at \in Nat /\ i \in DOMAIN stations
      /\ i \in Nat /\ i \in 0..Len(stations) /\ at \in 0..i /\ i \in 0..i /\ i \in 1..i
      /\ i - 1 = at
  BY <1>1, <1>2 DEF InOrder
<1>4. \A j \in 0..i : Place(j) \in Int /\ Place(j)' = Place(j)
  <2>1. \A c \in Candidate : c.at \in Int
    BY DEF Candidate
  <2>2. \A j \in 0..i : j # 0 => stations[j] \in Candidate
    BY <1>3
  <2> QED BY <1>1, <2>1, <2>2 DEF Place
<1>5. Place(i) \in Int /\ Place(at) \in Int /\ leg \in Int
  BY <1>3, <1>4
<1>6. spent \in Int
  <2>1. \A j \in 1..at : bought[j] \in Int
    BY <1>2
  <2> QED BY <1>3, <2>1, TotalTyped
<1>7. real <= fuel /\ fuel <= real + at * Grain /\ real \in Int
  BY <1>2, <1>5, <1>6 DEF FuelIsBelieved
<1>8. real - leg = start + spent - Place(i)
  BY <1>2, <1>5, <1>6
<1>9. CASE ~CanDrive(remains)
  <2>1. outcome' = "stuck" /\ at' = at /\ fuel' = fuel /\ bought' = bought
    BY <1>3, <1>9 DEF DriveAndBuy
  <2> QED BY <1>1, <2>1, VehicleStays
<1>10. CASE CanDrive(remains)
  <2>1. /\ outcome' = outcome /\ at' = i /\ bought' = Append(bought, kept)
        /\ fuel' = rest + Last(bought')
    BY <1>3, <1>10 DEF DriveAndBuy
  <2>2. remains \in Int /\ remains >= -Grain /\ remains = fuel - leg
    BY <1>2, <1>5, <1>10 DEF CanDrive
  <2> HIDE DEF remains, leg, real
  <2>3. rest \in Nat /\ remains <= rest /\ rest <= remains + Grain
    BY <1>2, <2>2 DEF Most
  <2> HIDE DEF rest
  <2>4. /\ volume \in Nat
        /\ volume > 0 => 2 * (rest + volume) <= 2 * Capacity + Grain
    BY <1>2, <1>3, <2>3, VehicleWants
  <2> HIDE DEF volume
  <2>5. kept \in Nat /\ (kept > 0 => 2 * (rest + kept) <= 2 * Capacity + Grain)
    BY <2>4
  <2> HIDE DEF kept
  <2>6. /\ bought' \in Seq(Nat) /\ Len(bought') = i /\ bought'[i] = kept
        /\ \A j \in 1..at : bought'[j] = bought[j] /\ bought[j] \in Int
        /\ \A j \in 1..i : bought'[j] \in Int
    BY <1>2, <1>3, <2>1, <2>5
  <2>7. Last(bought') = kept
    BY <2>6 DEF Last
  <2>8. \A j \in 0..at : SumUpTo(bought', j) = SumUpTo(bought, j)
    <3> SUFFICES ASSUME NEW j \in 0..at PROVE SumUpTo(bought', j) = SumUpTo(bought, j)
      OBVIOUS
    <3>1. j \in Nat /\ \A k \in 1..j : bought[k] \in Int /\ bought'[k] = bought[k]
      BY <1>3, <2>6
    <3> QED BY <3>1, SamePurchases
  <2>9. SumUpTo(bought', i) = spent + kept
    <3>1. \A j \in 1..(at + 1) : bought'[j] \in Int
      BY <1>3, <2>6
    <3>2. SumUpTo(bought', at + 1) = SumUpTo(bought', at) + bought'[at + 1]
      BY <1>3, <3>1, PurchasesAddUp
    <3>3. SumUpTo(bought', at) = spent /\ at + 1 = i
      BY <1>3, <2>8
    <3> QED BY <2>6, <3>2, <3>3
  <2> HIDE DEF spent
  <2>10. i * Grain = at * Grain + Grain /\ at * Grain \in Nat
    BY <1>2, <1>3, Products
  <2>11. /\ real - leg <= rest /\ rest <= real - leg + i * Grain
         /\ real - leg >= -(i * Grain)
    BY <1>2, <1>5, <1>7, <2>2, <2>3, <2>10
  <2>12. FuelIsBelieved'
    <3>1. SumUpTo(bought, at)' = spent + kept
      BY <2>1, <2>9 DEF SumUpTo, MapThenSumSet, MapThenFoldSet
    <3>2. Place(at)' = Place(i)
      BY <1>1, <2>1 DEF Place
    <3>3. start + (spent + kept) - Place(i) = real - leg + kept
      BY <1>2, <1>5, <1>6, <1>8, <2>5
    <3>4. /\ start + (spent + kept) - Place(i) <= rest + kept
          /\ rest + kept <= start + (spent + kept) - Place(i) + i * Grain
      <4> DEFINE lasts == real - leg
      <4>1. lasts \in Int /\ lasts <= rest /\ rest <= lasts + i * Grain /\ i * Grain \in Int
        BY <1>5, <1>7, <2>10, <2>11, <1>2
      <4>2. start + (spent + kept) - Place(i) = lasts + kept
        BY <3>3
      <4> HIDE DEF lasts
      <4> QED BY <2>3, <2>5, <4>1, <4>2
    <3>5. fuel' = rest + kept
      BY <2>1, <2>7
    <3> QED BY <1>1, <2>1, <3>1, <3>2, <3>4, <3>5 DEF FuelIsBelieved
  <2>13. ASSUME NEW j \in 1..i
         PROVE  Tank(j)' = start + SumUpTo(bought, j - 1) - Place(j)
    <3>1. Tank(j)' = start' + SumUpTo(bought', j - 1) - Place(j)'
      BY DEF Tank, SumUpTo, MapThenSumSet, MapThenFoldSet
    <3>2. j - 1 \in 0..at /\ j \in 0..i
      BY <1>3
    <3> QED BY <1>1, <1>4, <2>8, <3>1, <3>2
  <2>14. \A j \in 1..at : Tank(j)' = Tank(j) /\ Tank(j) >= -(j * Grain)
    <3> SUFFICES ASSUME NEW j \in 1..at
                 PROVE  Tank(j)' = Tank(j) /\ Tank(j) >= -(j * Grain)
      OBVIOUS
    <3>1. j \in 1..i
      BY <1>3
    <3>2. Tank(j) = start + SumUpTo(bought, j - 1) - Place(j)
      BY DEF Tank
    <3> QED BY <1>1, <1>2, <2>13, <3>1, <3>2 DEF ReserveIsKept
  <2>15. Tank(i)' = real - leg
    BY <1>3, <1>8, <2>13 DEF spent
  <2>16. \A j \in 1..i : j \in 1..at \/ j = i
    BY <1>3
  <2>17. ReserveIsKept'
    <3>1. \A j \in 1..i : Tank(j)' >= -(j * Grain)
      BY <2>11, <2>14, <2>15, <2>16
    <3> QED BY <1>1, <2>1, <3>1 DEF ReserveIsKept
  <2>18. TankNotOverfilled'
    <3>1. kept > 0 => 2 * (Tank(i)' + kept) <= 2 * Capacity + Grain
      BY <1>2, <1>5, <1>7, <2>3, <2>5, <2>11, <2>15, TankAssumption
    <3>2. \A j \in 1..at : bought[j] > 0 => 2 * (Tank(j)' + bought[j]) <= 2 * Capacity + Grain
      BY <1>1, <1>2, <2>14 DEF TankNotOverfilled
    <3>3. \A j \in 1..i : bought'[j] > 0 => 2 * (Tank(j)' + bought'[j]) <= 2 * Capacity + Grain
      BY <2>6, <2>16, <3>1, <3>2
    <3> QED BY <2>1, <3>3 DEF TankNotOverfilled
  <2>19. InOrder(stations, distance)'
    BY <1>1, <1>2 DEF InOrder
  <2>20. fuel' \in Nat /\ at' \in 0..Len(stations')
    BY <1>1, <1>3, <2>1, <2>3, <2>5, <2>7
  <2> QED BY <1>1, <1>2, <2>1, <2>6, <2>12, <2>17, <2>18, <2>19, <2>20
          DEF VehicleInvariant, FuelStaysInBounds
<1> QED BY <1>9, <1>10

LEMMA VehicleArrives ==
    ASSUME VehicleInvariant, Arrive
    PROVE  VehicleInvariant'
<1> DEFINE spent == SumUpTo(bought, at)
           remains == fuel - (distance - Place(at))
<1>1. /\ outcome = "driving" /\ distance' = distance /\ start' = start
      /\ stations' = stations /\ at' = at /\ bought' = bought
      /\ outcome' = IF CanDrive(remains) THEN "planned" ELSE "stuck"
      /\ fuel' = IF CanDrive(remains) THEN Most(0, remains) ELSE fuel
  BY DEF Arrive
<1>2. /\ InOrder(stations, distance)' /\ spent' = spent
      /\ \A j : Tank(j)' = Tank(j)
  <2>1. InOrder(stations, distance)'
    BY <1>1 DEF VehicleInvariant, InOrder
  <2>2. spent' = spent
    BY <1>1 DEF SumUpTo, MapThenSumSet, MapThenFoldSet
  <2> QED BY <1>1, <2>1, <2>2, TankStays
<1>3. CASE ~CanDrive(remains)
  <2> HIDE DEF remains
  <2> QED BY <1>1, <1>3, VehicleStays
<1>4. CASE CanDrive(remains)
  <2>1. /\ fuel \in Nat /\ distance \in Nat /\ start \in Nat /\ Grain \in Nat \ {0}
        /\ at \in 0..Len(stations) /\ InOrder(stations, distance)
        /\ fuel <= start + spent - Place(at) + at * Grain
        /\ bought \in Seq(Nat) /\ Len(bought) = at
    BY <1>1, VehicleAssumption DEF VehicleInvariant, FuelIsBelieved
  <2>2. Place(at) \in Int /\ at \in Nat
    <3>1. stations \in Seq(Candidate) /\ \A c \in Candidate : c.at \in Int
      BY <2>1 DEF InOrder, Candidate
    <3> QED BY <2>1, <3>1 DEF Place
  <2>3. spent \in Int
    <3>1. \A j \in 1..at : bought[j] \in Int
      BY <2>1
    <3> QED BY <2>2, <3>1, TotalTyped
  <2>4. remains \in Int /\ remains >= -Grain /\ remains = fuel - distance + Place(at)
    BY <1>4, <2>1, <2>2 DEF CanDrive
  <2> HIDE DEF remains, spent
  <2>5. (at + 1) * Grain = at * Grain + Grain /\ at * Grain \in Nat
    BY <2>1, <2>2, Products
  <2>6. start + spent - distance >= -((at + 1) * Grain)
    BY <2>1, <2>2, <2>3, <2>4, <2>5
  <2>7. ReserveIsKept'
    <3>1. \A j \in 1..at : Tank(j)' >= -(j * Grain)
      BY <1>1, <1>2 DEF VehicleInvariant, FuelStaysInBounds, ReserveIsKept
    <3> QED BY <1>1, <1>2, <2>6, <3>1 DEF ReserveIsKept, spent
  <2>8. TankNotOverfilled'
    BY <1>1, <1>2 DEF VehicleInvariant, FuelStaysInBounds, TankNotOverfilled
  <2>9. fuel' \in Nat /\ outcome' = "planned"
    BY <1>1, <1>4, <2>4 DEF Most
  <2> QED BY <1>1, <1>2, <2>1, <2>7, <2>8, <2>9 DEF VehicleInvariant, FuelStaysInBounds
<1> QED BY <1>3, <1>4

LEMMA NextKeepsVehicle == ASSUME VehicleInvariant, [Next]_vars PROVE VehicleInvariant'
<1>1. CASE UNCHANGED vars
  BY <1>1, VehicleStays DEF vars
<1>2. CASE DriveAndBuy
  BY <1>2, VehicleDrives
<1> QED BY <1>1, <1>2, VehicleValidates, VehicleArrives DEF Next

\* Driving as planned never uses the reserve but for the grain forgiven on each
\* leg, and a purchase never overfills the tank by more than half a grain.
THEOREM ReserveAndTankHold == Spec => []FuelStaysInBounds
<1>1. Init => VehicleInvariant
  BY VehicleAtStart
<1>2. VehicleInvariant /\ [Next]_vars => VehicleInvariant'
  BY NextKeepsVehicle
<1>3. VehicleInvariant => FuelStaysInBounds
  BY DEF VehicleInvariant
<1> QED BY <1>1, <1>2, <1>3, PTL DEF Spec

================================================================================
