------------------------------ MODULE PlannerProofs ------------------------------
(***************************************************************************)
(* Proofs about the two planners, for any tank, route, stations, prices and *)
(* fuel.  Where everything is in whole steps, the second API's plan is the  *)
(* cheapest, it refuses only what cannot be driven, and it answers the best *)
(* alternative for the strategy; the first API refuses only what cannot be  *)
(* driven wherever different places are not merged.                         *)
(***************************************************************************)
EXTENDS PlanProofs

--------------------------------------------------------------------------------
(* Numbers                                                                    *)

LEMMA LeastNumber ==
    ASSUME NEW S, S \subseteq Nat, S # {}
    PROVE  \E n \in S : \A k \in S : n <= k
<1> DEFINE R == {p \in Nat \X Nat : p[1] < p[2]}
<1>1. IsWellFoundedOn(R, Nat)
  BY NatLessThanWellFounded DEF OpToRel
<1>2. PICK n \in S : \A k \in S : ~(<<k, n>> \in R)
  <2> HIDE DEF R
  <2> QED BY <1>1, WFMin
<1>3. \A k \in S : k \in Nat /\ n \in Nat /\ ~(k < n)
  BY <1>2
<1> QED BY <1>3

LEMMA MultipleOf ==
    ASSUME NEW x \in Int, NEW n \in Nat \ {0}
    PROVE  /\ Multiple(x, n) <=> \E k \in Int : x = k * n
<1> DEFINE d == x \div n
<1>1. d \in Int /\ n * d <= x /\ x < n * d + n
  BY Z3
<1>2. Multiple(x, n) <=> n * d = x
  BY DEF Multiple
<1> HIDE DEF d
<1>3. ASSUME NEW k \in Int, x = k * n PROVE d = k
  <2>1. n * d = d * n /\ n * d + n = (d + 1) * n
    BY <1>1
  <2>2. d * n <= k * n /\ k * n < (d + 1) * n
    BY <1>1, <1>3, <2>1
  <2>3. d <= k /\ k < d + 1
    BY <1>1, <2>2, Multiples, d + 1 \in Int
  <2> QED BY <1>1, <2>3
<1>4. n * d = d * n
  BY <1>1
<1> QED BY <1>1, <1>2, <1>3, <1>4

LEMMA WholeSums ==
    ASSUME NEW a \in Int, NEW b \in Int, Whole(a), Whole(b)
    PROVE  Whole(a + b) /\ Whole(a - b)
<1>1. Step \in Nat \ {0}
  BY TankAssumption
<1>2. PICK k \in Int, l \in Int : a = k * Step /\ b = l * Step
  BY <1>1, MultipleOf DEF Whole
<1>3. a + b = (k + l) * Step /\ a - b = (k - l) * Step
  BY <1>1, <1>2
<1>4. k + l \in Int /\ k - l \in Int /\ a + b \in Int /\ a - b \in Int
  OBVIOUS
<1> QED BY <1>1, <1>3, <1>4, MultipleOf DEF Whole

\* Nothing lies between two whole volumes.
LEMMA WholeApart ==
    ASSUME NEW a \in Int, Whole(a)
    PROVE  /\ a > -Step => a >= 0
           /\ a > 0 => a >= Step
<1>1. Step \in Nat \ {0}
  BY TankAssumption
<1>2. PICK k \in Int : a = k * Step
  BY <1>1, MultipleOf DEF Whole
<1>3. ASSUME a > -Step PROVE a >= 0
  <2>1. (-1) * Step < k * Step
    BY <1>1, <1>2, <1>3
  <2>2. -1 < k
    BY <1>1, <2>1, Multiples
  <2> QED BY <1>1, <1>2, <2>2, Products
<1>4. ASSUME a > 0 PROVE a >= Step
  <2>1. 0 * Step < k * Step
    BY <1>1, <1>2, <1>4
  <2>2. 0 < k
    BY <1>1, <2>1, Multiples
  <2>3. 1 * Step <= k * Step
    BY <1>1, <2>2, Multiples
  <2> QED BY <1>1, <1>2, <2>3
<1> QED BY <1>3, <1>4

LEMMA WholeIsNotRounded ==
    ASSUME Multiple(Step, Grain), NEW x \in Nat, Whole(x)
    PROVE  Rounded(x) = x
<1>1. Step \in Nat \ {0} /\ Grain \in Nat \ {0}
  BY TankAssumption, VehicleAssumption
<1>2. PICK k \in Int, n \in Int : x = k * Step /\ Step = n * Grain
  <2>1. \E k \in Int : x = k * Step
    BY <1>1, MultipleOf DEF Whole
  <2>2. \E n \in Int : Step = n * Grain
    BY <1>1, MultipleOf
  <2> QED BY <2>1, <2>2
<1> DEFINE size == 2 * Grain
           y == 2 * x + Grain
           q == y \div size
           l == k * n
<1>3. l \in Int /\ x = l * Grain
  <2>1. x = k * (n * Grain)
    BY <1>2
  <2>2. k * (n * Grain) = (k * n) * Grain
    BY <1>1
  <2> QED BY <2>1, <2>2
<1>4. size \in Nat \ {0} /\ y \in Int
  BY <1>1
<1> HIDE DEF y, size
<1>5. q \in Int /\ size * q <= y /\ y < size * q + size
  BY <1>4, Z3
<1> HIDE DEF q, l
<1>6. /\ (2 * q) * Grain <= (2 * l + 1) * Grain
      /\ (2 * l + 1) * Grain < (2 * q + 2) * Grain
  BY <1>1, <1>3, <1>5 DEF size, y
<1>7. 2 * q <= 2 * l + 1 /\ 2 * l + 1 < 2 * q + 2
  BY <1>1, <1>3, <1>5, <1>6, Multiples, 2 * q \in Int, 2 * l + 1 \in Int, 2 * q + 2 \in Int
<1>8. q = l
  BY <1>3, <1>5, <1>7
<1>9. Rounded(x) = q * Grain
  BY DEF Rounded, q, y, size
<1> QED BY <1>3, <1>8, <1>9

\* Adding k more of a sequence of numbers that are at most, or at least, p.
LEMMA RunsAddUp ==
    ASSUME NEW x \in Nat, NEW k \in Nat, NEW p \in Int, NEW m,
           \A u \in 1..(x + k) : m[u] \in Int
    PROVE  /\ (\A u \in (x + 1)..(x + k) : m[u] <= p) =>
                 SumUpTo(m, x + k) <= SumUpTo(m, x) + k * p
           /\ (\A u \in (x + 1)..(x + k) : m[u] >= p) =>
                 SumUpTo(m, x + k) >= SumUpTo(m, x) + k * p
<1> DEFINE N == {n \in Nat : n <= k =>
                    /\ SumUpTo(m, x + n) \in Int
                    /\ (\A u \in (x + 1)..(x + k) : m[u] <= p) =>
                          SumUpTo(m, x + n) <= SumUpTo(m, x) + n * p
                    /\ (\A u \in (x + 1)..(x + k) : m[u] >= p) =>
                          SumUpTo(m, x + n) >= SumUpTo(m, x) + n * p}
<1>1. \A n \in 0..k : SumUpTo(m, x + n) \in Int
  <2> SUFFICES ASSUME NEW n \in 0..k PROVE SumUpTo(m, x + n) \in Int
    OBVIOUS
  <2>1. x + n \in Nat /\ \A u \in 1..(x + n) : m[u] \in Int
    OBVIOUS
  <2> QED BY <2>1, TotalTyped
<1>2. 0 \in N
  BY <1>1
<1>3. ASSUME NEW n \in Nat, n \in N PROVE n + 1 \in N
  <2> SUFFICES ASSUME n + 1 <= k
               PROVE  /\ SumUpTo(m, x + (n + 1)) \in Int
                      /\ (\A u \in (x + 1)..(x + k) : m[u] <= p) =>
                            SumUpTo(m, x + (n + 1)) <= SumUpTo(m, x) + (n + 1) * p
                      /\ (\A u \in (x + 1)..(x + k) : m[u] >= p) =>
                            SumUpTo(m, x + (n + 1)) >= SumUpTo(m, x) + (n + 1) * p
    OBVIOUS
  <2> DEFINE y == x + n
             more == m[y + 1]
  <2>1. /\ y \in Nat /\ x + (n + 1) = y + 1 /\ y + 1 \in (x + 1)..(x + k)
        /\ \A u \in 1..(y + 1) : m[u] \in Int
    OBVIOUS
  <2>2. SumUpTo(m, y + 1) = SumUpTo(m, y) + more /\ SumUpTo(m, y) \in Int
    BY <2>1, PurchasesAddUp
  <2>3. more \in Int /\ y + 1 \in 1..(y + 1)
    BY <2>1
  <2>4. (n + 1) * p = n * p + p /\ n * p \in Int /\ SumUpTo(m, x) \in Int
    BY <1>1
  <2>5. /\ (\A u \in (x + 1)..(x + k) : m[u] <= p) => SumUpTo(m, y) <= SumUpTo(m, x) + n * p
        /\ (\A u \in (x + 1)..(x + k) : m[u] >= p) => SumUpTo(m, y) >= SumUpTo(m, x) + n * p
    BY <1>3
  <2>6. /\ (\A u \in (x + 1)..(x + k) : m[u] <= p) => more <= p
        /\ (\A u \in (x + 1)..(x + k) : m[u] >= p) => more >= p
    BY <2>1
  <2> HIDE DEF y, more
  <2> QED BY <2>1, <2>2, <2>3, <2>4, <2>5, <2>6
<1>4. Nat \subseteq N
  <2> HIDE DEF N
  <2> QED BY <1>2, <1>3, AllNumbers
<1> QED BY <1>4

--------------------------------------------------------------------------------
(* Any way of driving a route                                                 *)

\* The u-th unit of the road can be driven on fuel bought at the i-th stop.
Covers(s, i, u) == s[i].at < u /\ u <= s[i].at + Capacity

LEMMA CandidateFields ==
    ASSUME NEW s \in Seq(Candidate), NEW i \in DOMAIN s
    PROVE  s[i] \in Candidate /\ s[i].at \in Int /\ s[i].price \in Nat
<1>1. s[i] \in Candidate
  OBVIOUS
<1> QED BY <1>1 DEF Candidate

LEMMA PlanTyped ==
    ASSUME NEW s, NEW begin, NEW far, NEW plan \in Plans(s, begin, far)
    PROVE  plan \in [DOMAIN s -> Nat] /\ Feasible(plan, s, begin, far)
<1>1. Step \in Nat
  BY TankAssumption
<1>2. \A k \in 0..(Capacity \div Step) : Step * k \in Nat
  BY <1>1, Products
<1> QED BY <1>2 DEF Plans

\* The fuel bought at a stop is bought for the road a full tank from there.
LEMMA StopSells ==
    ASSUME NEW s \in Seq(Candidate), NEW begin \in Nat, NEW far,
           NEW plan \in [DOMAIN s -> Nat], Feasible(plan, s, begin, far),
           NEW n \in Nat, n + 1 <= Len(s), SumUpTo(plan, n) \in Nat
    PROVE  /\ n + 1 \in DOMAIN s /\ plan[n + 1] \in Nat
           /\ SumUpTo(plan, n + 1) = SumUpTo(plan, n) + plan[n + 1]
           /\ \A u \in (begin + SumUpTo(plan, n) + 1)..(begin + SumUpTo(plan, n + 1)) :
                 Covers(s, n + 1, u)
<1> DEFINE i == n + 1
           x == SumUpTo(plan, n)
           place == s[i].at
<1>1. i \in DOMAIN s /\ i \in Nat /\ i - 1 = n /\ plan[i] \in Nat
      /\ \A j \in 1..i : plan[j] \in Int
  OBVIOUS
<1>2. SumUpTo(plan, i) = x + plan[i]
  BY <1>1, PurchasesAddUp
<1>3. place \in Int /\ Capacity \in Nat
  BY <1>1, CandidateFields, TankAssumption
<1>4. begin + x - place >= 0 /\ begin + x - place + plan[i] <= Capacity
  <2>1. /\ begin + SumUpTo(plan, i - 1) - place >= 0
        /\ begin + SumUpTo(plan, i - 1) - place + plan[i] <= Capacity
    <3> HIDE DEF i
    <3> QED BY <1>1 DEF Feasible
  <2> QED BY <1>1, <2>1
<1>7. x \in Nat
  OBVIOUS
<1> DEFINE more == plan[i]
           sum == SumUpTo(plan, i)
<1>5. \A u \in (begin + x + 1)..(begin + sum) : place < u /\ u <= place + Capacity
  <2>1. more \in Nat /\ sum = x + more
    BY <1>1, <1>2
  <2>2. begin + x - place >= 0 /\ begin + x - place + more <= Capacity
    BY <1>4
  <2> HIDE DEF place, x, sum, more
  <2> QED BY <1>3, <1>7, <2>1, <2>2
<1> HIDE DEF x, i
<1>6. \A u \in (begin + x + 1)..(begin + SumUpTo(plan, i)) : Covers(s, i, u)
  BY <1>5 DEF Covers
<1> QED BY <1>1, <1>2, <1>6 DEF x, i

\* m is no more than any stop takes for a unit it can be driven on.
NoDearer(m, s) ==
    /\ m \in [Nat -> Nat]
    /\ \A i \in DOMAIN s : \A u \in Nat : Covers(s, i, u) => m[u] <= s[i].price

LEMMA StopCosts ==
    ASSUME NEW s \in Seq(Candidate), NEW begin \in Nat, NEW far,
           NEW plan \in [DOMAIN s -> Nat], Feasible(plan, s, begin, far),
           NEW m, NoDearer(m, s),
           NEW n \in Nat, n + 1 <= Len(s), SumUpTo(plan, n) \in Nat
    PROVE  /\ plan[n + 1] * s[n + 1].price \in Nat
           /\ SumUpTo(m, begin + SumUpTo(plan, n + 1))
                 <= SumUpTo(m, begin + SumUpTo(plan, n)) + plan[n + 1] * s[n + 1].price
<1> DEFINE i == n + 1
           x == begin + SumUpTo(plan, n)
           k == plan[i]
           price == s[i].price
<1>1. /\ i \in DOMAIN s /\ k \in Nat /\ SumUpTo(plan, i) = SumUpTo(plan, n) + k
      /\ \A u \in (x + 1)..(begin + SumUpTo(plan, i)) : Covers(s, i, u)
  BY StopSells
<1>2. price \in Nat /\ k * price \in Nat
  BY <1>1, CandidateFields, Products
<1>3. x \in Nat /\ begin + SumUpTo(plan, i) = x + k
  BY <1>1
<1>4. m \in [Nat -> Nat] /\ \A u \in Nat : Covers(s, i, u) => m[u] <= price
  BY <1>1 DEF NoDearer
<1> HIDE DEF x, k, price, i
<1>5. \A u \in (x + 1)..(x + k) : m[u] <= price
  BY <1>1, <1>3, <1>4
<1>6. \A u \in 1..(x + k) : m[u] \in Int
  BY <1>1, <1>3, <1>4
<1>7. SumUpTo(m, x + k) <= SumUpTo(m, x) + k * price
  <2>1. k \in Nat /\ price \in Int
    BY <1>1, <1>2
  <2> QED BY <1>3, <1>5, <1>6, <2>1, RunsAddUp
<1> QED BY <1>2, <1>3, <1>7 DEF x, k, price, i

\* A plan costs no less than m does for the units it is bought for.
LEMMA LowerBound ==
    ASSUME NEW s \in Seq(Candidate), NEW begin \in Nat, NEW far,
           NEW plan \in [DOMAIN s -> Nat], Feasible(plan, s, begin, far),
           NEW m, NoDearer(m, s)
    PROVE  /\ SumUpTo(plan, Len(s)) \in Nat /\ Cost(plan, s) \in Int
           /\ SumUpTo(m, begin + SumUpTo(plan, Len(s))) <= SumUpTo(m, begin) + Cost(plan, s)
<1> DEFINE paid == [j \in DOMAIN s |-> plan[j] * s[j].price]
           Bound(n) == /\ SumUpTo(plan, n) \in Nat /\ SumUpTo(paid, n) \in Int
                       /\ SumUpTo(m, begin + SumUpTo(plan, n)) <= SumUpTo(m, begin) + SumUpTo(paid, n)
           N == {n \in Nat : n <= Len(s) => Bound(n)}
<1>0. /\ \A j \in DOMAIN s : paid[j] = plan[j] * s[j].price
      /\ Cost(plan, s) = SumUpTo(paid, Len(s)) /\ Len(s) \in Nat /\ DOMAIN s = 1..Len(s)
  BY DEF Cost
<1> HIDE DEF paid
<1>1. \A x \in Nat : SumUpTo(m, x) \in Int
  <2>1. m \in [Nat -> Nat]
    BY DEF NoDearer
  <2> SUFFICES ASSUME NEW x \in Nat PROVE SumUpTo(m, x) \in Int
    OBVIOUS
  <2>2. \A u \in 1..x : m[u] \in Int
    BY <2>1
  <2> QED BY <2>2, TotalTyped
<1>2. Bound(0)
  <2>1. SumUpTo(plan, 0) = 0 /\ SumUpTo(paid, 0) = 0
    BY NothingIsBought
  <2> QED BY <1>1, <2>1
<1>3. ASSUME NEW n \in Nat, Bound(n), n + 1 <= Len(s) PROVE Bound(n + 1)
  <2> DEFINE i == n + 1
             more == plan[i] * s[i].price
  <2>1. /\ SumUpTo(plan, n) \in Nat /\ SumUpTo(paid, n) \in Int
        /\ SumUpTo(m, begin + SumUpTo(plan, n)) <= SumUpTo(m, begin) + SumUpTo(paid, n)
    BY <1>3
  <2>2. plan[i] \in Nat /\ SumUpTo(plan, i) = SumUpTo(plan, n) + plan[i]
    BY <1>3, <2>1, StopSells
  <2>3. /\ more \in Nat
        /\ SumUpTo(m, begin + SumUpTo(plan, i)) <= SumUpTo(m, begin + SumUpTo(plan, n)) + more
    BY <1>3, <2>1, StopCosts
  <2>4. SumUpTo(paid, i) = SumUpTo(paid, n) + more
    <3>1. \A j \in 1..(n + 1) : paid[j] \in Int
      <4> SUFFICES ASSUME NEW j \in 1..(n + 1) PROVE paid[j] \in Int
        OBVIOUS
      <4>1. j \in DOMAIN s
        BY <1>0, <1>3
      <4>2. plan[j] \in Nat
        BY <4>1
      <4>3. s[j].price \in Nat
        BY <4>1, CandidateFields
      <4>4. plan[j] * s[j].price \in Nat
        BY <4>2, <4>3, Products
      <4> QED BY <1>0, <4>1, <4>4
    <3>2. SumUpTo(paid, n + 1) = SumUpTo(paid, n) + paid[n + 1]
      BY <3>1, PurchasesAddUp
    <3>3. i \in DOMAIN s
      BY <1>0, <1>3
    <3> QED BY <1>0, <3>2, <3>3
  <2> DEFINE a == SumUpTo(m, begin)
             b == SumUpTo(m, begin + SumUpTo(plan, n))
             c == SumUpTo(m, begin + SumUpTo(plan, i))
             before == SumUpTo(paid, n)
  <2>5. a \in Int /\ b \in Int /\ c \in Int
    <3>1. begin + SumUpTo(plan, n) \in Nat /\ begin + SumUpTo(plan, i) \in Nat
      BY <2>1, <2>2
    <3> QED BY <1>1, <3>1
  <2>6. c <= a + (before + more) /\ before + more \in Int
    <3>1. b <= a + before /\ c <= b + more /\ before \in Int
      BY <2>1, <2>3
    <3> HIDE DEF a, b, c, before, more
    <3> QED BY <2>3, <2>5, <3>1
  <2>7. SumUpTo(plan, i) \in Nat
    BY <2>1, <2>2
  <2> HIDE DEF more, i
  <2> QED BY <2>4, <2>6, <2>7 DEF i
<1>4. Nat \subseteq N
  <2> HIDE DEF Bound
  <2>1. 0 \in N
    BY <1>2
  <2>2. ASSUME NEW n \in Nat, n \in N PROVE n + 1 \in N
    <3>1. n + 1 <= Len(s) => n <= Len(s)
      BY <1>0
    <3>2. n + 1 <= Len(s) => Bound(n + 1)
      BY <1>3, <2>2, <3>1
    <3> QED BY <3>2
  <2> HIDE DEF N
  <2> QED BY <2>1, <2>2, AllNumbers
<1>5. Bound(Len(s))
  <2> HIDE DEF Bound
  <2> QED BY <1>0, <1>4
<1> QED BY <1>0, <1>5

\* Each unit a plan buys is covered by a stop.
LEMMA PlansCover ==
    ASSUME NEW s \in Seq(Candidate), NEW begin \in Nat, NEW far \in Int,
           NEW plan \in [DOMAIN s -> Nat], Feasible(plan, s, begin, far),
           NEW u \in (begin + 1)..far
    PROVE  \E j \in DOMAIN s : Covers(s, j, u)
<1> DEFINE Bound(n) == /\ SumUpTo(plan, n) \in Nat
                       /\ u <= begin + SumUpTo(plan, n) => \E j \in DOMAIN s : Covers(s, j, u)
           N == {n \in Nat : n <= Len(s) => Bound(n)}
<1>0. u \in Int /\ begin < u /\ u <= far /\ Len(s) \in Nat
  OBVIOUS
<1>1. Bound(0)
  BY <1>0, NothingIsBought
<1>2. ASSUME NEW n \in Nat, Bound(n), n + 1 <= Len(s) PROVE Bound(n + 1)
  <2> DEFINE x == begin + SumUpTo(plan, n)
             y == begin + SumUpTo(plan, n + 1)
  <2>1. SumUpTo(plan, n) \in Nat
    BY <1>2
  <2>2. /\ n + 1 \in DOMAIN s /\ SumUpTo(plan, n + 1) \in Nat
        /\ \A v \in (x + 1)..y : Covers(s, n + 1, v)
    BY <1>2, <2>1, StopSells
  <2>3. u <= y => u <= x \/ u \in (x + 1)..y
    <3>1. x \in Int /\ y \in Int
      BY <2>1, <2>2
    <3> HIDE DEF x, y
    <3> QED BY <1>0, <3>1
  <2> HIDE DEF y
  <2>4. u <= y => \E j \in DOMAIN s : Covers(s, j, u)
    BY <1>2, <2>2, <2>3
  <2> QED BY <2>2, <2>4 DEF y
<1>3. Nat \subseteq N
  <2> HIDE DEF Bound
  <2>1. 0 \in N
    BY <1>1
  <2>2. ASSUME NEW n \in Nat, n \in N PROVE n + 1 \in N
    <3>1. n + 1 <= Len(s) => n <= Len(s)
      BY <1>0
    <3>2. n + 1 <= Len(s) => Bound(n + 1)
      BY <1>2, <2>2, <3>1
    <3> QED BY <3>2
  <2> HIDE DEF N
  <2> QED BY <2>1, <2>2, AllNumbers
<1>4. Bound(Len(s))
  <2> HIDE DEF Bound
  <2> QED BY <1>0, <1>3
<1>5. begin + SumUpTo(plan, Len(s)) >= far
  BY DEF Feasible
<1> QED BY <1>0, <1>4, <1>5

\* What a unit costs at the cheapest stop that covers it.
UnitPrices(m, s) ==
    /\ m \in [Nat -> Nat]
    /\ \A u \in Nat : \A j \in DOMAIN s : Covers(s, j, u) =>
          /\ m[u] <= s[j].price
          /\ \E k \in DOMAIN s : Covers(s, k, u) /\ m[u] = s[k].price

LEMMA UnitPricesExist ==
    ASSUME NEW s \in Seq(Candidate) PROVE \E m : UnitPrices(m, s)
<1> DEFINE prices(u) == {p \in Nat : \E k \in DOMAIN s : Covers(s, k, u) /\ p = s[k].price}
           least(u) == CHOOSE p \in prices(u) : \A q \in prices(u) : p <= q
           m == [u \in Nat |-> IF prices(u) = {} THEN 0 ELSE least(u)]
<1>1. \A u \in Nat : prices(u) # {} => least(u) \in prices(u) /\ \A q \in prices(u) : least(u) <= q
  <2> SUFFICES ASSUME NEW u \in Nat, prices(u) # {}
               PROVE  least(u) \in prices(u) /\ \A q \in prices(u) : least(u) <= q
    OBVIOUS
  <2>1. \E p \in prices(u) : \A q \in prices(u) : p <= q
    <3> DEFINE S == prices(u)
    <3>1. S \subseteq Nat /\ S # {}
      OBVIOUS
    <3> HIDE DEF S
    <3>2. \E p \in S : \A q \in S : p <= q
      BY <3>1, LeastNumber
    <3> QED BY <3>2 DEF S
  <2> HIDE DEF prices
  <2> QED BY <2>1
<1>2. m \in [Nat -> Nat]
  <2>1. \A u \in Nat : prices(u) # {} => least(u) \in Nat
    BY <1>1
  <2> HIDE DEF prices, least
  <2> QED BY <2>1
<1>3. \A u \in Nat : \A j \in DOMAIN s : Covers(s, j, u) => s[j].price \in prices(u)
  BY CandidateFields
<1>4. \A u \in Nat : \A j \in DOMAIN s : Covers(s, j, u) =>
         m[u] = least(u) /\ m[u] <= s[j].price /\ m[u] \in prices(u)
  <2> HIDE DEF prices, least
  <2> QED BY <1>1, <1>3
<1>5. \A u \in Nat : m[u] \in prices(u) => \E k \in DOMAIN s : Covers(s, k, u) /\ m[u] = s[k].price
  <2> HIDE DEF m
  <2> QED OBVIOUS
<1> HIDE DEF m, prices
<1> QED BY <1>2, <1>4, <1>5 DEF UnitPrices

--------------------------------------------------------------------------------
(* The invariant of the optimizer where nothing is rounded                    *)

\* How far the fuel at the start and what was bought up to station i last.
Filled(i) == start + SumUpTo(bought, i)

\* A station is reached on the fuel there is, and what is bought fits.
LegsAreFuelled ==
    \A i \in 1..at :
        stations[i].at <= Filled(i - 1) /\ Filled(i) <= stations[i].at + Capacity

\* A unit is bought where no station that covers it is cheaper.
NothingCheaper ==
    \A i \in 1..at : \A u \in (Filled(i - 1) + 1)..Filled(i) : \A j \in DOMAIN stations :
        Covers(stations, j, u) => stations[i].price <= stations[j].price

\* Nothing is bought that the route does not use.
NothingBeyond == Filled(at) <= distance \/ Filled(at) = start

\* Where a station passed could have sold more fuel, the fuel there is lasts to
\* one ahead that is no dearer.
Onward ==
    \A j \in 1..at :
        Filled(at) < stations[j].at + Capacity /\ Filled(at) < distance =>
            \E k \in (at + 1)..Len(stations) :
                stations[k].at <= Filled(at) /\ stations[k].price <= stations[j].price

ExactInvariant ==
    /\ start <= Capacity
    /\ outcome = "driving" => Covered
    /\ outcome = "refused" => ~Covered
    /\ outcome = "planned" => at = Len(stations)
    /\ Exact =>
          /\ outcome # "stuck"
          /\ outcome # "planned" => fuel = Filled(at) - Place(at)
          /\ outcome = "planned" => distance <= Filled(at)
          /\ \A i \in 1..at : Whole(bought[i])
          /\ LegsAreFuelled /\ NothingCheaper /\ NothingBeyond /\ Onward

--------------------------------------------------------------------------------
(* What a purchase is for                                                     *)

\* What Target asks for at a station, as the place the fuel should last to:
\* fuel is not bought there for what lies behind a cheaper station.
IsGoal(i, goal) ==
    /\ goal \in Int
    /\ (IF Target(i) = 0 THEN Capacity ELSE Least(Capacity, Target(i) - Place(i)))
          = goal - stations[i].at
    /\ goal <= stations[i].at + Capacity /\ goal <= distance
    /\ \A k \in (i + 1)..Len(stations) :
          stations[k].price < stations[i].price => goal <= stations[k].at
    /\ \/ goal \in {distance, stations[i].at + Capacity}
       \/ \E k \in (i + 1)..Len(stations) :
             goal = stations[k].at /\ stations[k].price <= stations[i].price

LEMMA StationsInOrder ==
    ASSUME VehicleInvariant
    PROVE  /\ Len(stations) \in Nat /\ DOMAIN stations = 1..Len(stations)
           /\ stations \in Seq(Candidate) /\ distance \in Nat /\ Capacity \in Nat
           /\ start \in Nat /\ fuel \in Nat
           /\ at \in Nat /\ at <= Len(stations)
           /\ bought \in Seq(Nat) /\ Len(bought) = at
           /\ \A i \in DOMAIN stations :
                 /\ stations[i].at \in Int /\ stations[i].price \in Nat
                 /\ 0 < stations[i].at /\ stations[i].at < distance
                 /\ Place(i) = stations[i].at
           /\ \A i, j \in DOMAIN stations : i <= j => stations[i].at <= stations[j].at
<1>1. /\ InOrder(stations, distance) /\ distance \in Nat /\ Capacity \in Nat
      /\ start \in Nat /\ fuel \in Nat /\ at \in 0..Len(stations)
      /\ bought \in Seq(Nat) /\ Len(bought) = at
  BY TankAssumption DEF VehicleInvariant
<1>2. /\ stations \in Seq(Candidate)
      /\ \A i \in DOMAIN stations : 0 < stations[i].at /\ stations[i].at < distance
      /\ \A i, j \in DOMAIN stations : i < j => Before(stations[i], stations[j])
  BY <1>1 DEF InOrder
<1>3. Len(stations) \in Nat /\ DOMAIN stations = 1..Len(stations)
  BY <1>2
<1>4. at \in Nat /\ at <= Len(stations)
  BY <1>1, <1>3
<1>5. \A i \in DOMAIN stations : stations[i].at \in Int /\ stations[i].price \in Nat
  BY <1>2, CandidateFields
<1>6. \A i \in DOMAIN stations : Place(i) = stations[i].at
  BY <1>3 DEF Place
<1>7. ASSUME NEW i \in DOMAIN stations, NEW j \in DOMAIN stations, i <= j
      PROVE  stations[i].at <= stations[j].at
  <2>1. CASE i = j
    BY <1>5, <2>1
  <2>2. CASE i # j
    <3>1. i < j
      BY <1>3, <1>7, <2>2
    <3>2. Before(stations[i], stations[j])
      BY <1>2, <3>1
    <3> QED BY <1>5, <3>2 DEF Before
  <2> QED BY <2>1, <2>2
<1> QED BY <1>1, <1>2, <1>3, <1>4, <1>5, <1>6, <1>7

\* What FirstCheaper and LastEqual look up, by the indices of the stations.
IsFirstCheaper(i, first) ==
    \/ /\ first = 0
       /\ \A k \in (i + 1)..Len(stations) :
             stations[k].at - stations[i].at <= Capacity => stations[k].price >= stations[i].price
    \/ /\ first # 0
       /\ \E k \in (i + 1)..Len(stations) :
             /\ first = stations[k].at /\ first - stations[i].at <= Capacity
             /\ stations[k].price < stations[i].price
             /\ \A l \in (i + 1)..Len(stations) :
                   l < k /\ stations[l].at - stations[i].at <= Capacity =>
                      stations[l].price >= stations[i].price

IsLastEqual(i, last) ==
    \/ last = 0
    \/ \E k \in (i + 1)..Len(stations) :
          /\ last = stations[k].at /\ last - stations[i].at <= Capacity
          /\ stations[k].price = stations[i].price

LEMMA Lookups ==
    ASSUME VehicleInvariant, NEW i \in DOMAIN stations, NEW next,
           next = SubSeq(stations, i + 1, Len(stations))
    PROVE  /\ IsFirstCheaper(i, FirstCheaper(stations[i].at, stations[i].price, next))
           /\ IsLastEqual(i, LastEqual(stations[i].at, stations[i].price, next))
<1> DEFINE here == stations[i].at
           price == stations[i].price
           ahead == (i + 1)..Len(stations)
           cheaper == {k \in DOMAIN next : next[k].at - here <= Capacity /\ next[k].price < price}
           equal == {k \in DOMAIN next : next[k].at - here <= Capacity /\ next[k].price = price}
<1>1. /\ i \in Nat /\ Len(stations) \in Nat /\ i <= Len(stations) /\ stations \in Seq(Candidate)
      /\ DOMAIN stations = 1..Len(stations) /\ Capacity \in Nat
      /\ \A k \in DOMAIN stations : /\ stations[k].at \in Int /\ stations[k].price \in Nat
                                    /\ 0 < stations[k].at
  <2>1. i \in 1..Len(stations) /\ Len(stations) \in Nat
    BY StationsInOrder
  <2> QED BY <2>1, StationsInOrder
<1>2. here \in Int /\ price \in Nat
  BY <1>1
<1>3. /\ DOMAIN next = 1..(Len(stations) - i)
      /\ \A k \in DOMAIN next : next[k] = stations[i + k]
  BY <1>1
<1>4. \A k \in DOMAIN next : /\ k \in Nat /\ i + k \in ahead /\ i + k \in DOMAIN stations
                             /\ next[k] = stations[i + k]
  BY <1>1, <1>3
<1>5. \A k \in ahead : /\ k - i \in DOMAIN next /\ k \in DOMAIN stations /\ k \in Nat
                       /\ next[k - i] = stations[k]
  <2> SUFFICES ASSUME NEW k \in ahead
               PROVE  /\ k - i \in DOMAIN next /\ k \in DOMAIN stations /\ k \in Nat
                      /\ next[k - i] = stations[k]
    OBVIOUS
  <2>1. k \in Nat /\ i < k /\ k <= Len(stations)
    BY <1>1
  <2> HIDE DEF ahead
  <2>2. k - i \in 1..(Len(stations) - i) /\ k \in 1..Len(stations) /\ i + (k - i) = k
    BY <1>1, <2>1
  <2>3. k - i \in DOMAIN next /\ k \in DOMAIN stations
    BY <1>1, <1>3, <2>2
  <2> DEFINE j == k - i
  <2>4. j \in DOMAIN next /\ i + j = k
    BY <2>2, <2>3
  <2> HIDE DEF j
  <2>5. next[j] = stations[k]
    BY <1>4, <2>4
  <2> QED BY <2>1, <2>3, <2>5 DEF j
<1>6. /\ IsFiniteSet(cheaper) /\ cheaper \subseteq Int
      /\ IsFiniteSet(equal) /\ equal \subseteq Int
  <2>1. IsFiniteSet(DOMAIN next) /\ DOMAIN next \subseteq Int
    <3> DEFINE n == Len(stations) - i
    <3>1. DOMAIN next = 1..n /\ n \in Int
      BY <1>1, <1>3
    <3> HIDE DEF n
    <3>2. IsFiniteSet(1..n)
      BY <3>1, FS_Interval
    <3> QED BY <3>1, <3>2
  <2>2. cheaper \subseteq DOMAIN next /\ equal \subseteq DOMAIN next
    OBVIOUS
  <2> HIDE DEF cheaper, equal
  <2> QED BY <2>1, <2>2, FS_Subset
<1>7. /\ FirstCheaper(here, price, next) = IF cheaper = {} THEN 0 ELSE next[Min(cheaper)].at
      /\ LastEqual(here, price, next) = IF equal = {} THEN 0 ELSE next[Max(equal)].at
  BY DEF FirstCheaper, LastEqual
<1>8. /\ \A k \in ahead : k - i \in cheaper <=>
            stations[k].at - here <= Capacity /\ stations[k].price < price
      /\ \A k \in DOMAIN next : k \in equal =>
            stations[i + k].at - here <= Capacity /\ stations[i + k].price = price
  BY <1>4, <1>5
<1>9. cheaper \subseteq DOMAIN next /\ equal \subseteq DOMAIN next
  OBVIOUS
<1> HIDE DEF cheaper, equal
<1>10. \/ LastEqual(here, price, next) = 0
       \/ \E k \in ahead : /\ LastEqual(here, price, next) = stations[k].at
                           /\ LastEqual(here, price, next) - here <= Capacity
                           /\ stations[k].price = price
  <2> SUFFICES ASSUME equal # {}
               PROVE  \E k \in ahead : /\ LastEqual(here, price, next) = stations[k].at
                                       /\ LastEqual(here, price, next) - here <= Capacity
                                       /\ stations[k].price = price
    BY <1>7
  <2>1. Max(equal) \in equal
    BY <1>6, Extremes
  <2> DEFINE k == i + Max(equal)
  <2>2. k \in ahead /\ next[Max(equal)] = stations[k] /\ Max(equal) \in DOMAIN next
    BY <1>4, <1>9, <2>1
  <2>3. stations[k].at - here <= Capacity /\ stations[k].price = price
    BY <1>8, <2>1, <2>2
  <2> HIDE DEF k
  <2>4. LastEqual(here, price, next) = stations[k].at
    BY <1>7, <2>2
  <2> QED BY <2>2, <2>3, <2>4
<1>11. ASSUME cheaper = {} PROVE IsFirstCheaper(i, FirstCheaper(here, price, next))
  <2>1. FirstCheaper(here, price, next) = 0
    BY <1>7, <1>11
  <2>2. \A k \in ahead : stations[k].at - here <= Capacity => stations[k].price >= price
    <3> SUFFICES ASSUME NEW k \in ahead, stations[k].at - here <= Capacity
                 PROVE  stations[k].price >= price
      OBVIOUS
    <3>1. ~(stations[k].price < price)
      BY <1>8, <1>11
    <3>2. stations[k].price \in Nat
      BY <1>1, <1>5
    <3> QED BY <1>2, <3>1, <3>2
  <2> QED BY <2>1, <2>2 DEF IsFirstCheaper
<1>12. ASSUME cheaper # {} PROVE IsFirstCheaper(i, FirstCheaper(here, price, next))
  <2> DEFINE m == Min(cheaper)
             k == i + m
  <2>1. m \in cheaper /\ \A l \in cheaper : l >= m
    BY <1>6, <1>12, Extremes
  <2>2. m \in DOMAIN next /\ k \in ahead /\ next[m] = stations[k] /\ k - i = m /\ m \in Nat
    BY <1>1, <1>4, <1>9, <2>1
  <2>3. stations[k].at - here <= Capacity /\ stations[k].price < price
    BY <1>8, <2>1, <2>2
  <2>4. FirstCheaper(here, price, next) = stations[k].at
    BY <1>7, <1>12, <2>2
  <2>5. stations[k].at > 0 /\ stations[k].at \in Int
    BY <1>1, <1>5, <2>2
  <2>6. ASSUME NEW l \in ahead, l < k, stations[l].at - here <= Capacity
        PROVE  stations[l].price >= price
    <3>1. l - i < m /\ l \in Nat /\ l - i \in Int
      BY <1>1, <1>5, <2>2, <2>6
    <3>2. l - i \notin cheaper
      BY <1>6, <2>1, <2>2, <3>1
    <3>3. ~(stations[l].price < price)
      BY <1>8, <2>6, <3>2
    <3>4. stations[l].price \in Nat
      BY <1>1, <1>5
    <3> QED BY <1>2, <3>3, <3>4
  <2> HIDE DEF k
  <2>7. FirstCheaper(here, price, next) # 0
    BY <2>4, <2>5
  <2> QED BY <2>2, <2>3, <2>4, <2>6, <2>7 DEF IsFirstCheaper
<1>13. IsLastEqual(i, LastEqual(here, price, next))
  BY <1>10 DEF IsLastEqual
<1> QED BY <1>11, <1>12, <1>13

LEMMA GoalExists ==
    ASSUME VehicleInvariant, NEW i \in DOMAIN stations
    PROVE  \E goal : IsGoal(i, goal)
<1> DEFINE here == stations[i].at
           price == stations[i].price
           next == SubSeq(stations, i + 1, Len(stations))
           ahead == (i + 1)..Len(stations)
           first == FirstCheaper(here, price, next)
           last == LastEqual(here, price, next)
           desired == IF Target(i) = 0 THEN Capacity ELSE Least(Capacity, Target(i) - Place(i))
           dear == \A k \in ahead : stations[k].at - here <= Capacity => stations[k].price >= price
<1>1. /\ here \in Int /\ price \in Nat /\ 0 < here /\ here < distance /\ Place(i) = here
      /\ distance \in Nat /\ Capacity \in Nat
      /\ i \in Nat
      /\ \A k \in ahead : /\ k \in DOMAIN stations /\ i < k /\ k \in Nat
                          /\ stations[k].at \in Int /\ stations[k].price \in Nat
                          /\ 0 < stations[k].at /\ stations[k].at < distance
  <2>1. /\ i \in Nat /\ i \in 1..Len(stations) /\ Len(stations) \in Nat
        /\ DOMAIN stations = 1..Len(stations)
    BY StationsInOrder
  <2>2. \A k \in ahead : k \in DOMAIN stations /\ i < k /\ k \in Nat
    BY <2>1
  <2> HIDE DEF ahead
  <2> QED BY <2>1, <2>2, StationsInOrder
<1>2. Target(i) = IF first # 0 THEN first ELSE IF distance - here <= Capacity THEN distance ELSE last
  BY DEF Target
<1>3. /\ \/ first = 0 /\ dear
         \/ /\ first # 0
            /\ \E k \in ahead :
                  /\ first = stations[k].at /\ first - here <= Capacity /\ stations[k].price < price
                  /\ \A l \in ahead : l < k /\ stations[l].at - here <= Capacity =>
                        stations[l].price >= price
      /\ \/ last = 0
         \/ \E k \in ahead : /\ last = stations[k].at /\ last - here <= Capacity
                             /\ stations[k].price = price
  <2>1. IsFirstCheaper(i, first) /\ IsLastEqual(i, last)
    BY Lookups
  <2> HIDE DEF first, last
  <2> QED BY <2>1 DEF IsFirstCheaper, IsLastEqual
<1>4. \A j, k \in ahead : j <= k => stations[j].at <= stations[k].at
  BY <1>1, StationsInOrder
<1> DEFINE cheap(goal) == \A k \in ahead : stations[k].price < price => goal <= stations[k].at
<1>5. ASSUME NEW goal \in Int, desired = goal - here, goal <= here + Capacity, goal <= distance,
             cheap(goal),
             \/ goal \in {distance, here + Capacity}
             \/ \E k \in ahead : goal = stations[k].at /\ stations[k].price <= price
      PROVE  IsGoal(i, goal)
  <2>1. desired = goal - stations[i].at /\ goal <= stations[i].at + Capacity
        /\ \/ goal \in {distance, stations[i].at + Capacity}
           \/ \E k \in (i + 1)..Len(stations) :
                 goal = stations[k].at /\ stations[k].price <= stations[i].price
    BY <1>5
  <2>2. \A k \in (i + 1)..Len(stations) :
           stations[k].price < stations[i].price => goal <= stations[k].at
    BY <1>5
  <2> QED BY <1>5, <2>1, <2>2 DEF IsGoal
<1>6. ASSUME dear, NEW goal \in Int, goal <= here + Capacity PROVE cheap(goal)
  <2> SUFFICES ASSUME NEW k \in ahead, stations[k].price < price PROVE goal <= stations[k].at
    OBVIOUS
  <2>1. stations[k].price \in Nat /\ stations[k].at \in Int
    BY <1>1
  <2>2. ~(stations[k].at - here <= Capacity)
    BY <1>1, <1>6, <2>1
  <2> HIDE DEF here, ahead
  <2> QED BY <1>1, <1>6, <2>1, <2>2
<1>7. CASE first # 0
  <2>1. PICK k \in ahead :
           /\ first = stations[k].at /\ first - here <= Capacity /\ stations[k].price < price
           /\ \A l \in ahead : l < k /\ stations[l].at - here <= Capacity => stations[l].price >= price
    BY <1>3, <1>7
  <2> DEFINE goal == stations[k].at
  <2>2. Target(i) = goal /\ goal \in Int /\ goal # 0 /\ goal - here <= Capacity /\ goal < distance
    BY <1>1, <1>2, <1>7, <2>1
  <2>3. cheap(goal)
    <3> SUFFICES ASSUME NEW l \in ahead, stations[l].price < price PROVE goal <= stations[l].at
      OBVIOUS
    <3>1. /\ stations[l].at \in Int /\ stations[l].price \in Nat /\ l \in Nat /\ k \in Nat
          /\ stations[k].at \in Int
      BY <1>1
    <3>2. CASE l < k
      <4>1. ~(stations[l].at - here <= Capacity)
        BY <1>1, <2>1, <3>1, <3>2
      <4> HIDE DEF goal, here
      <4> QED BY <1>1, <2>2, <3>1, <4>1
    <3>3. CASE ~(l < k)
      BY <1>4, <3>1, <3>3
    <3> QED BY <3>2, <3>3
  <2>4. stations[k].price <= price
    BY <1>1, <2>1
  <2>5. desired = goal - here
    <3> HIDE DEF here, goal
    <3> QED BY <1>1, <2>2 DEF Least
  <2>6. goal <= here + Capacity /\ goal <= distance
    <3> HIDE DEF here, goal
    <3> QED BY <1>1, <2>2
  <2> HIDE DEF desired, here, cheap
  <2> QED BY <1>5, <2>2, <2>3, <2>4, <2>5, <2>6
<1>8. CASE first = 0 /\ distance - here <= Capacity
  <2>1. dear /\ Target(i) = distance
    BY <1>2, <1>3, <1>8
  <2>2. desired = distance - here /\ distance <= here + Capacity /\ distance \in Int
    <3> HIDE DEF here, first
    <3> QED BY <1>1, <1>8, <2>1 DEF Least
  <2>3. cheap(distance)
    BY <1>6, <2>1, <2>2
  <2> HIDE DEF desired, here, cheap
  <2> QED BY <1>1, <1>5, <2>2, <2>3
<1>9. CASE first = 0 /\ ~(distance - here <= Capacity)
  <2>1. dear /\ Target(i) = last
    BY <1>2, <1>3, <1>9
  <2>2. CASE last = 0
    <3> DEFINE goal == here + Capacity
    <3>1. desired = goal - here /\ goal <= distance /\ goal \in Int /\ goal <= here + Capacity
      <4> HIDE DEF here, first
      <4> QED BY <1>1, <1>9, <2>1, <2>2
    <3>2. cheap(goal)
      BY <1>6, <2>1, <3>1
    <3> HIDE DEF desired, here, cheap
    <3> QED BY <1>5, <3>1, <3>2
  <2>3. CASE last # 0
    <3>1. PICK k \in ahead : /\ last = stations[k].at /\ last - here <= Capacity
                             /\ stations[k].price = price
      BY <1>3, <2>3
    <3> DEFINE goal == stations[k].at
    <3>2. goal \in Int /\ goal < distance /\ Target(i) = goal /\ goal # 0 /\ goal - here <= Capacity
          /\ stations[k].price <= price
      BY <1>1, <2>1, <2>3, <3>1
    <3>3. desired = goal - here /\ goal <= distance /\ goal <= here + Capacity
      <4> HIDE DEF here, goal
      <4> QED BY <1>1, <3>2 DEF Least
    <3>4. cheap(goal)
      BY <1>6, <2>1, <3>2, <3>3
    <3> HIDE DEF desired, here, cheap
    <3> QED BY <1>5, <3>2, <3>3, <3>4
  <2> QED BY <2>2, <2>3
<1> QED BY <1>7, <1>8, <1>9

--------------------------------------------------------------------------------
(* The optimizer, where nothing is rounded                                    *)

LEMMA TotalNatural ==
    ASSUME NEW n \in Nat, NEW p, \A j \in 1..n : p[j] \in Nat
    PROVE  SumUpTo(p, n) \in Nat
<1>1. SumUpTo(p, n) \in Int /\ SumUpTo(p, 0) = 0
  BY TotalTyped, NothingIsBought
<1>2. SumUpTo(p, 0 + n) >= SumUpTo(p, 0) + n * 0
  <2>1. \A u \in 1..(0 + n) : p[u] \in Int
    OBVIOUS
  <2>2. \A u \in (0 + 1)..(0 + n) : p[u] >= 0
    OBVIOUS
  <2> QED BY <2>1, <2>2, RunsAddUp
<1> QED BY <1>1, <1>2

LEMMA ZeroIsWhole == Whole(0)
<1>1. Step \in Nat \ {0} /\ 0 = 0 * Step
  BY TankAssumption
<1> QED BY <1>1, MultipleOf DEF Whole

LEMMA WholeTotal ==
    ASSUME NEW n \in Nat, NEW p, \A j \in 1..n : p[j] \in Int /\ Whole(p[j])
    PROVE  Whole(SumUpTo(p, n))
<1> DEFINE N == {k \in Nat : k <= n => Whole(SumUpTo(p, k))}
<1>1. 0 \in N
  BY ZeroIsWhole, NothingIsBought
<1>2. ASSUME NEW k \in Nat, k <= n => Whole(SumUpTo(p, k)), k + 1 <= n
      PROVE  Whole(SumUpTo(p, k + 1))
  <2>1. k + 1 \in 1..n /\ \A j \in 1..(k + 1) : p[j] \in Int
    BY <1>2
  <2>2. SumUpTo(p, k + 1) = SumUpTo(p, k) + p[k + 1] /\ SumUpTo(p, k) \in Int
    BY <2>1, PurchasesAddUp
  <2>3. Whole(SumUpTo(p, k)) /\ Whole(p[k + 1]) /\ p[k + 1] \in Int
    BY <1>2, <2>1
  <2> QED BY <2>2, <2>3, WholeSums
<1>3. Nat \subseteq N
  <2>1. ASSUME NEW k \in Nat, k \in N PROVE k + 1 \in N
    BY <1>2, <2>1
  <2> HIDE DEF N
  <2> QED BY <1>1, <2>1, AllNumbers
<1> QED BY <1>3

LEMMA ExactFacts ==
    ASSUME Exact
    PROVE  /\ Step \in Nat \ {0} /\ Grain \in Nat \ {0} /\ Near \in Nat \ {0}
           /\ Grain < Step /\ Near < Step /\ Multiple(Step, Grain)
           /\ Whole(Capacity) /\ Whole(start) /\ Whole(distance)
           /\ \A i \in DOMAIN stations : Whole(stations[i].at)
<1>1. \A i \in DOMAIN stations : stations[i].at \in {stations[j].at : j \in DOMAIN stations}
  OBVIOUS
<1> QED BY <1>1, TankAssumption, VehicleAssumption DEF Exact, InWholeSteps

LEMMA FilledTyped ==
    ASSUME VehicleInvariant
    PROVE  /\ \A i \in 0..at : Filled(i) \in Nat /\ start <= Filled(i)
           /\ Filled(0) = start
           /\ \A i \in 1..at : bought[i] \in Nat /\ Filled(i) = Filled(i - 1) + bought[i]
<1>1. start \in Nat /\ at \in Nat /\ \A i \in 1..at : bought[i] \in Nat
  BY StationsInOrder
<1>2. \A i \in 0..at : SumUpTo(bought, i) \in Nat
  <2> SUFFICES ASSUME NEW i \in 0..at PROVE SumUpTo(bought, i) \in Nat
    OBVIOUS
  <2>1. i \in Nat /\ \A j \in 1..i : bought[j] \in Nat
    BY <1>1
  <2> QED BY <2>1, TotalNatural
<1>3. \A i \in 1..at : SumUpTo(bought, i) = SumUpTo(bought, i - 1) + bought[i]
  <2> SUFFICES ASSUME NEW i \in 1..at
               PROVE  SumUpTo(bought, i) = SumUpTo(bought, i - 1) + bought[i]
    OBVIOUS
  <2> DEFINE n == i - 1
  <2>1. n \in Nat /\ n + 1 = i /\ \A j \in 1..(n + 1) : bought[j] \in Int
    BY <1>1
  <2> HIDE DEF n
  <2>2. SumUpTo(bought, n + 1) = SumUpTo(bought, n) + bought[n + 1]
    BY <2>1, PurchasesAddUp
  <2> QED BY <2>1, <2>2 DEF n
<1>4. \A i \in 0..at : Filled(i) = start + SumUpTo(bought, i)
  BY DEF Filled
<1>5. \A i \in 1..at : i - 1 \in 0..at /\ i \in 0..at
  BY <1>1
<1>6. ASSUME NEW i \in 1..at PROVE bought[i] \in Nat /\ Filled(i) = Filled(i - 1) + bought[i]
  <2>1. /\ Filled(i) = start + SumUpTo(bought, i) /\ Filled(i - 1) = start + SumUpTo(bought, i - 1)
        /\ SumUpTo(bought, i - 1) \in Nat /\ SumUpTo(bought, i) = SumUpTo(bought, i - 1) + bought[i]
    BY <1>2, <1>3, <1>4, <1>5
  <2> QED BY <1>1, <2>1
<1>7. Filled(0) = start
  BY <1>1, NothingIsBought DEF Filled
<1> QED BY <1>1, <1>2, <1>4, <1>6, <1>7

LEMMA FilledWhole ==
    ASSUME VehicleInvariant, ExactInvariant, Exact
    PROVE  \A i \in 0..at : Whole(Filled(i))
<1> SUFFICES ASSUME NEW i \in 0..at PROVE Whole(Filled(i))
  OBVIOUS
<1>1. at \in Nat /\ start \in Nat /\ \A j \in 1..at : bought[j] \in Nat
  BY StationsInOrder
<1>2. i \in Nat /\ \A j \in 1..i : bought[j] \in Int /\ Whole(bought[j])
  BY <1>1 DEF ExactInvariant
<1>3. Whole(SumUpTo(bought, i)) /\ SumUpTo(bought, i) \in Int
  BY <1>2, WholeTotal, TotalTyped
<1> QED BY <1>1, <1>3, ExactFacts, WholeSums DEF Filled

\* The next stop, or the end.
Ahead == IF at = Len(stations) THEN distance ELSE stations[at + 1].at

\* The fuel there is lasts to the next stop and to the end.
LEMMA LegIsFuelled ==
    ASSUME VehicleInvariant, ExactInvariant, Exact, outcome = "driving"
    PROVE  Ahead <= Filled(at)
<1> DEFINE full == Filled(at)
           last == Len(stations)
<1>1. /\ last \in Nat /\ DOMAIN stations = 1..last /\ at \in Nat /\ at <= last
      /\ distance \in Nat /\ start \in Nat /\ Capacity \in Nat
      /\ \A i \in 1..last : /\ stations[i].at \in Int /\ stations[i].at < distance
  BY StationsInOrder
<1>2. full \in Nat /\ start <= full /\ Whole(full)
  <2>1. at \in 0..at
    BY <1>1
  <2> QED BY <2>1, FilledTyped, FilledWhole
<1>3. /\ at # last => at + 1 \in 1..last
      /\ at # 0 => at \in 1..last
      /\ last # 0 => 1 \in 1..last
      /\ last = 0 <=> stations = <<>>
  <2>1. last = 0 <=> stations = <<>>
    <3>1. stations \in Seq(Candidate)
      BY StationsInOrder
    <3> QED BY <3>1
  <2> HIDE DEF last, full
  <2> QED BY <1>1, <2>1
<1>4. Ahead \in Int /\ Ahead <= distance /\ Whole(Ahead)
  <2>1. CASE at = last
    BY <1>1, <2>1, ExactFacts DEF Ahead
  <2>2. CASE at # last
    <3>1. stations[at + 1].at \in Int /\ stations[at + 1].at < distance /\ Whole(stations[at + 1].at)
      BY <1>1, <1>3, <2>2, ExactFacts
    <3>2. Ahead = stations[at + 1].at
      BY <2>2 DEF Ahead
    <3> DEFINE next == stations[at + 1].at
    <3>3. Ahead = next /\ next \in Int /\ next < distance /\ Whole(next)
      BY <3>1, <3>2
    <3> HIDE DEF next
    <3> QED BY <1>1, <3>3
  <2> QED BY <2>1, <2>2
<1>5. Near \in Nat /\ Near < Step /\ Step \in Nat
  BY ExactFacts
<1>6. Covered /\ LegsAreFuelled /\ Onward
  BY DEF ExactInvariant
<1> SUFFICES ASSUME full < Ahead PROVE FALSE
  <2> HIDE DEF full
  <2> QED BY <1>2, <1>4 DEF full
<1>7. ~(distance <= start)
  <2> HIDE DEF full
  <2> QED BY <1>1, <1>2, <1>4
<1>8. /\ stations # <<>> /\ stations[1].at <= start + Near
      /\ \A i \in DOMAIN stations :
            (IF i = Len(stations) THEN distance ELSE stations[i + 1].at)
               - stations[i].at <= Capacity + Near
  BY <1>6, <1>7 DEF Covered
<1>9. CASE at = 0
  <2>1. at # last /\ Ahead = stations[1].at /\ full = start
    BY <1>3, <1>8, <1>9, FilledTyped DEF Ahead
  <2> DEFINE more == start - Ahead
  <2>2. more \in Int /\ Whole(more) /\ more > -Step
    <3>1. Whole(more)
      BY <1>1, <1>4, WholeSums, ExactFacts
    <3>2. Ahead <= start + Near
      BY <1>8, <2>1
    <3> QED BY <1>1, <1>4, <1>5, <3>1, <3>2
  <2>3. more >= 0
    <3> HIDE DEF more
    <3> QED BY <2>2, WholeApart
  <2>4. start < Ahead
    BY <2>1
  <2> QED BY <1>1, <1>4, <2>3, <2>4
<1>10. CASE at # 0
  <2> DEFINE here == stations[at].at
             more == Capacity - (Ahead - here)
  <2>1. here \in Int /\ Whole(here) /\ Ahead - here <= Capacity + Near
    BY <1>1, <1>3, <1>8, <1>10, ExactFacts DEF Ahead
  <2> HIDE DEF here
  <2>2. more \in Int /\ Whole(more) /\ more > -Step
    <3>1. Ahead - here \in Int /\ Whole(Ahead - here)
      BY <1>4, <2>1, WholeSums
    <3>2. Whole(more)
      <4> DEFINE leg == Ahead - here
      <4>1. Capacity \in Int /\ leg \in Int /\ Whole(leg) /\ Whole(Capacity)
        BY <1>1, <3>1, ExactFacts
      <4> HIDE DEF leg
      <4>2. Whole(Capacity - leg)
        BY <4>1, WholeSums
      <4> QED BY <4>2 DEF leg
    <3> QED BY <1>1, <1>4, <1>5, <2>1, <3>1, <3>2
  <2>3. more >= 0
    <3> HIDE DEF more
    <3> QED BY <2>2, WholeApart
  <2>4. full < here + Capacity /\ full < distance
    <3> HIDE DEF full
    <3> QED BY <1>1, <1>2, <1>4, <2>1, <2>3
  <2>5. at \in 1..at
    BY <1>1, <1>10
  <2>6. PICK k \in (at + 1)..Len(stations) : stations[k].at <= full
    BY <1>6, <2>4, <2>5 DEF Onward, here
  <2>7. at # last /\ k \in DOMAIN stations /\ at + 1 <= k /\ at + 1 \in DOMAIN stations
    <3> HIDE DEF full
    <3>1. k \in Int /\ at + 1 <= k /\ k <= last
      BY <1>1, <2>6
    <3> HIDE DEF last
    <3>2. at # last /\ k \in 1..last /\ at + 1 \in 1..last
      BY <1>1, <3>1
    <3> QED BY <1>1, <3>1, <3>2 DEF last
  <2>8. stations[at + 1].at <= stations[k].at /\ Ahead = stations[at + 1].at
    BY <2>7, StationsInOrder DEF Ahead
  <2>9. stations[k].at \in Int
    BY <1>1, <2>7
  <2> HIDE DEF full
  <2> QED BY <1>2, <1>4, <2>6, <2>8, <2>9
<1> QED BY <1>9, <1>10

\* What is bought fills the tank to the goal, if the fuel does not last that far.
LEMMA ExactPurchase ==
    ASSUME VehicleInvariant, Exact, NEW i \in DOMAIN stations, NEW goal, IsGoal(i, goal),
           NEW rest \in Nat, Whole(rest)
    PROVE  LET volume == Wanted(i, rest)
           IN  /\ Whole(goal)
               /\ volume = Most(0, goal - stations[i].at - rest)
               /\ volume \in Nat /\ Whole(volume)
               /\ (IF volume > Grain THEN volume ELSE 0) = volume
<1> DEFINE here == stations[i].at
           short == Most(0, goal - here - rest)
<1>1. /\ here \in Int /\ Whole(here) /\ goal \in Int /\ Capacity \in Nat /\ distance \in Nat
      /\ \A k \in (i + 1)..Len(stations) : k \in DOMAIN stations
  <2>1. i \in 1..Len(stations) /\ Len(stations) \in Nat /\ DOMAIN stations = 1..Len(stations)
    BY StationsInOrder
  <2> QED BY <2>1, StationsInOrder, ExactFacts DEF IsGoal
<1>2. Whole(goal)
  <2>1. Whole(here + Capacity)
    <3>1. Whole(Capacity) /\ Capacity \in Int
      BY <1>1, ExactFacts
    <3> HIDE DEF here
    <3> QED BY <1>1, <3>1, WholeSums
  <2>2. \A k \in DOMAIN stations : Whole(stations[k].at)
    BY ExactFacts
  <2>3. goal = distance \/ goal = here + Capacity \/ \E k \in DOMAIN stations : goal = stations[k].at
    BY <1>1 DEF IsGoal
  <2> HIDE DEF here
  <2> QED BY <2>1, <2>2, <2>3, ExactFacts
<1>3. Wanted(i, rest) = Rounded(short)
  <2>1. (IF Target(i) = 0 THEN Capacity ELSE Least(Capacity, Target(i) - Place(i))) = goal - here
    BY DEF IsGoal
  <2> HIDE DEF here
  <2> QED BY <2>1 DEF Wanted
<1>4. short \in Nat /\ Whole(short)
  <2> DEFINE more == goal - here
  <2>1. more \in Int /\ Whole(more)
    <3> HIDE DEF here
    <3>1. goal \in Int /\ here \in Int /\ Whole(goal) /\ Whole(here)
      BY <1>1, <1>2
    <3>2. goal - here \in Int /\ Whole(goal - here)
      BY <3>1, WholeSums
    <3> QED BY <3>2
  <2> HIDE DEF more
  <2>2. more - rest \in Int /\ Whole(more - rest)
    BY <2>1, WholeSums
  <2>3. short = Most(0, more - rest)
    BY DEF more
  <2> HIDE DEF short
  <2> QED BY <2>2, <2>3, ZeroIsWhole DEF Most
<1> HIDE DEF short
<1>5. Rounded(short) = short
  BY <1>4, ExactFacts, WholeIsNotRounded
<1>6. short > Grain \/ short = 0
  <2>1. short > 0 => short >= Step
    BY <1>4, WholeApart
  <2> QED BY <1>4, <2>1, ExactFacts
<1> QED BY <1>2, <1>3, <1>4, <1>5, <1>6 DEF short

LEMMA FilledStays ==
    ASSUME start' = start, bought' = bought
    PROVE  \A j : Filled(j)' = Filled(j)
BY DEF Filled, SumUpTo, MapThenSumSet, MapThenFoldSet

LEMMA ExactStays ==
    ASSUME ExactInvariant, distance' = distance, start' = start, stations' = stations,
           at' = at, fuel' = fuel, bought' = bought,
           \/ outcome' = outcome
           \/ outcome = "planning" /\ outcome' = IF Covered THEN "driving" ELSE "refused"
    PROVE  ExactInvariant'
<1>1. Covered' = Covered /\ Exact' = Exact /\ Place(at)' = Place(at)
  BY DEF Covered, Exact, InWholeSteps, Whole, Multiple, Place
<1>2. /\ LegsAreFuelled' = LegsAreFuelled /\ NothingCheaper' = NothingCheaper
      /\ NothingBeyond' = NothingBeyond /\ Onward' = Onward
  BY FilledStays DEF LegsAreFuelled, NothingCheaper, NothingBeyond, Onward, Covers
<1>3. Filled(at)' = Filled(at)
  BY DEF Filled, SumUpTo, MapThenSumSet, MapThenFoldSet
<1>4. \A i : Whole(bought[i])' = Whole(bought[i])
  BY DEF Whole, Multiple
<1> QED BY <1>1, <1>2, <1>3, <1>4 DEF ExactInvariant

LEMMA ExactArrives ==
    ASSUME VehicleInvariant, ExactInvariant, Arrive PROVE ExactInvariant'
<1>1. /\ outcome = "driving" /\ at = Len(stations) /\ distance' = distance /\ start' = start
      /\ stations' = stations /\ at' = at /\ bought' = bought
      /\ outcome' = IF CanDrive(fuel - (distance - Place(at))) THEN "planned" ELSE "stuck"
  BY DEF Arrive
<1>2. Covered' = Covered /\ Exact' = Exact
  BY <1>1 DEF Covered, Exact, InWholeSteps, Whole, Multiple
<1>3. /\ LegsAreFuelled' = LegsAreFuelled /\ NothingCheaper' = NothingCheaper
      /\ NothingBeyond' = NothingBeyond /\ Onward' = Onward
  BY <1>1, FilledStays DEF LegsAreFuelled, NothingCheaper, NothingBeyond, Onward, Covers
<1>4. Filled(at)' = Filled(at)
  BY <1>1 DEF Filled, SumUpTo, MapThenSumSet, MapThenFoldSet
<1>5. \A i : Whole(bought[i])' = Whole(bought[i])
  BY <1>1 DEF Whole, Multiple
<1>6. ASSUME Exact PROVE outcome' = "planned" /\ distance <= Filled(at)
  <2>1. distance <= Filled(at)
    BY <1>1, <1>6, LegIsFuelled DEF Ahead
  <2>2. fuel = Filled(at) - Place(at)
    BY <1>1, <1>6 DEF ExactInvariant
  <2>3. Filled(at) \in Nat /\ Place(at) \in Int /\ distance \in Nat /\ Grain \in Nat
    <3>1. at \in Nat /\ at \in 0..at /\ (at # 0 => at \in DOMAIN stations)
      BY StationsInOrder
    <3>2. Place(at) \in Int
      BY <3>1, StationsInOrder DEF Place
    <3> QED BY <3>1, <3>2, StationsInOrder, FilledTyped, VehicleAssumption
  <2>4. CanDrive(fuel - (distance - Place(at)))
    BY <2>1, <2>2, <2>3 DEF CanDrive
  <2> QED BY <1>1, <2>1, <2>4
<1> QED BY <1>1, <1>2, <1>3, <1>4, <1>5, <1>6 DEF ExactInvariant

\* The i-th pass of the loop, buying what lasts to the goal.
LEMMA ExactDrives ==
    ASSUME VehicleInvariant, ExactInvariant, Exact, DriveAndBuy, NEW i, i = at + 1
    PROVE  \E goal, more :
              /\ IsGoal(i, goal) /\ Whole(more) /\ more = Most(0, goal - Filled(at))
              /\ more \in Nat /\ goal \in Int
              /\ stations[i].at <= Filled(at)
              /\ outcome' = outcome /\ at' = i /\ bought' = Append(bought, more)
              /\ fuel' = Filled(at) + more - stations[i].at
<1> DEFINE here == stations[i].at
           full == Filled(at)
           remains == fuel - (Place(i) - Place(at))
           rest == full - here
<1>1. outcome = "driving" /\ at < Len(stations)
  BY DEF DriveAndBuy
<1>2. /\ i \in DOMAIN stations /\ i \in Nat /\ here \in Int /\ Place(i) = here /\ Whole(here)
      /\ full \in Nat /\ Whole(full) /\ Place(at) \in Int
      /\ bought \in Seq(Nat) /\ Grain \in Nat /\ fuel \in Nat
  <2>1. /\ at \in Nat /\ at \in 0..at /\ i \in DOMAIN stations /\ i \in Nat
        /\ (at # 0 => at \in DOMAIN stations)
    <3>1. Len(stations) \in Nat /\ DOMAIN stations = 1..Len(stations) /\ at \in Nat
      BY StationsInOrder
    <3> QED BY <1>1, <3>1
  <2>2. Place(at) \in Int
    BY <2>1, StationsInOrder DEF Place
  <2> QED BY <2>1, <2>2, StationsInOrder, ExactFacts, FilledTyped, FilledWhole
<1>3. here <= full
  <2>1. Ahead = here
    BY <1>1 DEF Ahead
  <2> QED BY <1>1, <2>1, LegIsFuelled
<1>4. remains = rest /\ rest \in Nat /\ Whole(rest)
  <2>1. fuel = full - Place(at)
    BY <1>1 DEF ExactInvariant
  <2> HIDE DEF full, here
  <2>2. Whole(rest)
    BY <1>2, WholeSums
  <2> QED BY <1>2, <1>3, <2>1, <2>2
<1>5. CanDrive(remains) /\ Most(0, remains) = rest
  <2> HIDE DEF rest, remains
  <2> QED BY <1>2, <1>4 DEF CanDrive, Most
<1>6. PICK goal : IsGoal(i, goal)
  BY <1>2, GoalExists
<1> DEFINE more == Wanted(i, rest)
<1>7. /\ goal \in Int /\ more = Most(0, goal - here - rest)
      /\ more \in Nat /\ Whole(more) /\ (IF more > Grain THEN more ELSE 0) = more
  <2>1. goal \in Int
    BY <1>6 DEF IsGoal
  <2> HIDE DEF rest
  <2>2. more = Wanted(i, rest)
    OBVIOUS
  <2> HIDE DEF more
  <2> QED BY <1>2, <1>4, <1>6, <2>1, <2>2, ExactPurchase
<1>8. more = Most(0, goal - full)
  <2>1. goal - here - rest = goal - full
    <3> HIDE DEF full, here
    <3> QED BY <1>2, <1>7
  <2> QED BY <1>7, <2>1
<1>9. /\ outcome' = outcome /\ at' = i /\ bought' = Append(bought, more)
      /\ fuel' = rest + Last(bought')
  <2> HIDE DEF remains
  <2>1. /\ outcome' = outcome /\ at' = i
        /\ bought' = Append(bought, IF Wanted(i, Most(0, remains)) > Grain
                                    THEN Wanted(i, Most(0, remains)) ELSE 0)
        /\ fuel' = Most(0, remains) + Last(bought')
    BY <1>5 DEF DriveAndBuy, remains
  <2> HIDE DEF rest
  <2> QED BY <1>5, <1>7, <2>1
<1> HIDE DEF more
<1>10. Last(bought') = more
  BY <1>2, <1>7, <1>9 DEF Last
<1>11. fuel' = full + more - here
  <2> HIDE DEF full, here
  <2> QED BY <1>2, <1>7, <1>9, <1>10
<1> QED BY <1>3, <1>6, <1>7, <1>8, <1>9, <1>11

LEMMA DriveKeepsExact ==
    ASSUME VehicleInvariant, ExactInvariant, DriveAndBuy, NEW i, i = at + 1
    PROVE  ExactInvariant'
<1> DEFINE here == stations[i].at
           full == Filled(at)
<1>1. /\ outcome = "driving" /\ at < Len(stations) /\ distance' = distance /\ start' = start
      /\ stations' = stations /\ outcome' \in {"driving", "stuck"}
  BY DEF DriveAndBuy
<1>2. Covered' = Covered /\ Exact' = Exact
  BY <1>1 DEF Covered, Exact, InWholeSteps, Whole, Multiple
<1>3. start <= Capacity /\ Covered /\ outcome' # "refused" /\ outcome' # "planned"
  BY <1>1 DEF ExactInvariant
<1>4. CASE ~Exact
  BY <1>1, <1>2, <1>3, <1>4 DEF ExactInvariant
<1>5. CASE Exact
  <2>1. PICK goal, more :
           /\ IsGoal(i, goal) /\ Whole(more) /\ more = Most(0, goal - full)
           /\ more \in Nat /\ goal \in Int /\ here <= full
           /\ outcome' = outcome /\ at' = i /\ bought' = Append(bought, more)
           /\ fuel' = full + more - here
    BY <1>5, ExactDrives
  <2>2. /\ i \in Nat /\ i \in DOMAIN stations /\ at \in Nat /\ i = at + 1 /\ i <= Len(stations)
        /\ Len(stations) \in Nat /\ DOMAIN stations = 1..Len(stations)
        /\ distance \in Nat /\ start \in Nat /\ Capacity \in Nat
        /\ full \in Nat /\ start <= full /\ here \in Int /\ here < distance /\ 0 < here
        /\ bought \in Seq(Nat) /\ Len(bought) = at
    <3>1. /\ Len(stations) \in Nat /\ DOMAIN stations = 1..Len(stations) /\ at \in Nat
          /\ at \in 0..at /\ i \in Nat /\ i \in DOMAIN stations
      <4>1. Len(stations) \in Nat /\ DOMAIN stations = 1..Len(stations) /\ at \in Nat
        BY StationsInOrder
      <4> QED BY <1>1, <4>1
    <3>2. here \in Int /\ here < distance /\ 0 < here
      BY <3>1, StationsInOrder
    <3>3. full \in Nat /\ start <= full
      BY <3>1, FilledTyped
    <3>4. i <= Len(stations)
      BY <3>1
    <3> HIDE DEF full, here
    <3> QED BY <3>1, <3>2, <3>3, <3>4, StationsInOrder
  <2> DEFINE filled == full + more
  <2>3. /\ filled \in Nat /\ full <= filled /\ goal <= filled
        /\ filled = full \/ filled = goal
    <3> HIDE DEF full
    <3> QED BY <2>1, <2>2 DEF Most
  <2>4. /\ \A j \in 0..at : Filled(j)' = Filled(j)
        /\ Filled(i)' = filled
        /\ \A j \in 1..at : bought'[j] = bought[j]
        /\ bought'[i] = more
    <3>1. /\ \A j \in 1..at : bought'[j] = bought[j] /\ bought[j] \in Int
          /\ bought'[i] = more /\ \A j \in 1..i : bought'[j] \in Int
      <4> HIDE DEF here, full
      <4> QED BY <2>1, <2>2
    <3>2. \A j \in 0..at : SumUpTo(bought', j) = SumUpTo(bought, j)
      <4> SUFFICES ASSUME NEW j \in 0..at PROVE SumUpTo(bought', j) = SumUpTo(bought, j)
        OBVIOUS
      <4>1. j \in Nat /\ \A k \in 1..j : bought[k] \in Int /\ bought'[k] = bought[k]
        BY <2>2, <3>1
      <4> QED BY <4>1, SamePurchases
    <3>3. SumUpTo(bought', at + 1) = SumUpTo(bought', at) + bought'[at + 1]
          /\ SumUpTo(bought', at) \in Int
      <4>1. \A j \in 1..(at + 1) : bought'[j] \in Int
        BY <3>1
      <4> QED BY <2>2, <4>1, PurchasesAddUp
    <3>4. \A j : Filled(j)' = start + SumUpTo(bought', j)
      BY <1>1 DEF Filled, SumUpTo, MapThenSumSet, MapThenFoldSet
    <3>5. \A j \in 0..at : Filled(j)' = Filled(j)
      BY <3>2, <3>4 DEF Filled
    <3>6. start + SumUpTo(bought', i) = filled
      <4> DEFINE spent == SumUpTo(bought, at)
      <4>1. /\ start + SumUpTo(bought', i) = start + (spent + more)
            /\ full = start + spent /\ spent \in Int
        <5>1. at \in 0..at
          BY <2>2
        <5>2. SumUpTo(bought', at) = SumUpTo(bought, at)
          BY <3>2, <5>1
        <5> QED BY <3>1, <3>3, <5>2 DEF Filled
      <4> HIDE DEF full, spent
      <4> QED BY <2>1, <2>2, <4>1
    <3> QED BY <3>1, <3>4, <3>5, <3>6
  <2>5. \A j \in 1..i : j \in 1..at \/ j = i
    BY <2>2
  <2>6. /\ goal <= here + Capacity /\ goal <= distance
        /\ \A k \in (i + 1)..Len(stations) : stations[k].price < stations[i].price => goal <= stations[k].at
        /\ \/ goal \in {distance, here + Capacity}
           \/ \E k \in (i + 1)..Len(stations) :
                 goal = stations[k].at /\ stations[k].price <= stations[i].price
    BY <2>1 DEF IsGoal
  <2>7. \A j \in 1..Len(stations) :
           /\ stations[j].at \in Int /\ stations[j].price \in Nat
           /\ j <= i => stations[j].at <= here
           /\ i <= j => here <= stations[j].at
    BY <2>2, StationsInOrder
  <2>8. /\ LegsAreFuelled /\ NothingCheaper /\ NothingBeyond /\ Onward
        /\ \A j \in 1..at : Whole(bought[j])
    BY <1>5 DEF ExactInvariant
  <2>9. full <= here + Capacity /\ filled <= here + Capacity
    <3>1. CASE at = 0
      <4>1. full = start
        BY <3>1, FilledTyped
      <4> HIDE DEF full, here
      <4> QED BY <1>3, <2>2, <2>3, <2>6, <4>1
    <3>2. CASE at # 0
      <4> DEFINE last == stations[at].at
      <4>1. at \in 1..at /\ at \in 1..Len(stations) /\ at <= i
        BY <2>2, <3>2
      <4>2. full <= last + Capacity /\ last <= here /\ last \in Int
        BY <2>7, <2>8, <4>1 DEF LegsAreFuelled
      <4> HIDE DEF full, here, last
      <4> QED BY <2>2, <2>3, <2>6, <4>2
    <3> QED BY <3>1, <3>2
  <2>20. Filled(at)' = filled
    <3>1. Filled(at)' = start + SumUpTo(bought', i)
      BY <1>1, <2>1 DEF Filled, SumUpTo, MapThenSumSet, MapThenFoldSet
    <3>2. Filled(i)' = start + SumUpTo(bought', i)
      BY <1>1 DEF Filled, SumUpTo, MapThenSumSet, MapThenFoldSet
    <3> QED BY <2>4, <3>1, <3>2
  <2>16. \A j \in 1..at : j \in 0..at /\ j - 1 \in 0..at
    BY <2>2
  <2>17. /\ \A j \in 1..at : Filled(j)' = Filled(j) /\ Filled(j - 1)' = Filled(j - 1)
         /\ Filled(i - 1)' = full
    <3>1. i - 1 = at /\ at \in 0..at
      BY <2>2
    <3>2. Filled(i - 1)' = start + SumUpTo(bought', at) /\ full = start + SumUpTo(bought, at)
      BY <1>1, <3>1 DEF Filled, SumUpTo, MapThenSumSet, MapThenFoldSet
    <3>3. start + SumUpTo(bought', at) = full
      BY <2>4, <3>1, <3>2
    <3> QED BY <2>4, <2>16, <3>2, <3>3
  <2>10. LegsAreFuelled'
    <3>1. \A j \in 1..i : stations[j].at <= Filled(j - 1)' /\ Filled(j)' <= stations[j].at + Capacity
      <4> SUFFICES ASSUME NEW j \in 1..i
                   PROVE  stations[j].at <= Filled(j - 1)' /\ Filled(j)' <= stations[j].at + Capacity
        OBVIOUS
      <4>1. CASE j \in 1..at
        BY <2>8, <2>17, <4>1 DEF LegsAreFuelled
      <4>2. CASE j = i
        BY <2>1, <2>4, <2>9, <2>17, <4>2
      <4> QED BY <2>5, <4>1, <4>2
    <3> QED BY <1>1, <2>1, <3>1 DEF LegsAreFuelled
  <2>18. ASSUME NEW u \in (full + 1)..filled, NEW k \in DOMAIN stations, Covers(stations, k, u)
         PROVE  stations[i].price <= stations[k].price
    <3> SUFFICES ASSUME stations[k].price < stations[i].price PROVE FALSE
      <4>1. stations[i].price \in Nat /\ stations[k].price \in Nat
        BY <2>2, <2>7
      <4> QED BY <4>1
    <3> DEFINE there == stations[k].at
    <3>1. /\ there < u /\ u <= there + Capacity /\ there \in Int
          /\ u \in Int /\ full < u /\ u <= filled /\ filled = goal
          /\ k \in Nat /\ k <= Len(stations)
      <4>1. there < u /\ u <= there + Capacity /\ there \in Int
        BY <2>2, <2>7, <2>18 DEF Covers
      <4>2. u \in Int /\ full < u /\ u <= filled
        <5> HIDE DEF full, filled
        <5> QED BY <2>2, <2>3
      <4>3. k \in Nat /\ k <= Len(stations)
        BY <2>2
      <4> HIDE DEF full, filled, there
      <4> QED BY <2>2, <2>3, <4>1, <4>2, <4>3
    <3>2. CASE k > i
      <4>1. k \in (i + 1)..Len(stations)
        BY <2>2, <3>1, <3>2
      <4>2. goal <= there
        BY <2>6, <4>1
      <4> HIDE DEF full, filled, there
      <4> QED BY <2>1, <3>1, <4>2
    <3>3. CASE k = i
      BY <2>2, <2>7, <3>3
    <3>4. CASE k < i
      <4>1. k \in 1..at
        BY <2>2, <3>1, <3>4
      <4>2. full < there + Capacity /\ full < distance
        <5> HIDE DEF full, filled, there
        <5> QED BY <2>1, <2>2, <2>6, <3>1
      <4>3. PICK l \in (at + 1)..Len(stations) :
               stations[l].at <= full /\ stations[l].price <= stations[k].price
        BY <2>8, <4>1, <4>2 DEF Onward
      <4>4. l \in 1..Len(stations) /\ l \in Nat /\ l >= i /\ stations[l].at \in Int
            /\ stations[l].price < stations[i].price
        <5>1. l \in 1..Len(stations) /\ l \in Nat /\ l >= i
          <6> HIDE DEF full
          <6> QED BY <2>2
        <5>2. /\ stations[l].price \in Nat /\ stations[k].price \in Nat
              /\ stations[i].price \in Nat /\ stations[l].at \in Int
          BY <2>2, <2>7, <5>1
        <5> QED BY <4>3, <5>1, <5>2
      <4>5. l # i
        BY <2>2, <2>7, <4>4
      <4>6. l \in (i + 1)..Len(stations)
        <5> HIDE DEF full, filled, there
        <5> QED BY <2>2, <4>4, <4>5
      <4>7. goal <= stations[l].at
        BY <2>6, <4>4, <4>6
      <4> HIDE DEF full, filled, there
      <4> QED BY <2>1, <2>2, <3>1, <4>3, <4>4, <4>7
    <3> QED BY <2>2, <3>1, <3>2, <3>3, <3>4
  <2>11. NothingCheaper'
    <3>1. ASSUME NEW j \in 1..i, NEW u \in (Filled(j - 1)' + 1)..Filled(j)', NEW k \in DOMAIN stations,
                 Covers(stations, k, u)
          PROVE  stations[j].price <= stations[k].price
      <4>1. CASE j \in 1..at
        BY <2>8, <2>17, <3>1, <4>1 DEF NothingCheaper
      <4>2. CASE j = i
        <5>1. u \in (full + 1)..filled
          BY <2>4, <2>17, <4>2
        <5> QED BY <2>18, <3>1, <4>2, <5>1
      <4> QED BY <2>5, <4>1, <4>2
    <3> QED BY <1>1, <2>1, <3>1 DEF NothingCheaper, Covers
  <2>12. NothingBeyond'
    <3>1. filled <= distance \/ filled = start
      <4>1. full <= distance \/ full = start
        BY <2>8 DEF NothingBeyond
      <4> HIDE DEF full, filled
      <4> QED BY <2>3, <2>6, <4>1
    <3>2. Filled(at)' = filled
      BY <2>20
    <3> QED BY <1>1, <3>1, <3>2 DEF NothingBeyond
  <2>19. filled < here + Capacity /\ filled < distance =>
            \E k \in (i + 1)..Len(stations) :
               stations[k].at <= filled /\ stations[k].price <= stations[i].price
    <3> SUFFICES ASSUME filled < here + Capacity, filled < distance
                 PROVE  \E k \in (i + 1)..Len(stations) :
                           stations[k].at <= filled /\ stations[k].price <= stations[i].price
      OBVIOUS
    <3>1. goal \notin {distance, here + Capacity}
      <4> HIDE DEF filled, here
      <4> QED BY <2>1, <2>2, <2>3
    <3>2. PICK k \in (i + 1)..Len(stations) :
             goal = stations[k].at /\ stations[k].price <= stations[i].price
      BY <2>6, <3>1
    <3> QED BY <2>3, <3>2
  <2>13. Onward'
    <3>1. ASSUME NEW j \in 1..i, filled < stations[j].at + Capacity, filled < distance
          PROVE  \E k \in (i + 1)..Len(stations) :
                    stations[k].at <= filled /\ stations[k].price <= stations[j].price
      <4>1. CASE j = i
        BY <2>19, <3>1, <4>1
      <4>2. CASE j \in 1..at
        <5> DEFINE there == stations[j].at
        <5>1. there \in Int /\ there <= here /\ stations[j].price \in Nat
          BY <2>2, <2>7, <4>2
        <5>2. full < there + Capacity /\ full < distance /\ filled < here + Capacity
          <6>1. filled < there + Capacity
            BY <3>1
          <6> HIDE DEF full, filled, here, there
          <6> QED BY <2>2, <2>3, <3>1, <5>1, <6>1
        <5>3. PICK l \in (at + 1)..Len(stations) :
                 stations[l].at <= full /\ stations[l].price <= stations[j].price
          BY <2>8, <4>2, <5>2 DEF Onward
        <5>4. l \in 1..Len(stations) /\ (l = i \/ l \in (i + 1)..Len(stations))
          <6> HIDE DEF full
          <6> QED BY <2>2
        <5>5. CASE l = i
          <6>1. PICK k \in (i + 1)..Len(stations) :
                   stations[k].at <= filled /\ stations[k].price <= stations[i].price
            BY <2>19, <3>1, <5>2
          <6>2. /\ stations[k].price \in Nat /\ stations[i].price \in Nat
                /\ stations[i].price <= stations[j].price
            <7>1. k \in 1..Len(stations)
              <8> HIDE DEF filled
              <8> QED BY <2>2
            <7> QED BY <2>2, <2>7, <5>3, <5>5, <7>1
          <6>3. stations[k].price <= stations[j].price
            BY <5>1, <6>1, <6>2
          <6> QED BY <6>1, <6>3
        <5>6. CASE l \in (i + 1)..Len(stations)
          <6>1. stations[l].at \in Int
            BY <2>7, <5>4
          <6>2. stations[l].at <= filled
            <7> HIDE DEF full, filled
            <7> QED BY <2>2, <2>3, <5>3, <6>1
          <6> QED BY <5>3, <5>6, <6>2
        <5> QED BY <5>4, <5>5, <5>6
      <4> QED BY <2>5, <4>1, <4>2
    <3>2. Filled(at)' = filled
      BY <2>20
    <3>3. \A j \in 1..at' :
             Filled(at)' < stations'[j].at + Capacity /\ Filled(at)' < distance' =>
                \E k \in (at' + 1)..Len(stations') :
                   stations'[k].at <= Filled(at)' /\ stations'[k].price <= stations'[j].price
      <4> HIDE DEF filled
      <4>1. \A j \in 1..i : filled < stations[j].at + Capacity /\ filled < distance =>
               \E k \in (i + 1)..Len(stations) :
                  stations[k].at <= filled /\ stations[k].price <= stations[j].price
        BY <3>1
      <4> QED BY <1>1, <2>1, <3>2, <4>1
    <3> QED BY <3>3 DEF Onward
  <2>14. fuel' = Filled(at)' - Place(at)'
    <3>1. Filled(at)' = filled
      BY <2>20
    <3>2. Place(at)' = here
      BY <1>1, <2>1, <2>2 DEF Place
    <3>3. fuel' = filled - here
      <4> HIDE DEF full, here
      <4> QED BY <2>1, <2>2
    <3> HIDE DEF filled, here
    <3> QED BY <3>1, <3>2, <3>3
  <2>15. \A j \in 1..at' : Whole(bought[j])'
    <3>1. \A j \in 1..i : Whole(bought'[j])
      BY <2>1, <2>4, <2>5, <2>8
    <3> QED BY <2>1, <3>1 DEF Whole, Multiple
  <2> QED BY <1>1, <1>2, <1>3, <2>1, <2>10, <2>11, <2>12, <2>13, <2>14, <2>15 DEF ExactInvariant
<1> QED BY <1>4, <1>5

LEMMA ExactAtStart ==
    /\ start \in 0..Capacity /\ at = 0 /\ fuel = start /\ bought = <<>>
    /\ outcome \in {"planning", "idle"}
    => ExactInvariant
<1> SUFFICES ASSUME start \in 0..Capacity, at = 0, fuel = start, bought = <<>>,
                    outcome \in {"planning", "idle"}
             PROVE  ExactInvariant
  OBVIOUS
<1>1. start \in Nat /\ start <= Capacity
  BY TankAssumption
<1>2. Filled(0) = start /\ Place(0) = 0
  BY <1>1, NothingIsBought DEF Filled, Place
<1>3. 1..at = {}
  OBVIOUS
<1>4. fuel = Filled(at) - Place(at)
  BY <1>1, <1>2
<1> QED BY <1>1, <1>2, <1>3, <1>4
        DEF ExactInvariant, LegsAreFuelled, NothingCheaper, NothingBeyond, Onward

LEMMA NextKeepsExact ==
    ASSUME VehicleInvariant, ExactInvariant, [Next]_vars PROVE ExactInvariant'
<1>1. CASE UNCHANGED vars
  BY <1>1, ExactStays DEF vars
<1>2. CASE Validate
  BY <1>2, ExactStays DEF Validate
<1>3. CASE DriveAndBuy
  BY <1>3, DriveKeepsExact
<1>4. CASE Arrive
  BY <1>4, ExactArrives
<1> QED BY <1>1, <1>2, <1>3, <1>4 DEF Next

--------------------------------------------------------------------------------
(* The cheapest plan                                                          *)

LEMMA UnitsAddUp ==
    ASSUME NEW m \in [Nat -> Nat], NEW x \in Nat, NEW y \in Nat, x <= y
    PROVE  /\ SumUpTo(m, x) \in Nat /\ SumUpTo(m, y) \in Nat
           /\ SumUpTo(m, x) <= SumUpTo(m, y)
<1> DEFINE k == y - x
<1>1. k \in Nat /\ x + k = y
  OBVIOUS
<1>2. SumUpTo(m, x) \in Nat /\ SumUpTo(m, y) \in Nat
  BY TotalNatural
<1> HIDE DEF k
<1>3. SumUpTo(m, x + k) >= SumUpTo(m, x) + k * 0
  <2>1. \A u \in 1..(x + k) : m[u] \in Int /\ m[u] >= 0
    BY <1>1
  <2>2. \A u \in (x + 1)..(x + k) : m[u] >= 0
    BY <1>1
  <2> QED BY <1>1, <2>1, <2>2, RunsAddUp
<1> QED BY <1>1, <1>2, <1>3

\* The plan of the loop costs no more than the cheapest units do.
LEMMA GreedyCost ==
    ASSUME VehicleInvariant, ExactInvariant, Exact, at = Len(stations),
           NEW m, UnitPrices(m, stations)
    PROVE  /\ Cost(bought, stations) \in Int
           /\ SumUpTo(m, start) + Cost(bought, stations) <= SumUpTo(m, Filled(at))
<1> DEFINE paid == [j \in DOMAIN stations |-> bought[j] * stations[j].price]
           Bound(n) == /\ SumUpTo(paid, n) \in Int
                       /\ SumUpTo(m, start) + SumUpTo(paid, n) <= SumUpTo(m, Filled(n))
           N == {n \in Nat : n <= at => Bound(n)}
<1>0. /\ \A j \in DOMAIN stations : paid[j] = bought[j] * stations[j].price
      /\ Cost(bought, stations) = SumUpTo(paid, at)
  BY DEF Cost
<1> HIDE DEF paid
<1>1. /\ at \in Nat /\ DOMAIN stations = 1..at /\ start \in Nat /\ m \in [Nat -> Nat]
      /\ \A j \in 1..at : /\ stations[j].price \in Nat /\ stations[j].at \in Int
                          /\ bought[j] \in Nat
  <2>1. m \in [Nat -> Nat]
    BY DEF UnitPrices
  <2>2. at \in Nat /\ DOMAIN stations = 1..at /\ start \in Nat
    BY StationsInOrder
  <2>3. \A j \in 1..at : stations[j].price \in Nat /\ stations[j].at \in Int
    BY <2>2, StationsInOrder
  <2>4. \A j \in 1..at : bought[j] \in Nat
    BY StationsInOrder
  <2> QED BY <2>1, <2>2, <2>3, <2>4
<1>2. /\ \A n \in 0..at : Filled(n) \in Nat
      /\ \A n \in 1..at : Filled(n) = Filled(n - 1) + bought[n]
      /\ Filled(0) = start
  BY FilledTyped
<1>3. \A j \in 1..at : paid[j] \in Int
  <2> SUFFICES ASSUME NEW j \in 1..at PROVE paid[j] \in Int
    OBVIOUS
  <2>1. bought[j] \in Nat /\ stations[j].price \in Nat /\ j \in DOMAIN stations
    BY <1>1
  <2>2. bought[j] * stations[j].price \in Nat
    BY <2>1, Products
  <2> QED BY <1>0, <2>1, <2>2
<1>4. Bound(0)
  <2>1. SumUpTo(paid, 0) = 0 /\ SumUpTo(m, start) \in Nat
    <3>1. SumUpTo(m, start) \in Nat
      BY <1>1, UnitsAddUp, start <= start
    <3> QED BY <3>1, NothingIsBought
  <2> QED BY <1>2, <2>1
<1>5. ASSUME NEW n \in Nat, Bound(n), n + 1 <= at PROVE Bound(n + 1)
  <2> DEFINE i == n + 1
             k == bought[i]
             price == stations[i].price
             x == Filled(n)
  <2>1. /\ i \in 1..at /\ n \in 0..at /\ i - 1 = n /\ i \in DOMAIN stations
        /\ k \in Nat /\ price \in Nat /\ x \in Nat /\ Filled(i) = x + k
        /\ k * price \in Int
    <3>1. i \in 1..at /\ n \in 0..at /\ i - 1 = n
      BY <1>1, <1>5
    <3>2. i \in DOMAIN stations /\ k \in Nat /\ price \in Nat
      BY <1>1, <3>1
    <3>3. x \in Nat /\ Filled(i) = x + k
      BY <1>2, <3>1
    <3>4. k * price \in Nat
      BY <3>2, Products
    <3> HIDE DEF i, k, price, x
    <3> QED BY <3>1, <3>2, <3>3, <3>4
  <2>2. SumUpTo(paid, i) = SumUpTo(paid, n) + k * price
    <3>1. \A j \in 1..(n + 1) : paid[j] \in Int
      BY <1>1, <1>3, <1>5
    <3>2. SumUpTo(paid, n + 1) = SumUpTo(paid, n) + paid[n + 1]
      BY <3>1, PurchasesAddUp
    <3> QED BY <1>0, <2>1, <3>2
  <2>3. \A u \in (x + 1)..(x + k) : m[u] >= price
    <3> SUFFICES ASSUME NEW u \in (x + 1)..(x + k) PROVE m[u] >= price
      OBVIOUS
    <3>1. u \in Nat /\ x < u /\ u <= x + k
      <4> HIDE DEF x, k
      <4> QED BY <2>1
    <3>2. Covers(stations, i, u)
      <4>1. stations[i].at <= x /\ x + k <= stations[i].at + Capacity
        BY <2>1 DEF ExactInvariant, LegsAreFuelled
      <4>2. stations[i].at \in Int /\ Capacity \in Nat
        BY <1>1, <2>1, TankAssumption
      <4> HIDE DEF x, k
      <4> QED BY <2>1, <3>1, <4>1, <4>2 DEF Covers
    <3>3. PICK j \in DOMAIN stations : Covers(stations, j, u) /\ m[u] = stations[j].price
      BY <2>1, <3>1, <3>2 DEF UnitPrices
    <3>4. price <= stations[j].price
      BY <2>1, <3>3 DEF ExactInvariant, NothingCheaper
    <3> QED BY <1>1, <2>1, <3>3, <3>4
  <2>4. SumUpTo(m, x + k) >= SumUpTo(m, x) + k * price
    <3>1. \A u \in 1..(x + k) : m[u] \in Int
      BY <1>1, <2>1
    <3> HIDE DEF x, k, price
    <3>2. x \in Nat /\ k \in Nat /\ price \in Int
      BY <2>1
    <3> QED BY <2>3, <3>1, <3>2, RunsAddUp
  <2> DEFINE a == SumUpTo(m, start)
             b == SumUpTo(m, x)
             c == SumUpTo(m, x + k)
             before == SumUpTo(paid, n)
             more == k * price
  <2>5. a \in Int /\ b \in Int /\ c \in Int
    <3>1. start \in Nat /\ x \in Nat /\ x + k \in Nat
      <4>1. start \in Nat /\ x \in Nat /\ k \in Nat
        BY <1>1, <2>1
      <4> HIDE DEF x, k
      <4> QED BY <4>1
    <3>2. ASSUME NEW z \in Nat PROVE SumUpTo(m, z) \in Int
      <4>1. \A j \in 1..z : m[j] \in Int
        BY <1>1
      <4> QED BY <4>1, TotalTyped
    <3> HIDE DEF x, k
    <3> QED BY <3>1, <3>2 DEF a, b, c
  <2>6. before \in Int /\ a + before <= b /\ c >= b + more /\ more \in Int
    BY <1>5, <2>1, <2>4
  <2>7. SumUpTo(paid, i) = before + more /\ SumUpTo(m, Filled(i)) = c
    BY <2>1, <2>2
  <2> HIDE DEF a, b, c, before, more, i
  <2>8. before + more \in Int /\ a + (before + more) <= c
    BY <2>5, <2>6
  <2> QED BY <2>7, <2>8 DEF a, i
<1>6. Nat \subseteq N
  <2> HIDE DEF Bound
  <2>1. 0 \in N
    BY <1>4
  <2>2. ASSUME NEW n \in Nat, n \in N PROVE n + 1 \in N
    <3>1. n + 1 <= at => n <= at
      BY <1>1
    <3>2. n + 1 <= at => Bound(n + 1)
      BY <1>5, <2>2, <3>1
    <3> QED BY <3>2
  <2> HIDE DEF N
  <2> QED BY <2>1, <2>2, AllNumbers
<1>7. Bound(at)
  <2> HIDE DEF Bound
  <2> QED BY <1>1, <1>6
<1> QED BY <1>0, <1>7

LEMMA UnitPricesBound ==
    ASSUME NEW m, NEW s, UnitPrices(m, s) PROVE NoDearer(m, s)
BY DEF UnitPrices, NoDearer

\* No plan costs less, on any stops that sell no unit for less.
LEMMA GreedyIsCheapest ==
    ASSUME VehicleInvariant, ExactInvariant, Exact, outcome = "planned",
           NEW m, UnitPrices(m, stations), NEW s \in Seq(Candidate), NoDearer(m, s),
           NEW plan \in Plans(s, start, distance)
    PROVE  Cost(bought, stations) <= Cost(plan, s)
<1> DEFINE sold == SumUpTo(plan, Len(s))
           a == SumUpTo(m, start)
           full == Filled(at)
           cost == Cost(bought, stations)
           theirs == Cost(plan, s)
<1>1. /\ start \in Nat /\ distance \in Nat /\ at \in Nat /\ at = Len(stations)
      /\ m \in [Nat -> Nat]
  BY StationsInOrder DEF ExactInvariant, UnitPrices
<1>2. plan \in [DOMAIN s -> Nat] /\ Feasible(plan, s, start, distance)
  BY PlanTyped
<1>3. sold \in Nat /\ theirs \in Int /\ SumUpTo(m, start + sold) <= a + theirs
  BY <1>1, <1>2, LowerBound
<1>4. start + sold >= distance
  BY <1>2 DEF Feasible
<1>5. cost \in Int /\ a + cost <= SumUpTo(m, full)
  BY <1>1, GreedyCost
<1>6. full \in Nat /\ (full <= distance \/ full = start)
  <2>1. at \in 0..at
    BY <1>1
  <2> QED BY <2>1, FilledTyped DEF ExactInvariant, NothingBeyond
<1> DEFINE b == SumUpTo(m, full)
           c == SumUpTo(m, start + sold)
<1>7. full <= start + sold /\ start + sold \in Nat
  <2> HIDE DEF full, sold
  <2> QED BY <1>1, <1>3, <1>4, <1>6
<1>8. a \in Int /\ b \in Int /\ c \in Int /\ b <= c
  <2>1. start <= start + sold
    <3> HIDE DEF sold
    <3> QED BY <1>1, <1>3
  <2>2. a \in Nat
    BY <1>1, <1>7, <2>1, UnitsAddUp
  <2>3. b \in Nat /\ c \in Nat /\ b <= c
    BY <1>1, <1>6, <1>7, UnitsAddUp
  <2> QED BY <2>2, <2>3
<1> HIDE DEF a, b, c, cost, theirs
<1>9. cost <= theirs
  <2>1. a + cost <= b /\ c <= a + theirs
    BY <1>3, <1>5 DEF b, c
  <2> QED BY <1>3, <1>5, <1>8, <2>1
<1> QED BY <1>9 DEF cost, theirs

\* A route each unit of which some station covers is not turned down.
LEMMA CoveredIfSold ==
    ASSUME VehicleInvariant, start <= Capacity,
           \A u \in (start + 1)..distance : \E j \in DOMAIN stations : Covers(stations, j, u)
    PROVE  Covered
<1> SUFFICES ASSUME ~(distance <= start)
             PROVE  /\ stations # <<>>
                    /\ stations[1].at <= start + Near
                    /\ \A i \in DOMAIN stations :
                          (IF i = Len(stations) THEN distance ELSE stations[i + 1].at)
                             - stations[i].at <= Capacity + Near
  BY DEF Covered
<1> DEFINE n == Len(stations)
<1>1. /\ n \in Nat /\ DOMAIN stations = 1..n /\ distance \in Nat /\ start \in Nat /\ Capacity \in Nat
      /\ Near \in Nat \ {0}
      /\ \A i \in 1..n : stations[i].at \in Int /\ 0 < stations[i].at /\ stations[i].at < distance
      /\ \A i, j \in 1..n : i <= j => stations[i].at <= stations[j].at
  BY StationsInOrder, TankAssumption
<1>2. \A u \in Int : start < u /\ u <= distance =>
         \E j \in 1..n : stations[j].at < u /\ u <= stations[j].at + Capacity
  <2> SUFFICES ASSUME NEW u \in Int, start < u, u <= distance
               PROVE  \E j \in 1..n : stations[j].at < u /\ u <= stations[j].at + Capacity
    OBVIOUS
  <2>1. u \in (start + 1)..distance
    BY <1>1
  <2> QED BY <1>1, <2>1 DEF Covers
<1> HIDE DEF n
<1>3. PICK j \in 1..n : stations[j].at < start + 1
  BY <1>1, <1>2, start + 1 \in Int, start < start + 1, start + 1 <= distance
<1>4. 1 \in 1..n /\ n # 0
  BY <1>1
<1>5. stations # <<>>
  BY <1>1, <1>4 DEF n
<1>6. stations[1].at <= start + Near
  <2>1. 1 <= j /\ stations[1].at <= stations[j].at /\ stations[1].at \in Int /\ stations[j].at \in Int
    BY <1>1, <1>4
  <2> QED BY <1>1, <1>3, <2>1
<1>7. ASSUME NEW i \in 1..n
      PROVE  (IF i = n THEN distance ELSE stations[i + 1].at) - stations[i].at <= Capacity + Near
  <2> DEFINE next == IF i = n THEN distance ELSE stations[i + 1].at
             here == stations[i].at
             u == here + Capacity + 1
  <2>1. next \in Int /\ next <= distance /\ here \in Int /\ 0 < here
    <3>1. i # n => i + 1 \in 1..n
      BY <1>1
    <3> QED BY <1>1, <3>1
  <2>2. ASSUME NEW k \in 1..n PROVE ~(stations[k].at < u /\ u <= stations[k].at + Capacity /\ u <= next)
    <3>1. stations[k].at \in Int /\ k \in Int /\ i \in Int
      BY <1>1
    <3>2. CASE k <= i
      <4>1. stations[k].at <= here
        BY <1>1, <3>2
      <4> HIDE DEF here, next
      <4> QED BY <1>1, <2>1, <3>1, <4>1
    <3>3. CASE ~(k <= i)
      <4>1. i # n /\ i + 1 \in 1..n /\ i + 1 <= k
        BY <1>1, <3>1, <3>3
      <4>2. next <= stations[k].at
        BY <1>1, <4>1
      <4> HIDE DEF here, next
      <4> QED BY <1>1, <2>1, <3>1, <4>2
    <3> QED BY <3>2, <3>3
  <2> SUFFICES ASSUME next - here > Capacity + Near PROVE FALSE
    <3> HIDE DEF next, here
    <3> QED BY <1>1, <2>1 DEF next, here
  <2>3. u \in Int /\ start < u /\ u <= next /\ u <= distance
    <3> HIDE DEF next, here
    <3> QED BY <1>1, <2>1
  <2> HIDE DEF u, next
  <2> QED BY <1>2, <2>2, <2>3
<1> QED BY <1>1, <1>5, <1>6, <1>7 DEF n

LEMMA PlansAreCheapest ==
    ASSUME VehicleInvariant, ExactInvariant PROVE PlanIsCheapest
<1> SUFFICES ASSUME outcome = "planned", Exact, NEW plan \in Plans(stations, start, distance)
             PROVE  Cost(bought, stations) <= Cost(plan, stations)
  BY DEF PlanIsCheapest
<1>1. stations \in Seq(Candidate)
  BY StationsInOrder
<1>2. PICK m : UnitPrices(m, stations)
  BY <1>1, UnitPricesExist
<1> QED BY <1>1, <1>2, UnitPricesBound, GreedyIsCheapest

LEMMA RefusedIsImpossible ==
    ASSUME VehicleInvariant, ExactInvariant PROVE RefusedOnlyIfImpossible
<1> SUFFICES ASSUME outcome = "refused", NEW plan \in Plans(stations, start, distance)
             PROVE  FALSE
  BY DEF RefusedOnlyIfImpossible, ExactInvariant
<1>1. stations \in Seq(Candidate) /\ start \in Nat /\ distance \in Nat
  BY StationsInOrder
<1>2. plan \in [DOMAIN stations -> Nat] /\ Feasible(plan, stations, start, distance)
  BY PlanTyped
<1>3. \A u \in (start + 1)..distance : \E j \in DOMAIN stations : Covers(stations, j, u)
  BY <1>1, <1>2, PlansCover
<1>4. start <= Capacity
  BY DEF ExactInvariant
<1>5. Covered
  BY <1>3, <1>4, CoveredIfSold
<1> QED BY <1>5 DEF ExactInvariant

LEMMA OptimizerIsExact == Spec => [](VehicleInvariant /\ ExactInvariant)
<1>1. Init => VehicleInvariant /\ ExactInvariant
  <2> SUFFICES ASSUME Init PROVE VehicleInvariant /\ ExactInvariant
    OBVIOUS
  <2>1. start \in 0..Capacity /\ at = 0 /\ fuel = start /\ bought = <<>> /\ outcome = "planning"
    BY VehicleAssumption DEF Init
  <2> QED BY <2>1, VehicleAtStart, ExactAtStart
<1>2. (VehicleInvariant /\ ExactInvariant) /\ [Next]_vars => (VehicleInvariant /\ ExactInvariant)'
  BY NextKeepsVehicle, NextKeepsExact
<1> QED BY <1>1, <1>2, PTL DEF Spec

\* Where nothing is rounded, no other way of driving a route costs less than the
\* plan the loop makes (optimize_fuel_purchases).
THEOREM PlansCostLeast == Spec => []PlanIsCheapest
<1>1. VehicleInvariant /\ ExactInvariant => PlanIsCheapest
  BY PlansAreCheapest
<1> QED BY <1>1, OptimizerIsExact, PTL

\* A route is refused, or where nothing is rounded not driven to its end, only if
\* there is no way of driving it (_validate_route_coverage).
THEOREM OnlyTheImpossibleIsRefused == Spec => []RefusedOnlyIfImpossible
<1>1. VehicleInvariant /\ ExactInvariant => RefusedOnlyIfImpossible
  BY RefusedIsImpossible
<1> QED BY <1>1, OptimizerIsExact, PTL

--------------------------------------------------------------------------------
(* Merging, where nothing is rounded                                          *)

\* c counts the stations kept of the first n stops: each stop is kept, or is at
\* the place of the last one kept, which is no dearer.
Counts(c, n, s, kept) ==
    /\ c[n] \in 0..Len(kept)
    /\ IF c[n] = c[n - 1] THEN /\ c[n] \in DOMAIN kept
                               /\ kept[c[n]].at = s[n].at /\ kept[c[n]].price <= s[n].price
       ELSE c[n] = c[n - 1] + 1 /\ kept[c[n]] = s[n]

IsMerging(c, s, kept) ==
    /\ c[0] = 0 /\ c[Len(s)] = Len(kept)
    /\ \A n \in DOMAIN s : Counts(c, n, s, kept)

LEMMA KeepApart ==
    ASSUME NEW kept \in Seq(Candidate), NEW c \in Candidate, Near \in Nat \ {0},
           \A i \in DOMAIN kept :
              Before(kept[i], c) /\ (kept[i].at = c.at \/ c.at - kept[i].at >= Near)
    PROVE  \/ Keep(kept, c) = Append(kept, c)
           \/ /\ Keep(kept, c) = kept /\ Len(kept) \in DOMAIN kept
              /\ kept[Len(kept)].at = c.at /\ kept[Len(kept)].price <= c.price
<1> DEFINE n == Len(kept)
           last == kept[n]
<1>1. c.at \in Int /\ c.price \in Nat /\ c.off \in Int /\ c.id \in Int
  BY DEF Candidate
<1>2. CASE kept = <<>>
  BY <1>2 DEF Keep
<1>3. CASE kept # <<>>
  <2>1. n \in DOMAIN kept /\ last \in Candidate /\ Last(kept) = last
    BY <1>3 DEF Last
  <2>2. last.at \in Int /\ last.price \in Nat /\ last.off \in Int /\ last.id \in Int
    BY <2>1 DEF Candidate
  <2>3. Before(last, c) /\ (last.at = c.at \/ c.at - last.at >= Near)
    BY <2>1
  <2> HIDE DEF last
  <2>4. CASE c.at - last.at < Near
    <3>1. last.at = c.at
      BY <1>1, <2>2, <2>3, <2>4
    <3>2. last.price <= c.price /\ ~Better(c, last)
      BY <1>1, <2>2, <2>3, <3>1 DEF Before, Better
    <3>3. Keep(kept, c) = kept
      BY <1>3, <2>1, <2>4, <3>2 DEF Keep
    <3> QED BY <2>1, <3>1, <3>2, <3>3 DEF last
  <2>5. CASE ~(c.at - last.at < Near)
    BY <2>1, <2>5 DEF Keep
  <2> QED BY <2>4, <2>5
<1> QED BY <1>2, <1>3

\* What is kept is kept for good, so every stop can be followed to the station
\* it was merged into.
LEMMA MergingExists ==
    ASSUME NEW s \in Seq(Candidate), InTurn(s), FarApart(s)
    PROVE  /\ \E c : IsMerging(c, s, Merged(s))
           /\ Merged(s) \in Seq(Candidate)
           /\ \A i \in DOMAIN Merged(s) : \E j \in DOMAIN s : Merged(s)[i] = s[j]
<1>1. PICK g : KeptInTurn(g, s)
  BY KeptOneByOne
<1>2. Len(s) \in Nat /\ DOMAIN s = 1..Len(s) /\ Near \in Nat \ {0}
  BY TankAssumption
<1> DEFINE Good(n) == /\ g[n] \in Seq(Candidate)
                      /\ \A i \in DOMAIN g[n] : \E j \in 1..n : g[n][i] = s[j]
           Grows(n) == \/ g[n + 1] = Append(g[n], s[n + 1])
                       \/ /\ g[n + 1] = g[n] /\ Len(g[n]) \in DOMAIN g[n]
                          /\ g[n][Len(g[n])].at = s[n + 1].at
                          /\ g[n][Len(g[n])].price <= s[n + 1].price
           Begins(k, n) == /\ Len(g[k]) \in 0..Len(g[n])
                           /\ \A i \in 1..Len(g[k]) : g[n][i] = g[k][i]
           Lasting(n) == \A k \in 0..n : Begins(k, n)
           N == {n \in Nat : n <= Len(s) => Good(n) /\ Lasting(n)}
<1>3. Good(0) /\ Lasting(0)
  <2>1. g[0] = <<>> /\ <<>> \in Seq(Candidate) /\ DOMAIN <<>> = {} /\ Len(<<>>) = 0
    BY <1>1 DEF KeptInTurn
  <2>2. \A k \in 0..0 : k = 0
    OBVIOUS
  <2> QED BY <2>1, <2>2
<1>4. ASSUME NEW n \in Nat, n + 1 <= Len(s), Good(n) PROVE Grows(n) /\ Good(n + 1)
  <2> DEFINE kept == g[n]
             x == s[n + 1]
  <2>1. kept \in Seq(Candidate) /\ x \in Candidate /\ g[n + 1] = Keep(kept, x)
        /\ n + 1 \in DOMAIN s
    BY <1>1, <1>2, <1>4 DEF KeptInTurn
  <2>2. \A i \in DOMAIN kept : Before(kept[i], x) /\ (kept[i].at = x.at \/ x.at - kept[i].at >= Near)
    <3> SUFFICES ASSUME NEW i \in DOMAIN kept
                 PROVE  Before(kept[i], x) /\ (kept[i].at = x.at \/ x.at - kept[i].at >= Near)
      OBVIOUS
    <3>1. PICK j \in 1..n : kept[i] = s[j]
      BY <1>4
    <3>2. j \in DOMAIN s /\ j < n + 1
      BY <1>2, <1>4
    <3> QED BY <2>1, <3>1, <3>2 DEF InTurn, FarApart
  <2> HIDE DEF kept, x
  <2>3. \/ Keep(kept, x) = Append(kept, x)
        \/ /\ Keep(kept, x) = kept /\ Len(kept) \in DOMAIN kept
           /\ kept[Len(kept)].at = x.at /\ kept[Len(kept)].price <= x.price
    BY <1>2, <2>1, <2>2, KeepApart
  <2>4. Grows(n)
    BY <2>1, <2>3 DEF kept, x
  <2>5. \A i \in DOMAIN kept : \E j \in 1..(n + 1) : kept[i] = s[j]
    <3>1. 1..n \subseteq 1..(n + 1)
      OBVIOUS
    <3> QED BY <1>4, <3>1 DEF kept
  <2>6. CASE Keep(kept, x) = Append(kept, x)
    <3>1. /\ Append(kept, x) \in Seq(Candidate) /\ DOMAIN Append(kept, x) = 1..(Len(kept) + 1)
          /\ DOMAIN kept = 1..Len(kept) /\ Len(kept) \in Nat
          /\ Append(kept, x)[Len(kept) + 1] = x
          /\ \A i \in DOMAIN kept : Append(kept, x)[i] = kept[i]
      BY <2>1
    <3>2. n + 1 \in 1..(n + 1) /\ x = s[n + 1]
      BY DEF x
    <3>3. \A i \in 1..(Len(kept) + 1) : i \in 1..Len(kept) \/ i = Len(kept) + 1
      BY <3>1
    <3>4. \A i \in DOMAIN Append(kept, x) : \E j \in 1..(n + 1) : Append(kept, x)[i] = s[j]
      BY <2>5, <3>1, <3>2, <3>3
    <3> DEFINE next == Append(kept, x)
    <3>5. g[n + 1] = next
      BY <2>1, <2>6
    <3>6. next \in Seq(Candidate) /\ \A i \in DOMAIN next : \E j \in 1..(n + 1) : next[i] = s[j]
      BY <3>1, <3>4
    <3> HIDE DEF next, Grows
    <3> QED BY <2>4, <3>5, <3>6
  <2>7. CASE Keep(kept, x) = kept
    BY <2>1, <2>4, <2>5, <2>7
  <2> QED BY <2>3, <2>6, <2>7
<1>5. ASSUME NEW n \in Nat, n + 1 <= Len(s), Good(n), Lasting(n) PROVE Lasting(n + 1)
  <2>1. Grows(n) /\ g[n] \in Seq(Candidate) /\ g[n + 1] \in Seq(Candidate)
    BY <1>4, <1>5
  <2>2. Begins(n, n + 1)
    BY <2>1
  <2>3. ASSUME NEW k \in 0..n PROVE Begins(k, n + 1)
    <3>1. Begins(k, n)
      BY <1>5
    <3> DEFINE a == Len(g[k])
               b == Len(g[n])
               d == Len(g[n + 1])
    <3>2. a \in 0..b /\ b \in 0..d /\ d \in Nat
      BY <2>1, <2>2, <3>1
    <3> HIDE DEF a, b, d
    <3>3. a \in 0..d /\ 1..a \subseteq 1..b
      BY <3>2
    <3>4. \A i \in 1..a : g[n + 1][i] = g[k][i]
      BY <2>2, <3>1, <3>3 DEF a, b
    <3> QED BY <3>3, <3>4 DEF a, d
  <2>4. Begins(n + 1, n + 1)
    BY <2>1
  <2>5. \A k \in 0..(n + 1) : k \in 0..n \/ k = n + 1
    OBVIOUS
  <2> HIDE DEF Begins
  <2> QED BY <2>3, <2>4, <2>5
<1>6. Nat \subseteq N
  <2> HIDE DEF Good, Grows, Lasting
  <2>1. 0 \in N
    BY <1>3
  <2>2. ASSUME NEW n \in Nat, n \in N PROVE n + 1 \in N
    <3>1. n + 1 <= Len(s) => n <= Len(s)
      BY <1>2
    <3>2. n + 1 <= Len(s) => Good(n + 1) /\ Lasting(n + 1)
      BY <1>4, <1>5, <2>2, <3>1
    <3> QED BY <3>2
  <2> HIDE DEF N
  <2> QED BY <2>1, <2>2, AllNumbers
<1>7. \A n \in 0..Len(s) : Good(n) /\ Lasting(n)
  <2> HIDE DEF Good, Lasting
  <2> QED BY <1>2, <1>6
<1>8. ASSUME NEW n \in DOMAIN s
      PROVE  n - 1 \in Nat /\ n - 1 \in 0..Len(s) /\ n \in 0..Len(s) /\ (n - 1) + 1 = n /\ n <= Len(s)
  BY <1>2
<1> DEFINE c == [n \in 0..Len(s) |-> Len(g[n])]
           t == Merged(s)
<1>9. \A n \in 0..Len(s) : c[n] = Len(g[n])
  OBVIOUS
<1> HIDE DEF c
<1>10. t = g[Len(s)] /\ Good(Len(s)) /\ c[Len(s)] = Len(t) /\ c[0] = 0 /\ Lasting(Len(s))
  <2>1. Len(s) \in 0..Len(s) /\ 0 \in 0..Len(s)
    BY <1>2
  <2>2. t = g[Len(s)] /\ g[0] = <<>>
    BY <1>1 DEF KeptInTurn
  <2>3. Good(Len(s)) /\ Lasting(Len(s))
    <3> HIDE DEF Good, Lasting
    <3> QED BY <1>7, <2>1
  <2> HIDE DEF Good, Lasting, t
  <2> QED BY <1>9, <2>1, <2>2, <2>3
<1>11. t \in Seq(Candidate) /\ DOMAIN t = 1..Len(t) /\ Len(t) \in Nat
  BY <1>10
<1>12. \A i \in DOMAIN t : \E j \in DOMAIN s : t[i] = s[j]
  BY <1>2, <1>10
<1>13. ASSUME NEW n \in DOMAIN s PROVE Counts(c, n, s, t)
  <2> DEFINE m == n - 1
             new == g[n]
             old == g[m]
  <2>1. m \in Nat /\ m \in 0..Len(s) /\ m + 1 = n /\ n \in 0..Len(s) /\ n <= Len(s) /\ m + 1 <= Len(s)
    BY <1>8
  <2>2. Good(m) /\ Good(n)
    <3> HIDE DEF Good, Lasting, m
    <3> QED BY <1>7, <2>1
  <2>3. Grows(m)
    <3> HIDE DEF Good, Grows, m
    <3> QED BY <1>4, <2>1, <2>2
  <2>4. old \in Seq(Candidate) /\ new \in Seq(Candidate)
    BY <2>2
  <2>5. \/ new = Append(old, s[n])
        \/ /\ new = old /\ Len(old) \in DOMAIN old
           /\ old[Len(old)].at = s[n].at /\ old[Len(old)].price <= s[n].price
    <3> HIDE DEF m
    <3> QED BY <2>1, <2>3
  <2>6. c[n] = Len(new) /\ c[n - 1] = Len(old)
    BY <1>9, <2>1
  <2>7. Len(new) \in 0..Len(t) /\ \A i \in 1..Len(new) : t[i] = new[i]
    <3> HIDE DEF Good, m
    <3> QED BY <1>10, <2>1
  <2> HIDE DEF m, new, old, t
  <2>8. CASE new = Append(old, s[n])
    <3>1. Len(new) = Len(old) + 1 /\ new[Len(new)] = s[n] /\ Len(old) \in Nat /\ Len(new) \in 1..Len(new)
      BY <2>4, <2>8
    <3>2. Len(old) + 1 # Len(old)
      BY <3>1
    <3> QED BY <2>6, <2>7, <3>1, <3>2 DEF Counts
  <2>9. CASE new # Append(old, s[n])
    <3>1. Len(new) \in 1..Len(new) /\ Len(new) \in 1..Len(t)
      BY <2>4, <2>5, <2>7, <2>9, <1>11
    <3> QED BY <1>11, <2>5, <2>6, <2>7, <2>9, <3>1 DEF Counts
  <2> QED BY <2>8, <2>9
<1>14. IsMerging(c, s, t)
  BY <1>10, <1>13 DEF IsMerging
<1> QED BY <1>11, <1>12, <1>14

\* What is bought at the stations, at the first stop of those merged into each.
Spread(b, c, s) == [n \in DOMAIN s |-> IF c[n] # c[n - 1] THEN b[c[n]] ELSE 0]

LEMMA MergingFollows ==
    ASSUME NEW s \in Seq(Candidate), NEW kept \in Seq(Candidate), NEW c, IsMerging(c, s, kept),
           NEW n \in DOMAIN s
    PROVE  /\ c[n] \in DOMAIN kept /\ c[n] \in Nat
           /\ kept[c[n]].at = s[n].at /\ kept[c[n]].price <= s[n].price
           /\ c[n] # c[n - 1] => c[n] = c[n - 1] + 1 /\ kept[c[n]] = s[n]
<1>1. Counts(c, n, s, kept)
  BY DEF IsMerging
<1>2. DOMAIN kept = 1..Len(kept) /\ Len(kept) \in Nat /\ s[n].price \in Nat
  BY CandidateFields
<1>3. n - 1 = 0 \/ n - 1 \in DOMAIN s
  OBVIOUS
<1>4. c[n - 1] \in Nat
  <2>1. CASE n - 1 = 0
    BY <2>1 DEF IsMerging
  <2>2. CASE n - 1 \in DOMAIN s
    <3>1. Counts(c, n - 1, s, kept)
      BY <2>2 DEF IsMerging
    <3> QED BY <3>1 DEF Counts
  <2> QED BY <1>3, <2>1, <2>2
<1>5. CASE c[n] = c[n - 1]
  BY <1>1, <1>2, <1>5 DEF Counts
<1>6. CASE c[n] # c[n - 1]
  <2>1. c[n] \in 0..Len(kept) /\ c[n] = c[n - 1] + 1 /\ kept[c[n]] = s[n]
    BY <1>1, <1>6 DEF Counts
  <2>2. c[n] \in 1..Len(kept)
    BY <1>2, <1>4, <2>1
  <2> QED BY <1>2, <2>1, <2>2
<1> QED BY <1>5, <1>6

LEMMA SpreadAddsUp ==
    ASSUME NEW s \in Seq(Candidate), NEW kept \in Seq(Candidate), NEW c, IsMerging(c, s, kept),
           NEW b, \A k \in DOMAIN kept : b[k] \in Int
    PROVE  \A n \in 0..Len(s) : SumUpTo(Spread(b, c, s), n) = SumUpTo(b, c[n])
<1> DEFINE f == Spread(b, c, s)
           N == {n \in Nat : n <= Len(s) => SumUpTo(f, n) = SumUpTo(b, c[n])}
<1>1. Len(s) \in Nat /\ DOMAIN s = 1..Len(s) /\ DOMAIN kept = 1..Len(kept) /\ Len(kept) \in Nat
  OBVIOUS
<1>2. \A n \in DOMAIN s : f[n] = IF c[n] # c[n - 1] THEN b[c[n]] ELSE 0
  BY DEF Spread
<1> HIDE DEF f
<1>3. \A n \in 1..Len(s) : f[n] \in Int
  <2> SUFFICES ASSUME NEW n \in 1..Len(s) PROVE f[n] \in Int
    OBVIOUS
  <2>1. c[n] \in DOMAIN kept
    BY <1>1, MergingFollows
  <2> QED BY <1>1, <1>2, <2>1
<1>4. 0 \in N
  BY NothingIsBought DEF IsMerging
<1>5. ASSUME NEW n \in Nat, n \in N PROVE n + 1 \in N
  <2> SUFFICES ASSUME n + 1 <= Len(s) PROVE SumUpTo(f, n + 1) = SumUpTo(b, c[n + 1])
    OBVIOUS
  <2> DEFINE m == n + 1
  <2>1. m \in 1..Len(s) /\ m - 1 = n /\ \A j \in 1..m : f[j] \in Int
    <3>1. \A j \in 1..m : j \in 1..Len(s)
      BY <1>1
    <3> QED BY <1>1, <1>3, <3>1
  <2>2. SumUpTo(f, n) = SumUpTo(b, c[n])
    BY <1>1, <1>5
  <2>3. SumUpTo(f, m) = SumUpTo(f, n) + f[m] /\ SumUpTo(f, n) \in Int
    BY <2>1, PurchasesAddUp
  <2> HIDE DEF m
  <2>4. /\ c[m] \in DOMAIN kept
        /\ c[m] # c[n] => c[m] = c[n] + 1
    <3>1. m \in DOMAIN s
      BY <1>1, <2>1
    <3>2. c[m] \in DOMAIN kept /\ (c[m] # c[m - 1] => c[m] = c[m - 1] + 1)
      BY <3>1, MergingFollows
    <3> QED BY <2>1, <3>2
  <2>5. f[m] = IF c[m] # c[n] THEN b[c[m]] ELSE 0
    BY <1>1, <1>2, <2>1
  <2>6. c[m] = c[n] => SumUpTo(f, m) = SumUpTo(b, c[m])
    BY <2>2, <2>3, <2>5
  <2>7. ASSUME c[m] # c[n] PROVE SumUpTo(f, m) = SumUpTo(b, c[m])
    <3> DEFINE l == c[n]
    <3>1. c[m] = l + 1 /\ l + 1 \in DOMAIN kept
      BY <2>4, <2>7
    <3>2. l \in Nat
      <4>1. CASE n = 0
        BY <4>1 DEF IsMerging
      <4>2. CASE n # 0
        <5>1. n \in DOMAIN s
          BY <1>1, <2>1, <4>2
        <5> QED BY <5>1, MergingFollows
      <4> QED BY <4>1, <4>2
    <3> HIDE DEF l
    <3>3. \A j \in 1..(l + 1) : b[j] \in Int
      <4>1. \A j \in 1..(l + 1) : j \in DOMAIN kept
        BY <1>1, <3>1, <3>2
      <4> QED BY <4>1
    <3>4. SumUpTo(b, l + 1) = SumUpTo(b, l) + b[l + 1]
      BY <3>2, <3>3, PurchasesAddUp
    <3> QED BY <2>2, <2>3, <2>5, <2>7, <3>1, <3>4 DEF l
  <2> QED BY <2>6, <2>7 DEF m
<1>6. Nat \subseteq N
  <2> HIDE DEF N
  <2> QED BY <1>4, <1>5, AllNumbers
<1> QED BY <1>1, <1>6 DEF f

\* How many of the first n purchases are not empty, as a sum.
Ones(f) == [i \in DOMAIN f |-> IF f[i] > 0 THEN 1 ELSE 0]

LEMMA OnesAreCounted ==
    ASSUME NEW n \in Nat, NEW f, DOMAIN f = 1..n
    PROVE  Cardinality({i \in DOMAIN f : f[i] > 0}) = SumUpTo(Ones(f), n)
<1> DEFINE h == Ones(f)
           full(k) == {i \in 1..k : f[i] > 0}
           N == {k \in Nat : k <= n => IsFiniteSet(full(k)) /\ Cardinality(full(k)) = SumUpTo(h, k)}
<1>1. \A i \in 1..n : h[i] = IF f[i] > 0 THEN 1 ELSE 0
  BY DEF Ones
<1> HIDE DEF h
<1>2. 0 \in N
  <2>1. full(0) = {}
    OBVIOUS
  <2> QED BY <2>1, FS_EmptySet, NothingIsBought
<1>3. ASSUME NEW k \in Nat, k \in N PROVE k + 1 \in N
  <2> SUFFICES ASSUME k + 1 <= n
               PROVE  IsFiniteSet(full(k + 1)) /\ Cardinality(full(k + 1)) = SumUpTo(h, k + 1)
    OBVIOUS
  <2> DEFINE S == full(k)
             T == full(k + 1)
  <2>1. k + 1 \in 1..n /\ \A j \in 1..(k + 1) : h[j] \in Int
    <3>1. \A j \in 1..(k + 1) : j \in 1..n
      OBVIOUS
    <3> QED BY <1>1, <3>1
  <2>2. SumUpTo(h, k + 1) = SumUpTo(h, k) + h[k + 1] /\ SumUpTo(h, k) \in Int
    BY <2>1, PurchasesAddUp
  <2>3. IsFiniteSet(S) /\ Cardinality(S) = SumUpTo(h, k)
    BY <1>3
  <2>4. k + 1 \notin S /\ T = IF f[k + 1] > 0 THEN S \cup {k + 1} ELSE S
    OBVIOUS
  <2> HIDE DEF S, T
  <2>5. IsFiniteSet(S \cup {k + 1}) /\ Cardinality(S \cup {k + 1}) = Cardinality(S) + 1
    BY <2>3, <2>4, FS_AddElement
  <2>6. IsFiniteSet(T) /\ Cardinality(T) = SumUpTo(h, k + 1)
    BY <1>1, <2>1, <2>2, <2>3, <2>4, <2>5
  <2> QED BY <2>6 DEF T
<1>4. Nat \subseteq N
  <2> HIDE DEF N
  <2> QED BY <1>2, <1>3, AllNumbers
<1> QED BY <1>4 DEF h

--------------------------------------------------------------------------------
(* Every station a stop of its own                                            *)

LEMMA WholeVolume ==
    ASSUME NEW x \in Nat, Whole(x), x <= Capacity
    PROVE  x \in {Step * k : k \in 0..(Capacity \div Step)}
<1> DEFINE d == x \div Step
           e == Capacity \div Step
<1>1. Step \in Nat \ {0} /\ Capacity \in Nat
  BY TankAssumption
<1>2. d \in Int /\ e \in Int /\ Step * e <= Capacity /\ Capacity < Step * e + Step
  BY <1>1, Z3
<1>3. Step * d = x
  BY DEF Whole, Multiple
<1> HIDE DEF d, e
<1>4. Step * d = d * Step /\ Step * e + Step = (e + 1) * Step
  BY <1>1, <1>2
<1>5. 0 * Step <= d * Step /\ d * Step < (e + 1) * Step
  BY <1>1, <1>2, <1>3, <1>4
<1>6. 0 <= d /\ d < e + 1
  BY <1>1, <1>2, <1>5, Multiples, 0 \in Int, e + 1 \in Int
<1>7. d \in 0..e
  BY <1>2, <1>6
<1> QED BY <1>3, <1>7 DEF e

LEMMA MergedNoDearer ==
    ASSUME NEW s \in Seq(Candidate), NEW kept \in Seq(Candidate), NEW c, IsMerging(c, s, kept),
           NEW m, UnitPrices(m, kept)
    PROVE  NoDearer(m, s)
<1>1. m \in [Nat -> Nat]
  BY DEF UnitPrices
<1>2. ASSUME NEW i \in DOMAIN s, NEW u \in Nat, Covers(s, i, u) PROVE m[u] <= s[i].price
  <2>1. /\ c[i] \in DOMAIN kept /\ kept[c[i]].at = s[i].at /\ kept[c[i]].price <= s[i].price
    BY MergingFollows
  <2>2. Covers(kept, c[i], u)
    BY <1>2, <2>1 DEF Covers
  <2>3. m[u] <= kept[c[i]].price
    BY <2>1, <2>2 DEF UnitPrices
  <2>4. m[u] \in Nat /\ kept[c[i]].price \in Nat /\ s[i].price \in Nat
    BY <1>1, <2>1, CandidateFields
  <2> QED BY <2>1, <2>3, <2>4
<1> QED BY <1>1, <1>2 DEF NoDearer

LEMMA MergedCovers ==
    ASSUME NEW s \in Seq(Candidate), NEW kept \in Seq(Candidate), NEW c, IsMerging(c, s, kept),
           NEW begin \in Nat, NEW far \in Nat, NEW plan \in Plans(s, begin, far),
           NEW u \in (begin + 1)..far
    PROVE  \E j \in DOMAIN kept : Covers(kept, j, u)
<1>1. plan \in [DOMAIN s -> Nat] /\ Feasible(plan, s, begin, far)
  BY PlanTyped
<1>2. PICK i \in DOMAIN s : Covers(s, i, u)
  BY <1>1, PlansCover
<1>3. c[i] \in DOMAIN kept /\ kept[c[i]].at = s[i].at
  BY MergingFollows
<1> QED BY <1>2, <1>3 DEF Covers

\* The loop's plan is a way of driving with every candidate a stop: it costs as
\* much and stops as often.
LEMMA MergedPlan ==
    ASSUME VehicleInvariant, ExactInvariant, Exact, outcome = "planned",
           NEW s \in Seq(Candidate), NEW c, IsMerging(c, s, stations)
    PROVE  /\ Spread(bought, c, s) \in Plans(s, start, distance)
           /\ Cost(Spread(bought, c, s), s) = Cost(bought, stations)
           /\ Cardinality({i \in DOMAIN Spread(bought, c, s) : Spread(bought, c, s)[i] > 0})
                 = Cardinality(Purchases)
<1> DEFINE q == Spread(bought, c, s)
           n == Len(s)
<1>1. /\ n \in Nat /\ DOMAIN s = 1..n /\ at = Len(stations) /\ at \in Nat
      /\ DOMAIN stations = 1..at /\ DOMAIN bought = 1..at /\ stations \in Seq(Candidate)
      /\ Len(stations) = at /\ c[n] = at /\ c[0] = 0
      /\ start \in Nat /\ distance \in Nat /\ Capacity \in Nat
      /\ \A i \in 1..at : bought[i] \in Nat /\ stations[i].at \in Int /\ stations[i].price \in Nat
  BY StationsInOrder DEF ExactInvariant, IsMerging
<1>2. DOMAIN q = 1..n /\ \A i \in 1..n : q[i] = IF c[i] # c[i - 1] THEN bought[c[i]] ELSE 0
  BY <1>1 DEF Spread
<1>3. \A i \in 0..n : SumUpTo(q, i) = SumUpTo(bought, c[i])
  <2>1. \A k \in DOMAIN stations : bought[k] \in Int
    BY <1>1
  <2> QED BY <1>1, <2>1, SpreadAddsUp
<1>4. ASSUME NEW i \in 1..n
      PROVE  /\ c[i] \in 1..at /\ c[i] \in Nat
             /\ stations[c[i]].at = s[i].at /\ s[i].at \in Int
             /\ c[i] # c[i - 1] => c[i] = c[i - 1] + 1 /\ stations[c[i]] = s[i]
             /\ c[i - 1] \in 0..at /\ i - 1 \in 0..n
  <2>1. i \in DOMAIN s /\ i - 1 \in 0..n /\ (i - 1 = 0 \/ i - 1 \in DOMAIN s)
    BY <1>1
  <2>2. /\ c[i] \in DOMAIN stations /\ c[i] \in Nat /\ stations[c[i]].at = s[i].at
        /\ c[i] # c[i - 1] => c[i] = c[i - 1] + 1 /\ stations[c[i]] = s[i]
    BY <1>1, <2>1, MergingFollows
  <2>3. c[i - 1] \in 0..at
    <3>1. CASE i - 1 = 0
      BY <1>1, <3>1
    <3>2. CASE i - 1 \in DOMAIN s
      <4>1. c[i - 1] \in DOMAIN stations
        BY <1>1, <3>2, MergingFollows
      <4> QED BY <1>1, <4>1
    <3> QED BY <2>1, <3>1, <3>2
  <2>4. s[i].at \in Int
    BY <2>1, CandidateFields
  <2> QED BY <1>1, <2>1, <2>2, <2>3, <2>4
<1> HIDE DEF q, n
<1>5. /\ \A i \in 0..at : Filled(i) \in Nat
      /\ \A i \in 1..at : Filled(i) = Filled(i - 1) + bought[i]
      /\ \A i \in 1..at : /\ stations[i].at <= Filled(i - 1)
                          /\ Filled(i) <= stations[i].at + Capacity
      /\ \A i \in 1..at : Whole(bought[i])
      /\ distance <= Filled(at)
  BY FilledTyped DEF ExactInvariant, LegsAreFuelled
<1>6. ASSUME NEW i \in 1..n
      PROVE  /\ start + SumUpTo(q, i - 1) - s[i].at >= 0
             /\ start + SumUpTo(q, i - 1) - s[i].at + q[i] <= Capacity
             /\ q[i] \in Nat /\ q[i] <= Capacity /\ Whole(q[i])
  <2> DEFINE k == c[i]
             before == Filled(c[i - 1])
             place == s[i].at
             more == bought[k]
             old == Filled(k - 1)
             new == Filled(k)
             sum == SumUpTo(q, i - 1)
  <2>1. start + sum = before /\ sum \in Int
    <3>1. sum = SumUpTo(bought, c[i - 1])
      BY <1>3, <1>4
    <3>2. c[i - 1] \in Nat /\ \A j \in 1..(c[i - 1]) : bought[j] \in Int
      <4>1. c[i - 1] \in 0..at
        BY <1>4
      <4> DEFINE l == c[i - 1]
      <4> HIDE DEF l
      <4>2. l \in 0..at => l \in Nat /\ \A j \in 1..l : bought[j] \in Int
        BY <1>1
      <4> QED BY <4>1, <4>2 DEF l
    <3>3. SumUpTo(bought, c[i - 1]) \in Int
      BY <3>2, TotalTyped
    <3> QED BY <3>1, <3>3 DEF Filled
  <2>2. k \in 1..at /\ k \in 0..at /\ k - 1 \in 0..at /\ c[i - 1] \in 0..at
    <3>1. k \in 1..at /\ c[i - 1] \in 0..at /\ at \in Nat
      BY <1>1, <1>4
    <3> HIDE DEF k
    <3> QED BY <3>1
  <2>3. /\ before \in Nat /\ old \in Nat /\ new \in Nat /\ new = old + more /\ more \in Nat
        /\ place \in Int /\ place <= old /\ new <= place + Capacity /\ Whole(more)
    <3>1. before \in Nat /\ old \in Nat /\ new \in Nat
      BY <1>5, <2>2
    <3>2. new = old + more /\ Whole(more) /\ more \in Nat
      BY <1>1, <1>5, <2>2
    <3>3. /\ stations[k].at <= old /\ new <= stations[k].at + Capacity
          /\ stations[k].at = place /\ place \in Int
      BY <1>4, <1>5, <2>2
    <3> HIDE DEF k, before, place, more, old, new
    <3> QED BY <3>1, <3>2, <3>3
  <2>4. CASE k # c[i - 1]
    <3>1. before = old /\ q[i] = more
      <4>1. k = c[i - 1] + 1 /\ c[i - 1] \in Int
        BY <1>4, <2>2, <2>4
      <4>2. c[i - 1] = k - 1
        <5> DEFINE l == c[i - 1]
        <5> HIDE DEF k, l
        <5>1. k = l + 1 /\ l \in Int => l = k - 1
          OBVIOUS
        <5> QED BY <4>1, <5>1 DEF l
      <4> QED BY <1>2, <2>4, <4>2
    <3> HIDE DEF before, old, new, more, place, sum
    <3>2. /\ start + sum - place >= 0 /\ start + sum - place + more <= Capacity
          /\ more <= Capacity
      BY <1>1, <2>1, <2>3, <3>1
    <3> QED BY <2>3, <3>1, <3>2 DEF place, sum
  <2>5. CASE k = c[i - 1]
    <3>1. before = new /\ q[i] = 0
      BY <1>2, <2>5
    <3> HIDE DEF before, old, new, more, place, sum
    <3>2. start + sum - place >= 0 /\ start + sum - place + 0 <= Capacity
      BY <1>1, <2>1, <2>3, <3>1
    <3> QED BY <1>1, <3>1, <3>2, ZeroIsWhole DEF place, sum
  <2> QED BY <2>4, <2>5
<1>7. q \in Plans(s, start, distance)
  <2>1. q \in [DOMAIN s -> {Step * k : k \in 0..(Capacity \div Step)}]
    <3>1. \A i \in 1..n : q[i] \in {Step * k : k \in 0..(Capacity \div Step)}
      BY <1>6, WholeVolume
    <3>2. q = [i \in DOMAIN s |-> q[i]]
      BY DEF q, Spread
    <3> QED BY <1>1, <3>1, <3>2
  <2>2. start + SumUpTo(q, n) >= distance
    <3>1. start + SumUpTo(q, n) = Filled(at)
      BY <1>1, <1>3, n \in 0..n DEF Filled
    <3>2. Filled(at) \in Nat
      BY <1>1, <1>5
    <3> QED BY <1>1, <1>5, <3>1, <3>2
  <2>3. Feasible(q, s, start, distance)
    BY <1>1, <1>6, <2>2 DEF Feasible, n
  <2> QED BY <2>1, <2>3 DEF Plans
<1>8. Cost(q, s) = Cost(bought, stations)
  <2> DEFINE paid == [k \in DOMAIN stations |-> bought[k] * stations[k].price]
             theirs == [i \in DOMAIN s |-> q[i] * s[i].price]
  <2>1. \A k \in DOMAIN stations : paid[k] = bought[k] * stations[k].price
    OBVIOUS
  <2>2. theirs = Spread(paid, c, s)
    <3>1. ASSUME NEW i \in 1..n
          PROVE  q[i] * s[i].price = IF c[i] # c[i - 1] THEN paid[c[i]] ELSE 0
      <4>1. CASE c[i] # c[i - 1]
        <5>1. c[i] \in DOMAIN stations
          BY <1>1, <1>4
        <5> HIDE DEF paid
        <5> QED BY <1>2, <1>4, <2>1, <4>1, <5>1
      <4>2. CASE c[i] = c[i - 1]
        <5>1. s[i].price \in Nat
          BY <1>1, CandidateFields
        <5>2. q[i] = 0
          BY <1>2, <4>2
        <5> QED BY <4>2, <5>1, <5>2
      <4> QED BY <4>1, <4>2
    <3> HIDE DEF paid
    <3> QED BY <1>1, <3>1 DEF Spread
  <2>3. \A k \in DOMAIN stations : paid[k] \in Int
    BY <1>1, <2>1, Products
  <2>4. Cost(bought, stations) = SumUpTo(paid, at) /\ Cost(q, s) = SumUpTo(theirs, n)
    BY <1>1 DEF Cost, n
  <2> HIDE DEF paid, theirs
  <2>5. \A i \in 0..n : SumUpTo(Spread(paid, c, s), i) = SumUpTo(paid, c[i])
    BY <1>1, <2>3, SpreadAddsUp DEF n
  <2>6. n \in 0..n
    BY <1>1
  <2> QED BY <1>1, <2>2, <2>4, <2>5, <2>6
<1>9. Cardinality({i \in DOMAIN q : q[i] > 0}) = Cardinality(Purchases)
  <2>1. Cardinality({i \in DOMAIN q : q[i] > 0}) = SumUpTo(Ones(q), n)
    BY <1>1, <1>2, OnesAreCounted
  <2>2. Cardinality(Purchases) = SumUpTo(Ones(bought), at)
    BY <1>1, OnesAreCounted DEF Purchases
  <2>3. Ones(q) = Spread(Ones(bought), c, s)
    <3>1. ASSUME NEW i \in 1..n
          PROVE  (IF q[i] > 0 THEN 1 ELSE 0) = IF c[i] # c[i - 1] THEN Ones(bought)[c[i]] ELSE 0
      <4>1. c[i] \in DOMAIN bought
        BY <1>1, <1>4
      <4>2. Ones(bought)[c[i]] = IF bought[c[i]] > 0 THEN 1 ELSE 0
        BY <4>1 DEF Ones
      <4> QED BY <1>2, <4>2
    <3> QED BY <1>1, <1>2, <3>1 DEF Spread, Ones
  <2>4. \A k \in DOMAIN stations : Ones(bought)[k] \in Int
    BY <1>1 DEF Ones
  <2>5. \A i \in 0..n : SumUpTo(Spread(Ones(bought), c, s), i) = SumUpTo(Ones(bought), c[i])
    BY <1>1, <2>4, SpreadAddsUp DEF n
  <2>6. n \in 0..n
    BY <1>1
  <2> QED BY <1>1, <2>1, <2>2, <2>3, <2>5, <2>6
<1> QED BY <1>7, <1>8, <1>9 DEF q

--------------------------------------------------------------------------------
(* The ways of driving an alternative                                         *)

\* Ways and ExactRoute, of what a request asks for and starts with.
Admitted(ask, road) ==
    {c \in road.near : /\ ask.reported_only => c.id \in Reported
                       /\ 0 < c.at /\ c.at < road.distance}

EveryStop(ask, road) == Sorted(Admitted(ask, road))

WaysOf(ask, begin, road) ==
    {[cost |-> Cost(plan, EveryStop(ask, road)),
      stops |-> Cardinality({i \in DOMAIN plan : plan[i] > 0})] :
        plan \in Plans(EveryStop(ask, road), begin, road.distance)}

ExactOf(begin, road) ==
    /\ Grain < Step /\ Near < Step /\ Multiple(Step, Grain)
    /\ Whole(Capacity) /\ Whole(begin) /\ Whole(road.distance)
    /\ \A place \in {c.at : c \in road.near} : Whole(place)

LEMMA WaysAreOf == \A road : Ways(road) = WaysOf(request, start, road)
BY DEF Ways, WaysOf, EveryStop, Admitted

LEMMA ExactIsOf == \A road : ExactRoute(road) <=> ExactOf(start, road)
BY DEF ExactRoute, ExactOf, InWholeSteps

\* The optimizer is at work on this route.
OnRoute(road) ==
    distance = road.distance /\ stations = Merged(EveryStop(request, road))

LEMMA RouteTyped ==
    ASSUME NEW road \in Alternatives
    PROVE  /\ road.distance \in Nat /\ road.duration \in Nat
           /\ road.near \in SUBSET Candidate /\ IsFiniteSet(road.near)
BY PlannerAssumption

LEMMA EveryStopTyped ==
    ASSUME NEW road \in Alternatives, NEW ask
    PROVE  /\ EveryStop(ask, road) \in Seq(Candidate) /\ InTurn(EveryStop(ask, road))
           /\ \A i \in DOMAIN EveryStop(ask, road) : EveryStop(ask, road)[i] \in road.near
<1> DEFINE S == Admitted(ask, road)
<1>1. S \subseteq road.near
  BY DEF Admitted
<1> HIDE DEF S
<1>2. S \in SUBSET Candidate /\ IsFiniteSet(S)
  BY <1>1, RouteTyped, FS_Subset
<1>3. Sorted(S) \in Seq(S) /\ InTurn(Sorted(S))
  BY <1>2, SortedIsInTurn
<1>4. Sorted(S) \in Seq(Candidate) /\ \A i \in DOMAIN Sorted(S) : Sorted(S)[i] \in road.near
  BY <1>1, <1>2, <1>3
<1> QED BY <1>3, <1>4 DEF EveryStop, S

\* The optimizer's stations are those the policy admits, merged.
LEMMA UsableIsMerged ==
    ASSUME NEW road \in Alternatives
    PROVE  /\ Usable(road.near, road.distance) = Merged(EveryStop(request, road))
           /\ InOrder(Usable(road.near, road.distance), road.distance)
<1> DEFINE S == {c \in road.near : request.reported_only => c.id \in Reported}
<1>1. {c \in S : 0 < c.at /\ c.at < road.distance} = Admitted(request, road)
  BY DEF Admitted
<1>2. Usable(road.near, road.distance) = Prepare(S, road.distance)
  BY DEF Usable
<1>3. S \in SUBSET Candidate /\ IsFiniteSet(S) /\ road.distance \in Nat
  BY RouteTyped, FS_Subset
<1> HIDE DEF S
<1>4. Prepare(S, road.distance) = Merged(EveryStop(request, road))
  BY <1>1 DEF Prepare, Merged, EveryStop, FoldLeft, MapThenFoldSet
<1>5. InOrder(Prepare(S, road.distance), road.distance)
  BY <1>3, PreparedInOrder
<1> QED BY <1>2, <1>4, <1>5

\* Whole places are the same or more than Near apart.
LEMMA WholeStopsFarApart ==
    ASSUME NEW s \in Seq(Candidate), InTurn(s), Near < Step, \A i \in DOMAIN s : Whole(s[i].at)
    PROVE  FarApart(s)
<1> SUFFICES ASSUME NEW i \in DOMAIN s, NEW j \in DOMAIN s, i < j
             PROVE  s[i].at = s[j].at \/ s[j].at - s[i].at >= Near
  BY DEF FarApart
<1> DEFINE a == s[i].at
           b == s[j].at
<1>1. /\ a \in Int /\ b \in Int /\ Near \in Nat /\ Step \in Nat
  BY CandidateFields, TankAssumption
<1>2. a <= b
  <2>1. s[i] \in Candidate /\ s[j] \in Candidate /\ Before(s[i], s[j])
    BY DEF InTurn
  <2> QED BY <2>1, BeforeOrders
<1>3. Whole(a) /\ Whole(b)
  OBVIOUS
<1> HIDE DEF a, b
<1>4. Whole(b - a)
  BY <1>1, <1>3, WholeSums
<1>5. b - a \in Int
  BY <1>1
<1>6. b - a > 0 => b - a >= Step
  BY <1>4, <1>5, WholeApart
<1>7. a = b \/ b - a >= Near
  BY <1>1, <1>2, <1>6
<1> QED BY <1>7 DEF a, b

LEMMA ExactOnRoute ==
    ASSUME NEW road \in Alternatives, ExactOf(start, road), OnRoute(road)
    PROVE  Exact /\ \E c : IsMerging(c, EveryStop(request, road), stations)
<1> DEFINE s == EveryStop(request, road)
<1>1. s \in Seq(Candidate) /\ InTurn(s) /\ \A i \in DOMAIN s : s[i] \in road.near
  BY EveryStopTyped
<1>2. \A i \in DOMAIN s : Whole(s[i].at)
  <2> HIDE DEF s
  <2>1. \A c \in road.near : c.at \in {d.at : d \in road.near}
    OBVIOUS
  <2> QED BY <1>1, <2>1 DEF ExactOf
<1>3. stations = Merged(s) /\ distance = road.distance
  BY DEF OnRoute
<1> HIDE DEF s
<1>4. FarApart(s)
  BY <1>1, <1>2, WholeStopsFarApart DEF ExactOf
<1>5. /\ \E c : IsMerging(c, s, stations)
      /\ \A i \in DOMAIN stations : \E j \in DOMAIN s : stations[i] = s[j]
  BY <1>1, <1>3, <1>4, MergingExists
<1>6. \A i \in DOMAIN stations : Whole(stations[i].at)
  BY <1>2, <1>5
<1>7. Exact
  BY <1>3, <1>6 DEF ExactOf, Exact, InWholeSteps
<1> QED BY <1>5, <1>7 DEF s

BestWay(ways, cost, n) ==
    /\ \E w \in ways : w.cost = cost /\ w.stops = n
    /\ \A w \in ways : cost <= w.cost

LEMMA PlannedIsBest ==
    ASSUME VehicleInvariant, ExactInvariant, outcome = "planned",
           NEW road \in Alternatives, OnRoute(road), ExactOf(start, road)
    PROVE  BestWay(WaysOf(request, start, road), Cost(bought, stations), Cardinality(Purchases))
<1> DEFINE s == EveryStop(request, road)
<1>1. s \in Seq(Candidate)
  BY EveryStopTyped
<1>2. Exact /\ distance = road.distance /\ \E c : IsMerging(c, s, stations)
  BY ExactOnRoute DEF OnRoute
<1> HIDE DEF s
<1>3. PICK c : IsMerging(c, s, stations)
  BY <1>2
<1>4. stations \in Seq(Candidate)
  BY StationsInOrder
<1>5. PICK m : UnitPrices(m, stations)
  BY <1>4, UnitPricesExist
<1>6. NoDearer(m, s)
  BY <1>1, <1>3, <1>4, <1>5, MergedNoDearer
<1>7. \A plan \in Plans(s, start, distance) : Cost(bought, stations) <= Cost(plan, s)
  BY <1>1, <1>2, <1>5, <1>6, GreedyIsCheapest
<1>8. /\ Spread(bought, c, s) \in Plans(s, start, distance)
      /\ Cost(Spread(bought, c, s), s) = Cost(bought, stations)
      /\ Cardinality({i \in DOMAIN Spread(bought, c, s) : Spread(bought, c, s)[i] > 0})
            = Cardinality(Purchases)
  BY <1>1, <1>2, <1>3, MergedPlan
<1>9. WaysOf(request, start, road) =
         {[cost |-> Cost(plan, s), stops |-> Cardinality({i \in DOMAIN plan : plan[i] > 0})] :
             plan \in Plans(s, start, distance)}
  BY <1>2 DEF WaysOf, s
<1> DEFINE way(plan) ==
      [cost |-> Cost(plan, s), stops |-> Cardinality({i \in DOMAIN plan : plan[i] > 0})]
           plans == Plans(s, start, distance)
           ways == {way(plan) : plan \in plans}
           q == Spread(bought, c, s)
<1>10. /\ way(q).cost = Cost(bought, stations) /\ way(q).stops = Cardinality(Purchases)
       /\ \A plan \in plans : way(plan).cost = Cost(plan, s)
  BY <1>8
<1>11. q \in plans /\ \A plan \in plans : Cost(bought, stations) <= Cost(plan, s)
  BY <1>7, <1>8
<1>12. WaysOf(request, start, road) = ways
  BY <1>9
<1> HIDE DEF way, plans, q
<1>13. BestWay(ways, Cost(bought, stations), Cardinality(Purchases))
  BY <1>10, <1>11 DEF BestWay
<1> HIDE DEF ways
<1> QED BY <1>12, <1>13

LEMMA RefusedHasNoWay ==
    ASSUME VehicleInvariant, ExactInvariant, outcome \in {"refused", "stuck"},
           NEW road \in Alternatives, OnRoute(road), ExactOf(start, road)
    PROVE  WaysOf(request, start, road) = {}
<1> DEFINE s == EveryStop(request, road)
<1>1. s \in Seq(Candidate)
  BY EveryStopTyped
<1>2. Exact /\ distance = road.distance /\ \E c : IsMerging(c, s, stations)
  BY ExactOnRoute DEF OnRoute
<1> HIDE DEF s
<1>3. PICK c : IsMerging(c, s, stations)
  BY <1>2
<1>4. stations \in Seq(Candidate) /\ start \in Nat /\ distance \in Nat
  BY StationsInOrder
<1>5. ~Covered /\ start <= Capacity
  BY <1>2 DEF ExactInvariant
<1>6. ASSUME NEW plan \in Plans(s, start, distance) PROVE FALSE
  <2>1. \A u \in (start + 1)..distance : \E j \in DOMAIN stations : Covers(stations, j, u)
    BY <1>1, <1>3, <1>4, MergedCovers
  <2> QED BY <1>5, <2>1, CoveredIfSold
<1>7. Plans(s, start, distance) = {}
  BY <1>6
<1> QED BY <1>2, <1>7 DEF WaysOf, s

LEMMA WaysTyped ==
    ASSUME NEW ask, NEW begin \in Nat, NEW road \in Alternatives
    PROVE  \A w \in WaysOf(ask, begin, road) :
              w.cost \in Int /\ w.stops \in 0..Cardinality(DOMAIN EveryStop(ask, road))
<1> DEFINE s == EveryStop(ask, road)
<1>1. s \in Seq(Candidate)
  BY EveryStopTyped
<1> HIDE DEF s
<1>2. ASSUME NEW plan \in Plans(s, begin, road.distance)
      PROVE  /\ Cost(plan, s) \in Int
             /\ Cardinality({i \in DOMAIN plan : plan[i] > 0}) \in 0..Cardinality(DOMAIN s)
  <2>1. plan \in [DOMAIN s -> Nat] /\ Feasible(plan, s, begin, road.distance)
    BY PlanTyped
  <2> DEFINE m == [u \in Nat |-> 0]
  <2>2. NoDearer(m, s)
    <3>1. m \in [Nat -> Nat] /\ \A u \in Nat : m[u] = 0
      OBVIOUS
    <3> HIDE DEF m
    <3>2. ASSUME NEW i \in DOMAIN s, NEW u \in Nat PROVE m[u] <= s[i].price
      <4>1. s[i].price \in Nat
        BY <1>1, CandidateFields
      <4> QED BY <3>1, <4>1
    <3> QED BY <3>1, <3>2 DEF NoDearer
  <2> HIDE DEF m
  <2>3. Cost(plan, s) \in Int
    BY <1>1, <2>1, <2>2, LowerBound
  <2> DEFINE T == {i \in DOMAIN plan : plan[i] > 0}
  <2>4. T \subseteq DOMAIN s /\ IsFiniteSet(DOMAIN s)
    <3>1. DOMAIN s = 1..Len(s) /\ Len(s) \in Nat
      BY <1>1
    <3>2. IsFiniteSet(1..Len(s))
      BY <3>1, FS_Interval
    <3> QED BY <2>1, <3>1, <3>2
  <2> HIDE DEF T
  <2>5. /\ Cardinality(T) \in Nat /\ Cardinality(DOMAIN s) \in Nat
        /\ Cardinality(T) <= Cardinality(DOMAIN s)
    BY <2>4, FS_Subset, FS_CardinalityType
  <2>6. Cardinality(T) \in 0..Cardinality(DOMAIN s)
    BY <2>5
  <2> QED BY <2>3, <2>6 DEF T
<1>3. ASSUME NEW w \in WaysOf(ask, begin, road)
      PROVE  w.cost \in Int /\ w.stops \in 0..Cardinality(DOMAIN s)
  <2>1. PICK plan \in Plans(s, begin, road.distance) :
            w = [cost |-> Cost(plan, s), stops |-> Cardinality({i \in DOMAIN plan : plan[i] > 0})]
    BY DEF WaysOf, s
  <2>2. /\ w.cost = Cost(plan, s)
        /\ w.stops = Cardinality({i \in DOMAIN plan : plan[i] > 0})
    BY <2>1
  <2> QED BY <1>2, <2>2
<1> QED BY <1>3 DEF s

--------------------------------------------------------------------------------
(* The invariant of the planner                                               *)

Evaluations ==
    [alternative: Nat, distance: Nat, duration: Nat, cost: Int, stops: Nat,
     score: Int, reported: Nat]

\* What an evaluation says of its alternative: where nothing is rounded, that it
\* is a cheapest way of driving it.
Sound(e, ask, begin, road) ==
    /\ e.duration = road.duration
    /\ e.score = Money(Score(e.cost, e.duration, e.stops))
    /\ ExactOf(begin, road) => BestWay(WaysOf(ask, begin, road), e.cost, e.stops)

AllSound(evals, ask, begin, alts, n) ==
    \A i \in DOMAIN evals :
        /\ evals[i].alternative \in 1..n
        /\ Sound(evals[i], ask, begin, alts[evals[i].alternative])

\* Each of the first n alternatives is evaluated, or there is no way of driving it.
AllHeard(evals, ask, begin, alts, n) ==
    \A k \in 1..n : ExactOf(begin, alts[k]) /\ WaysOf(ask, begin, alts[k]) # {} =>
        \E i \in DOMAIN evals : evals[i].alternative = k

FuelRefusals == {Refused("fuel_plan_not_found"), Refused("insufficient_price_data")}

\* What the planner knows of the alternatives tried so far.
Tries ==
    /\ start \in 0..Capacity
    /\ routes \in Seq(Alternatives) /\ tried \in 0..Len(routes)
    /\ evaluations \in Seq(Evaluations)
    /\ outcome # "idle" =>
          VehicleInvariant /\ ExactInvariant /\ tried # 0 /\ OnRoute(routes[tried])
    /\ AllSound(evaluations, request, start, routes, tried)
    /\ AllHeard(evaluations, request, start, routes,
                IF outcome = "idle" THEN tried ELSE tried - 1)

\* It answers when all are.
AnswersLast ==
    /\ answer.kind = "plan" =>
          /\ outcome = "idle" /\ tried = Len(routes) /\ evaluations # <<>>
          /\ answer.selected = evaluations[Selected(request.strategy, evaluations)]
    /\ answer \in FuelRefusals =>
          outcome = "idle" /\ tried = Len(routes) /\ evaluations = <<>>

PlannerInvariant == Tries /\ AnswersLast

LEMMA TriesTyped ==
    ASSUME Tries
    PROVE  /\ start \in Nat /\ start <= Capacity /\ tried \in Nat /\ tried <= Len(routes)
           /\ Len(routes) \in Nat /\ DOMAIN routes = 1..Len(routes)
           /\ \A i \in DOMAIN routes : routes[i] \in Alternatives
           /\ evaluations \in Seq(Evaluations) /\ Len(evaluations) \in Nat
           /\ DOMAIN evaluations = 1..Len(evaluations)
           /\ tried # 0 => tried \in DOMAIN routes
<1>1. /\ start \in 0..Capacity /\ routes \in Seq(Alternatives) /\ tried \in 0..Len(routes)
      /\ evaluations \in Seq(Evaluations) /\ Capacity \in Nat
  BY TankAssumption DEF Tries
<1>2. Len(routes) \in Nat /\ DOMAIN routes = 1..Len(routes)
  BY <1>1
<1>3. tried # 0 => tried \in DOMAIN routes
  BY <1>1, <1>2
<1> QED BY <1>1, <1>2, <1>3

LEMMA WaitingIsNoAnswer ==
    /\ Waiting.kind # "plan" /\ Waiting \notin FuelRefusals
    /\ \A error \in ProviderErrors : Refused(error).kind # "plan" /\ Refused(error) \notin FuelRefusals
<1>1. Waiting.kind # "plan"
  BY DEF Waiting
<1>2. Waiting \notin FuelRefusals
  <2>1. \A e : Refused(e).kind = "refused"
    BY DEF Refused
  <2>2. Waiting.kind = "waiting"
    BY DEF Waiting
  <2> QED BY <2>1, <2>2 DEF FuelRefusals
<1>3. ASSUME NEW error \in ProviderErrors
      PROVE  Refused(error).kind # "plan" /\ Refused(error) \notin FuelRefusals
  <2>1. \A e : Refused(e).kind = "refused" /\ Refused(e).error = e
    BY DEF Refused
  <2>2. error # "fuel_plan_not_found" /\ error # "insufficient_price_data"
    BY SelectionAssumption
  <2> QED BY <2>1, <2>2 DEF FuelRefusals
<1> QED BY <1>1, <1>2, <1>3

LEMMA TriesStay ==
    ASSUME Tries, UNCHANGED <<vars, request, routes, tried, evaluations>>
    PROVE  Tries'
<1>1. /\ start' = start /\ outcome' = outcome /\ distance' = distance /\ stations' = stations
      /\ request' = request /\ routes' = routes /\ tried' = tried /\ evaluations' = evaluations
      /\ UNCHANGED vars
  BY DEF vars
<1>2. VehicleInvariant /\ ExactInvariant => VehicleInvariant' /\ ExactInvariant'
  BY <1>1, NextKeepsVehicle, NextKeepsExact
<1>3. OnRoute(routes[tried]) => OnRoute(routes[tried])'
  BY <1>1 DEF OnRoute
<1> QED BY <1>1, <1>2, <1>3 DEF Tries

LEMMA PlannerStays ==
    ASSUME PlannerInvariant, UNCHANGED <<vars, planVars>> PROVE PlannerInvariant'
<1>1. UNCHANGED <<vars, request, routes, tried, evaluations>> /\ answer' = answer /\ outcome' = outcome
  BY DEF vars, planVars
<1>2. Tries'
  BY <1>1, TriesStay DEF PlannerInvariant
<1> QED BY <1>1, <1>2 DEF PlannerInvariant, AnswersLast

LEMMA LocateKeeps ==
    ASSUME PlannerInvariant, Locate PROVE PlannerInvariant'
<1>1. UNCHANGED <<vars, request, routes, tried, evaluations>>
  BY DEF Locate
<1>2. Tries'
  BY <1>1, TriesStay DEF PlannerInvariant
<1>3. answer' = Waiting \/ \E error \in ProviderErrors : answer' = Refused(error)
  BY DEF Locate
<1> QED BY <1>2, <1>3, WaitingIsNoAnswer DEF PlannerInvariant, AnswersLast

LEMMA NothingTriedYet ==
    ASSUME Tries, routes = <<>>
    PROVE  tried = 0 /\ outcome = "idle" /\ DOMAIN evaluations = {}
<1>1. tried = 0
  BY TriesTyped
<1>2. outcome = "idle"
  BY <1>1 DEF Tries
<1>3. 1..0 = {}
  OBVIOUS
<1> QED BY <1>1, <1>2, <1>3 DEF Tries, AllSound

LEMMA AskRoutesKeeps ==
    ASSUME PlannerInvariant, AskRoutes PROVE PlannerInvariant'
<1>1. CASE \E error \in ProviderErrors : answer' = Refused(error) /\ UNCHANGED routes
  <2>1. UNCHANGED <<vars, request, routes, tried, evaluations>>
    BY <1>1 DEF AskRoutes
  <2>2. Tries'
    BY <2>1, TriesStay DEF PlannerInvariant
  <2> QED BY <1>1, <2>2, WaitingIsNoAnswer DEF PlannerInvariant, AnswersLast
<1>2. CASE \E n \in 1..(IF located = 2 THEN MaxAlternatives ELSE 1) :
              routes' \in [1..n -> Alternatives] /\ UNCHANGED answer
  <2>1. PICK n \in 1..(IF located = 2 THEN MaxAlternatives ELSE 1) :
            routes' \in [1..n -> Alternatives] /\ answer' = answer
    BY <1>2
  <2>2. n \in Nat
    <3>1. MaxAlternatives \in Nat
      BY SelectionAssumption
    <3> QED BY <3>1
  <2>3. routes' \in Seq(Alternatives) /\ 0 \in 0..Len(routes')
    BY <2>1, <2>2
  <2>4. Tries /\ answer = Waiting /\ routes = <<>> /\ UNCHANGED <<vars, request, tried, evaluations>>
    BY DEF PlannerInvariant, AskRoutes
  <2>5. /\ start' = start /\ outcome' = "idle" /\ request' = request /\ tried' = 0
        /\ evaluations' = evaluations /\ DOMAIN evaluations = {} /\ answer' = Waiting
    BY <2>1, <2>4, NothingTriedYet DEF vars
  <2>6. 1..0 = {}
    OBVIOUS
  <2>7. Tries'
    BY <2>3, <2>4, <2>5, <2>6 DEF Tries, AllSound, AllHeard
  <2> QED BY <2>5, <2>7, WaitingIsNoAnswer DEF PlannerInvariant, AnswersLast
<1> QED BY <1>1, <1>2 DEF AskRoutes

LEMMA BeginKeeps ==
    ASSUME PlannerInvariant, Begin PROVE PlannerInvariant'
<1> DEFINE n == tried + 1
           road == routes[n]
<1>1. /\ Tries /\ answer = Waiting /\ outcome = "idle" /\ tried < Len(routes)
      /\ distance' = road.distance /\ stations' = Usable(road.near, road.distance)
      /\ at' = 0 /\ fuel' = start /\ bought' = <<>> /\ outcome' = "planning" /\ tried' = n
      /\ start' = start /\ request' = request /\ routes' = routes
      /\ evaluations' = evaluations /\ answer' = answer
  BY DEF PlannerInvariant, Begin
<1>2. n \in DOMAIN routes /\ n \in 0..Len(routes) /\ n # 0 /\ n - 1 = tried /\ 1..tried \subseteq 1..n
  BY <1>1, TriesTyped
<1>3. road \in Alternatives
  BY <1>1, <1>2, TriesTyped
<1> HIDE DEF n, road
<1>4. /\ stations' = Merged(EveryStop(request, road))
      /\ InOrder(stations', distance') /\ distance' \in Nat
  BY <1>1, <1>3, UsableIsMerged, RouteTyped
<1>5. VehicleInvariant'
  <2>1. (/\ distance \in Nat /\ start \in Nat /\ InOrder(stations, distance)
         /\ at = 0 /\ fuel = start /\ bought = <<>> /\ outcome = "planning"
         => VehicleInvariant)'
    BY VehicleBegins, PTL
  <2>2. (/\ distance \in Nat /\ start \in Nat /\ InOrder(stations, distance)
         /\ at = 0 /\ fuel = start /\ bought = <<>> /\ outcome = "planning")'
    <3>1. start \in Nat
      BY <1>1, TriesTyped
    <3> QED BY <1>1, <1>4, <3>1
  <2> QED BY <2>1, <2>2
<1>6. ExactInvariant'
  <2>1. (/\ start \in 0..Capacity /\ at = 0 /\ fuel = start /\ bought = <<>>
         /\ outcome \in {"planning", "idle"}
         => ExactInvariant)'
    BY ExactAtStart, PTL
  <2> QED BY <1>1, <2>1 DEF Tries
<1>7. OnRoute(routes[tried])'
  BY <1>1, <1>4 DEF OnRoute, road
<1>8. AllSound(evaluations, request, start, routes, n)
  BY <1>1, <1>2 DEF Tries, AllSound
<1>9. AllHeard(evaluations, request, start, routes, tried)
  BY <1>1 DEF Tries
<1>10. Tries'
  BY <1>1, <1>2, <1>5, <1>6, <1>7, <1>8, <1>9 DEF Tries
<1> QED BY <1>1, <1>10, WaitingIsNoAnswer DEF PlannerInvariant, AnswersLast

LEMMA OptimizeKeeps ==
    ASSUME PlannerInvariant, Optimize PROVE PlannerInvariant'
<1>1. /\ Tries /\ Next /\ request' = request /\ routes' = routes /\ tried' = tried
      /\ evaluations' = evaluations /\ answer' = answer
  BY DEF PlannerInvariant, Optimize, planVars
<1>2. /\ outcome \in {"planning", "driving"}
      /\ distance' = distance /\ stations' = stations /\ start' = start
  BY <1>1 DEF Next, Validate, DriveAndBuy, Arrive
<1>3. VehicleInvariant /\ ExactInvariant /\ tried # 0 /\ OnRoute(routes[tried])
  BY <1>1, <1>2 DEF Tries
<1>4. VehicleInvariant' /\ ExactInvariant'
  BY <1>1, <1>3, NextKeepsVehicle, NextKeepsExact
<1>5. outcome' # "idle"
  BY <1>4 DEF VehicleInvariant
<1>6. OnRoute(routes[tried])'
  BY <1>1, <1>2, <1>3 DEF OnRoute
<1>7. Tries'
  BY <1>1, <1>2, <1>3, <1>4, <1>5, <1>6 DEF Tries
<1> QED BY <1>1, <1>2, <1>7 DEF PlannerInvariant, AnswersLast

LEMMA EvaluationIsSound ==
    ASSUME Tries, outcome = "planned"
    PROVE  /\ Evaluation \in Evaluations /\ Evaluation.alternative = tried
           /\ Sound(Evaluation, request, start, routes[tried])
<1> DEFINE road == routes[tried]
           cost == Cost(bought, stations)
           n == Cardinality(Purchases)
           reported == Cardinality({i \in Purchases : stations[i].id \in Reported})
<1>1. VehicleInvariant /\ ExactInvariant /\ tried # 0 /\ OnRoute(road)
  BY DEF Tries
<1>2. tried \in Nat /\ road \in Alternatives
  BY <1>1, TriesTyped
<1>3. road.duration \in Nat /\ distance \in Nat
  BY <1>1, <1>2, RouteTyped, StationsInOrder
<1>4. IsFiniteSet(Purchases)
  <2>1. DOMAIN bought = 1..at /\ at \in Nat
    BY <1>1, StationsInOrder
  <2>2. IsFiniteSet(1..at) /\ Purchases \subseteq 1..at
    BY <2>1, FS_Interval DEF Purchases
  <2> QED BY <2>2, FS_Subset
<1>5. n \in Nat
  BY <1>4, FS_CardinalityType
<1>6. reported \in Nat
  <2> DEFINE S == {i \in Purchases : stations[i].id \in Reported}
  <2>1. S \subseteq Purchases
    OBVIOUS
  <2> HIDE DEF S
  <2>2. IsFiniteSet(S)
    BY <1>4, <2>1, FS_Subset
  <2>3. Cardinality(S) \in Nat
    BY <2>2, FS_CardinalityType
  <2> QED BY <2>3 DEF S
<1>7. cost \in Int
  <2> DEFINE paid == [j \in DOMAIN stations |-> bought[j] * stations[j].price]
  <2>1. /\ at = Len(stations) /\ at \in Nat /\ DOMAIN stations = 1..at
        /\ \A j \in 1..at : bought[j] \in Nat /\ stations[j].price \in Nat
    BY <1>1, StationsInOrder DEF ExactInvariant
  <2>2. \A j \in 1..at : paid[j] \in Int
    BY <2>1, Products
  <2> HIDE DEF paid
  <2>3. SumUpTo(paid, at) \in Int
    BY <2>1, <2>2, TotalTyped
  <2> QED BY <2>1, <2>3 DEF Cost, paid
<1>8. Evaluation =
         [alternative |-> tried, distance |-> distance, duration |-> road.duration,
          cost |-> cost, stops |-> n, score |-> Money(Score(cost, road.duration, n)),
          reported |-> reported]
  BY DEF Evaluation
<1>9. ExactOf(start, road) => BestWay(WaysOf(request, start, road), cost, n)
  BY <1>1, <1>2, PlannedIsBest
<1> HIDE DEF road, cost, n, reported
<1>10. Money(Score(cost, road.duration, n)) \in Int
  <2>1. TimeValue \in Nat /\ StopPenalty \in Nat /\ Cent \in Nat \ {0}
    BY SelectionAssumption
  <2> DEFINE a == road.duration * TimeValue
             b == n * StopPenalty
             x == Score(cost, road.duration, n)
  <2>2. a \in Nat /\ b \in Nat
    BY <1>3, <1>5, <2>1, Products
  <2>3. x \in Int
    <3>1. x = cost + a + b
      BY DEF Score
    <3> HIDE DEF a, b
    <3> QED BY <1>7, <2>2, <3>1
  <2> HIDE DEF x
  <2> DEFINE d == (2 * x + Cent) \div (2 * Cent)
  <2>4. d \in Int
    <3> DEFINE y == 2 * x + Cent
               size == 2 * Cent
    <3>1. y \in Int /\ size \in Nat \ {0}
      BY <2>1, <2>3
    <3> HIDE DEF y, size
    <3>2. y \div size \in Int
      BY <3>1
    <3> QED BY <3>2 DEF y, size
  <2>5. Money(x) = d * Cent
    BY DEF Money
  <2> HIDE DEF d
  <2>6. Money(x) \in Int
    BY <2>1, <2>4, <2>5
  <2> QED BY <2>6 DEF x
<1>11. Evaluation \in Evaluations
  BY <1>2, <1>3, <1>5, <1>6, <1>7, <1>8, <1>10 DEF Evaluations
<1>12. Sound(Evaluation, request, start, road)
  BY <1>8, <1>9 DEF Sound
<1> QED BY <1>8, <1>11, <1>12 DEF road

LEMMA CollectKeeps ==
    ASSUME PlannerInvariant, Collect PROVE PlannerInvariant'
<1> DEFINE road == routes[tried]
           new == evaluations'
<1>1. /\ Tries /\ answer = Waiting /\ outcome \in {"planned", "refused", "stuck"}
      /\ new = IF outcome = "planned" THEN Append(evaluations, Evaluation) ELSE evaluations
      /\ outcome' = "idle" /\ start' = start /\ request' = request
      /\ routes' = routes /\ tried' = tried /\ answer' = answer
  BY DEF PlannerInvariant, Collect
<1>2. /\ VehicleInvariant /\ ExactInvariant /\ tried # 0 /\ OnRoute(road) /\ tried \in Nat
      /\ road \in Alternatives /\ tried \in 1..tried
      /\ evaluations \in Seq(Evaluations) /\ Len(evaluations) \in Nat
      /\ DOMAIN evaluations = 1..Len(evaluations)
      /\ \A k \in 1..tried : k \in 1..(tried - 1) \/ k = tried
  <2>1. VehicleInvariant /\ ExactInvariant /\ tried # 0 /\ OnRoute(road)
    BY <1>1 DEF Tries
  <2>2. tried \in Nat /\ road \in Alternatives
    BY <1>1, <2>1, TriesTyped
  <2>3. /\ evaluations \in Seq(Evaluations) /\ Len(evaluations) \in Nat
        /\ DOMAIN evaluations = 1..Len(evaluations)
    BY <1>1, TriesTyped
  <2>4. tried \in 1..tried /\ \A k \in 1..tried : k \in 1..(tried - 1) \/ k = tried
    BY <2>1, <2>2
  <2> QED BY <2>1, <2>2, <2>3, <2>4
<1>3. /\ AllSound(evaluations, request, start, routes, tried)
      /\ AllHeard(evaluations, request, start, routes, tried - 1)
  BY <1>1 DEF Tries
<1>4. /\ new \in Seq(Evaluations)
      /\ AllSound(new, request, start, routes, tried)
      /\ AllHeard(new, request, start, routes, tried)
  <2>1. CASE outcome = "planned"
    <3> DEFINE e == Evaluation
               n == Len(evaluations)
    <3>1. e \in Evaluations /\ e.alternative = tried /\ Sound(e, request, start, routes[tried])
      BY <1>1, <2>1, EvaluationIsSound
    <3> HIDE DEF e
    <3>2. /\ new \in Seq(Evaluations) /\ DOMAIN new = 1..(n + 1) /\ new[n + 1] = e
          /\ \A i \in 1..n : new[i] = evaluations[i]
      BY <1>1, <1>2, <2>1, <3>1 DEF e
    <3>3. /\ DOMAIN evaluations = 1..n /\ n + 1 \in 1..(n + 1) /\ 1..n \subseteq 1..(n + 1)
          /\ \A i \in 1..(n + 1) : i \in 1..n \/ i = n + 1
      BY <1>2
    <3> HIDE DEF new, n
    <3>4. AllSound(new, request, start, routes, tried)
      <4>1. ASSUME NEW i \in DOMAIN new
            PROVE  /\ new[i].alternative \in 1..tried
                   /\ Sound(new[i], request, start, routes[new[i].alternative])
        <5>1. CASE i \in 1..n
          BY <1>3, <3>2, <3>3, <5>1 DEF AllSound
        <5>2. CASE i = n + 1
          BY <1>2, <3>1, <3>2, <5>2
        <5> QED BY <3>2, <3>3, <5>1, <5>2
      <4> QED BY <4>1 DEF AllSound
    <3>5. AllHeard(new, request, start, routes, tried)
      <4>1. ASSUME NEW k \in 1..tried,
                   ExactOf(start, routes[k]) /\ WaysOf(request, start, routes[k]) # {}
            PROVE  \E i \in DOMAIN new : new[i].alternative = k
        <5>1. CASE k \in 1..(tried - 1)
          <6>1. PICK i \in DOMAIN evaluations : evaluations[i].alternative = k
            BY <1>3, <4>1, <5>1 DEF AllHeard
          <6> QED BY <3>2, <3>3, <6>1
        <5>2. CASE k = tried
          BY <3>1, <3>2, <3>3, <5>2
        <5> QED BY <1>2, <5>1, <5>2
      <4> QED BY <4>1 DEF AllHeard
    <3> QED BY <3>2, <3>4, <3>5
  <2>2. CASE outcome # "planned"
    <3>1. new = evaluations /\ outcome \in {"refused", "stuck"}
      BY <1>1, <2>2
    <3>2. ExactOf(start, road) => WaysOf(request, start, road) = {}
      BY <1>2, <3>1, RefusedHasNoWay
    <3> HIDE DEF new
    <3>3. AllHeard(evaluations, request, start, routes, tried)
      <4>1. ASSUME NEW k \in 1..tried,
                   ExactOf(start, routes[k]) /\ WaysOf(request, start, routes[k]) # {}
            PROVE  \E i \in DOMAIN evaluations : evaluations[i].alternative = k
        <5>1. k # tried
          BY <3>2, <4>1
        <5>2. k \in 1..(tried - 1)
          BY <1>2, <5>1
        <5> QED BY <1>3, <4>1, <5>2 DEF AllHeard
      <4> QED BY <4>1 DEF AllHeard
    <3> QED BY <1>2, <1>3, <3>1, <3>3
  <2> QED BY <2>1, <2>2
<1>5. Tries'
  <2>1. start \in 0..Capacity /\ routes \in Seq(Alternatives) /\ tried \in 0..Len(routes)
    BY <1>1 DEF Tries
  <2> QED BY <1>1, <1>4, <2>1 DEF Tries
<1> QED BY <1>1, <1>5, WaitingIsNoAnswer DEF PlannerInvariant, AnswersLast

LEMMA SelectKeeps ==
    ASSUME PlannerInvariant, Select PROVE PlannerInvariant'
<1>1. /\ Tries /\ outcome = "idle" /\ tried = Len(routes)
      /\ UNCHANGED <<vars, request, routes, tried, evaluations>>
  BY DEF PlannerInvariant, Select
<1>2. /\ outcome' = "idle" /\ tried' = Len(routes') /\ request' = request
      /\ evaluations' = evaluations
  BY <1>1 DEF vars
<1>3. Tries'
  BY <1>1, TriesStay
<1>4. CASE evaluations # <<>>
  <2>1. answer' = Payload(evaluations[Selected(request.strategy, evaluations)])
    BY <1>4 DEF Select
  <2>2. /\ answer'.kind = "plan"
        /\ answer'.selected = evaluations[Selected(request.strategy, evaluations)]
    BY <2>1 DEF Payload
  <2>3. \A e : Refused(e).kind = "refused"
    BY DEF Refused
  <2>4. answer' \notin FuelRefusals
    BY <2>2, <2>3 DEF FuelRefusals
  <2> QED BY <1>2, <1>3, <1>4, <2>2, <2>4 DEF PlannerInvariant, AnswersLast
<1>5. CASE evaluations = <<>>
  <2>1. \E e : answer' = Refused(e)
    BY <1>5 DEF Select
  <2>2. answer'.kind # "plan"
    BY <2>1 DEF Refused
  <2> QED BY <1>2, <1>3, <1>5, <2>2 DEF PlannerInvariant, AnswersLast
<1> QED BY <1>4, <1>5

LEMMA PlannerKept ==
    PlannerInvariant /\ [PlanNext]_<<vars, planVars>> => PlannerInvariant'
BY LocateKeeps, AskRoutesKeeps, BeginKeeps, OptimizeKeeps, CollectKeeps, SelectKeeps,
   PlannerStays DEF PlanNext

LEMMA PlannerBegins == PlanInit => PlannerInvariant
<1> SUFFICES ASSUME PlanInit PROVE PlannerInvariant
  OBVIOUS
<1>1. start \in 0..Capacity
  BY PlannerAssumption DEF PlanInit
<1>2. /\ routes = <<>> /\ tried = 0 /\ evaluations = <<>> /\ answer = Waiting /\ outcome = "idle"
      /\ <<>> \in Seq(Alternatives) /\ <<>> \in Seq(Evaluations) /\ 0 \in 0..Len(<<>>)
      /\ DOMAIN <<>> = {} /\ 1..0 = {}
  BY DEF PlanInit
<1> QED BY <1>1, <1>2, WaitingIsNoAnswer
        DEF PlannerInvariant, Tries, AnswersLast, AllSound, AllHeard

LEMMA PlannerInvariantHolds == PlanSpec => []PlannerInvariant
BY PlannerBegins, PlannerKept, PTL DEF PlanSpec

--------------------------------------------------------------------------------
(* The alternative selected                                                   *)

Triples == Int \X Int \X Int

KeyOrder(k, l) ==
    \/ k[1] < l[1]
    \/ k[1] = l[1] /\ k[2] < l[2]
    \/ k[1] = l[1] /\ k[2] = l[2] /\ k[3] < l[3]

LEMMA SmallerMeans ==
    ASSUME NEW k \in Triples, NEW l \in Triples
    PROVE  Smaller(k, l) <=> KeyOrder(k, l)
<1>1. 1..3 = {1, 2, 3} /\ 1..(1 - 1) = {} /\ 1..(2 - 1) = {1} /\ 1..(3 - 1) = {1, 2}
  OBVIOUS
<1> QED BY <1>1 DEF Smaller, KeyOrder

LEMMA KeyOrders ==
    /\ \A k, l \in Triples : KeyOrder(k, l) \/ KeyOrder(l, k) \/ k = l
    /\ \A k, l \in Triples : KeyOrder(k, l) => ~KeyOrder(l, k) /\ k # l
    /\ \A k, l, m \in Triples : KeyOrder(k, l) /\ KeyOrder(l, m) => KeyOrder(k, m)
BY DEF Triples, KeyOrder

LEMMA KeyTyped ==
    ASSUME NEW strategy, NEW e \in Evaluations
    PROVE  Key(strategy, e) \in Triples
<1>1. e.cost \in Int /\ e.duration \in Int /\ e.distance \in Int /\ e.score \in Int
  BY DEF Evaluations
<1>2. CASE strategy = "fastest"
  BY <1>1, <1>2 DEF Key, Triples
<1>3. CASE strategy = "cheapest_estimated"
  BY <1>1, <1>3 DEF Key, Triples
<1>4. CASE strategy \notin {"fastest", "cheapest_estimated"}
  BY <1>1, <1>4 DEF Key, Triples
<1> QED BY <1>2, <1>3, <1>4

\* min() returns an evaluation none is smaller than.
LEMMA SelectedIsLeast ==
    ASSUME NEW strategy, NEW evals \in Seq(Evaluations), evals # <<>>
    PROVE  /\ Selected(strategy, evals) \in DOMAIN evals
           /\ \A j \in DOMAIN evals :
                 ~KeyOrder(Key(strategy, evals[j]), Key(strategy, evals[Selected(strategy, evals)]))
<1> DEFINE D == DOMAIN evals
           key(i) == Key(strategy, evals[i])
           R == {p \in D \X D :
                    \/ KeyOrder(key(p[2]), key(p[1]))
                    \/ key(p[2]) = key(p[1]) /\ p[2] <= p[1]}
<1>1. \A i, j \in D : <<j, i>> \in R <=>
         \/ KeyOrder(key(i), key(j))
         \/ key(i) = key(j) /\ i <= j
  OBVIOUS
<1>2. \A i \in D : key(i) \in Triples
  BY KeyTyped
<1>3. D = 1..Len(evals) /\ Len(evals) \in Nat /\ D # {}
  OBVIOUS
<1>4. IsFiniteSet(D) /\ D \subseteq Nat
  <2> DEFINE n == Len(evals)
  <2>1. n \in Nat /\ D = 1..n
    BY <1>3
  <2> HIDE DEF n, D
  <2>2. IsFiniteSet(1..n)
    BY <2>1, FS_Interval
  <2> QED BY <2>1, <2>2
<1> HIDE DEF R, D, key
<1>5. \A x, y \in D : <<x, y>> \in R \/ <<y, x>> \in R
  <2> SUFFICES ASSUME NEW x \in D, NEW y \in D PROVE <<x, y>> \in R \/ <<y, x>> \in R
    OBVIOUS
  <2>1. x <= y \/ y <= x
    BY <1>4
  <2>2. KeyOrder(key(x), key(y)) \/ KeyOrder(key(y), key(x)) \/ key(x) = key(y)
    BY <1>2, KeyOrders
  <2> QED BY <1>1, <2>1, <2>2
<1>6. \A x, y, z \in D : <<x, y>> \in R /\ <<y, z>> \in R => <<x, z>> \in R
  <2> SUFFICES ASSUME NEW x \in D, NEW y \in D, NEW z \in D, <<x, y>> \in R, <<y, z>> \in R
               PROVE  <<x, z>> \in R
    OBVIOUS
  <2> DEFINE a == key(x)
             b == key(y)
             c == key(z)
  <2>1. a \in Triples /\ b \in Triples /\ c \in Triples
    BY <1>2
  <2>2. /\ KeyOrder(b, a) \/ (b = a /\ y <= x)
        /\ KeyOrder(c, b) \/ (c = b /\ z <= y)
    BY <1>1
  <2> HIDE DEF a, b, c
  <2>3. KeyOrder(c, b) /\ KeyOrder(b, a) => KeyOrder(c, a)
    BY <2>1, KeyOrders
  <2>4. z <= y /\ y <= x => z <= x
    BY <1>4
  <2>5. KeyOrder(c, a) \/ (c = a /\ z <= x)
    BY <2>2, <2>3, <2>4
  <2> QED BY <1>1, <2>5 DEF a, c
<1>7. PICK i \in D : \A j \in D : <<j, i>> \in R
  BY <1>3, <1>4, <1>5, <1>6, LastExists
<1>8. ASSUME NEW j \in D
      PROVE  ~Smaller(key(j), key(i)) /\ (j < i => Smaller(key(i), key(j)))
  <2>1. KeyOrder(key(i), key(j)) \/ (key(i) = key(j) /\ i <= j)
    BY <1>1, <1>7
  <2>2. key(i) \in Triples /\ key(j) \in Triples
    BY <1>2
  <2>3. ~KeyOrder(key(j), key(i))
    BY <2>1, <2>2, KeyOrders
  <2>4. j < i => ~(i <= j)
    BY <1>4
  <2>5. /\ Smaller(key(j), key(i)) <=> KeyOrder(key(j), key(i))
        /\ Smaller(key(i), key(j)) <=> KeyOrder(key(i), key(j))
    BY <2>2, SmallerMeans
  <2> QED BY <2>1, <2>3, <2>4, <2>5
<1> DEFINE IsLeast(n) == \A j \in DOMAIN evals :
              ~Smaller(key(j), key(n)) /\ (j < n => Smaller(key(n), key(j)))
<1>9. Selected(strategy, evals) = CHOOSE n \in DOMAIN evals : IsLeast(n)
  BY DEF Selected, key
<1>10. \E n \in DOMAIN evals : IsLeast(n)
  BY <1>8 DEF D
<1> HIDE DEF IsLeast
<1>11. Selected(strategy, evals) \in DOMAIN evals /\ IsLeast(Selected(strategy, evals))
  BY <1>9, <1>10
<1> DEFINE best == Selected(strategy, evals)
<1> HIDE DEF best
<1>12. best \in DOMAIN evals /\ \A j \in DOMAIN evals : ~Smaller(key(j), key(best))
  BY <1>11 DEF IsLeast, best
<1>13. \A j \in DOMAIN evals : ~KeyOrder(key(j), key(best))
  BY <1>2, <1>12, SmallerMeans DEF D
<1> QED BY <1>12, <1>13 DEF best, key

LEMMA MoneyKeepsOrder ==
    ASSUME NEW x \in Int, NEW y \in Int, x <= y
    PROVE  Money(x) \in Int /\ Money(y) \in Int /\ Money(x) <= Money(y)
<1> DEFINE size == 2 * Cent
           a == 2 * x + Cent
           b == 2 * y + Cent
           d == a \div size
           e == b \div size
<1>1. Cent \in Nat \ {0}
  BY SelectionAssumption
<1>2. size \in Nat \ {0} /\ a \in Int /\ b \in Int /\ a <= b
  BY <1>1
<1> HIDE DEF size, a, b
<1>3. /\ d \in Int /\ size * d <= a
      /\ e \in Int /\ b < size * e + size
  BY <1>2, Z3
<1>4. Money(x) = d * Cent /\ Money(y) = e * Cent
  BY DEF Money, size, a, b
<1> HIDE DEF d, e
<1>5. size * d = d * size /\ size * e + size = (e + 1) * size
  BY <1>2, <1>3
<1>6. d * size < (e + 1) * size
  <2>1. d * size \in Int /\ (e + 1) * size \in Int
    BY <1>2, <1>3
  <2> QED BY <1>2, <1>3, <1>5, <2>1
<1>7. d < e + 1
  BY <1>2, <1>3, <1>6, Multiples, e + 1 \in Int
<1>8. d * Cent <= e * Cent
  BY <1>1, <1>3, <1>7, Multiples
<1> QED BY <1>1, <1>3, <1>4, <1>8

LEMMA ScoreKeepsOrder ==
    ASSUME NEW cost \in Int, NEW duration \in Nat, NEW n \in Nat, NEW m \in Nat, n <= m
    PROVE  Money(Score(cost, duration, n)) <= Money(Score(cost, duration, m))
<1> DEFINE a == duration * TimeValue
           b == n * StopPenalty
           c == m * StopPenalty
           d == m - n
<1>1. TimeValue \in Nat /\ StopPenalty \in Nat
  BY SelectionAssumption
<1>2. a \in Nat /\ b \in Nat /\ c \in Nat
  BY <1>1, Products
<1>3. b <= c
  <2>1. d \in Nat /\ m = n + d
    OBVIOUS
  <2>2. d * StopPenalty \in Nat
    BY <1>1, <2>1, Products
  <2> HIDE DEF d
  <2>3. m * StopPenalty = n * StopPenalty + d * StopPenalty
    BY <1>1, <2>1
  <2> QED BY <1>2, <2>2, <2>3
<1>4. Score(cost, duration, n) = cost + a + b /\ Score(cost, duration, m) = cost + a + c
  BY DEF Score
<1> HIDE DEF a, b, c
<1>5. cost + a + b \in Int /\ cost + a + c \in Int /\ cost + a + b <= cost + a + c
  BY <1>2, <1>3
<1> QED BY <1>4, <1>5, MoneyKeepsOrder

\* Of the cheapest ways there is one with the most stops, and it costs and
\* stops no less than any cheapest way.
LEMMA CheapestWay ==
    ASSUME NEW road \in Alternatives, start \in Nat, NEW cost, NEW n,
           BestWay(Ways(road), cost, n)
    PROVE  LET cheapest == CHOOSE w \in Cheapest(road) :
                              \A v \in Cheapest(road) : v.stops <= w.stops
           IN  /\ cheapest.cost = cost /\ cost \in Int
               /\ n \in Nat /\ cheapest.stops \in Nat /\ n <= cheapest.stops
<1> DEFINE best == Cheapest(road)
           top == Cardinality(DOMAIN EveryStop(request, road))
<1>1. \A w \in Ways(road) : w.cost \in Int /\ w.stops \in 0..top
  BY WaysAreOf, WaysTyped
<1>2. PICK v \in Ways(road) : v.cost = cost /\ v.stops = n
  BY DEF BestWay
<1>3. \A w \in Ways(road) : cost <= w.cost
  BY DEF BestWay
<1> HIDE DEF top
<1>4. best = {w \in Ways(road) : \A u \in Ways(road) : w.cost <= u.cost}
  BY DEF Cheapest
<1> HIDE DEF best
<1>5. v \in best /\ \A w \in best : w \in Ways(road) /\ w.cost = cost
  <2>1. v \in best
    BY <1>2, <1>3, <1>4
  <2>2. \A w \in best : w \in Ways(road) /\ w.cost <= v.cost /\ v.cost <= w.cost
    BY <1>2, <1>3, <1>4
  <2> QED BY <1>1, <1>2, <2>1, <2>2
<1> DEFINE S == {w.stops : w \in best}
<1>6. S # {} /\ S \subseteq 0..top /\ \A w \in best : w.stops \in S
  BY <1>1, <1>5
<1>7. S \subseteq Int /\ IsFiniteSet(S)
  <2>1. IsFiniteSet(0..top)
    <3>1. top \in Nat
      <4>1. EveryStop(request, road) \in Seq(Candidate)
        BY EveryStopTyped
      <4>2. /\ DOMAIN EveryStop(request, road) = 1..Len(EveryStop(request, road))
            /\ Len(EveryStop(request, road)) \in Nat
        BY <4>1
      <4>3. IsFiniteSet(DOMAIN EveryStop(request, road))
        BY <4>2, FS_Interval
      <4> QED BY <4>3, FS_CardinalityType DEF top
    <3> QED BY <3>1, FS_Interval
  <2> HIDE DEF S
  <2>2. IsFiniteSet(S)
    BY <1>6, <2>1, FS_Subset
  <2> QED BY <1>6, <2>2
<1>8. PICK w \in best : \A u \in best : u.stops <= w.stops
  <2> HIDE DEF S
  <2>1. Max(S) \in S /\ \A k \in S : k <= Max(S)
    BY <1>6, <1>7, Extremes
  <2>2. PICK w \in best : w.stops = Max(S)
    BY <2>1 DEF S
  <2> QED BY <1>6, <2>1, <2>2
<1> DEFINE cheapest == CHOOSE x \in best : \A u \in best : u.stops <= x.stops
<1>9. cheapest \in best /\ \A u \in best : u.stops <= cheapest.stops
  BY <1>8
<1> HIDE DEF cheapest
<1>10. /\ cheapest.cost = cost /\ cost \in Int /\ n \in Nat /\ cheapest.stops \in Nat
       /\ n <= cheapest.stops
  BY <1>1, <1>2, <1>5, <1>9
<1> QED BY <1>10 DEF cheapest, best

LEMMA SelectedIsBest ==
    ASSUME PlannerInvariant PROVE BestAlternativeSelected
<1> DEFINE best == answer.selected
           cheapest(i) == CHOOSE w \in Cheapest(routes[i]) :
                             \A v \in Cheapest(routes[i]) : v.stops <= w.stops
           Beats(i) ==
              CASE request.strategy = "cheapest_estimated" -> best.cost <= cheapest(i).cost
                [] request.strategy = "fastest" ->
                      \/ best.duration < routes[i].duration
                      \/ best.duration = routes[i].duration /\ best.cost <= cheapest(i).cost
                [] OTHER -> best.score <= Money(Score(cheapest(i).cost, routes[i].duration,
                                                      cheapest(i).stops))
<1>1. ASSUME answer.kind = "plan", NEW i \in DOMAIN routes,
             ExactRoute(routes[i]), Ways(routes[i]) # {}
      PROVE  Beats(i)
  <2> DEFINE road == routes[i]
             way == cheapest(i)
             d == Selected(request.strategy, evaluations)
  <2>1. /\ Tries /\ outcome = "idle" /\ tried = Len(routes) /\ evaluations # <<>>
        /\ best = evaluations[d]
    BY <1>1 DEF PlannerInvariant, AnswersLast
  <2>2. /\ evaluations \in Seq(Evaluations) /\ i \in 1..tried /\ road \in Alternatives
        /\ start \in Nat
    BY <2>1, TriesTyped
  <2>3. ExactOf(start, road) /\ WaysOf(request, start, road) # {}
        /\ Ways(road) = WaysOf(request, start, road)
    BY <1>1, WaysAreOf, ExactIsOf
  <2>4. AllSound(evaluations, request, start, routes, tried)
        /\ AllHeard(evaluations, request, start, routes, tried)
    BY <2>1 DEF Tries
  <2>5. PICK j \in DOMAIN evaluations : evaluations[j].alternative = i
    BY <2>2, <2>3, <2>4 DEF AllHeard
  <2> DEFINE e == evaluations[j]
  <2>6. Sound(e, request, start, road)
    BY <2>4, <2>5 DEF AllSound
  <2>7. /\ e.duration = road.duration
        /\ e.score = Money(Score(e.cost, e.duration, e.stops))
        /\ BestWay(Ways(road), e.cost, e.stops)
    BY <2>3, <2>6 DEF Sound
  <2>8. /\ d \in DOMAIN evaluations
        /\ ~KeyOrder(Key(request.strategy, e), Key(request.strategy, best))
    <3>1. /\ d \in DOMAIN evaluations
          /\ \A k \in DOMAIN evaluations :
                ~KeyOrder(Key(request.strategy, evaluations[k]), Key(request.strategy, evaluations[d]))
      BY <2>1, <2>2, SelectedIsLeast
    <3> QED BY <2>1, <3>1
  <2>9. /\ best \in Evaluations /\ e \in Evaluations
    BY <2>1, <2>2, <2>8
  <2>10. /\ way.cost = e.cost /\ e.stops \in Nat /\ way.stops \in Nat /\ e.stops <= way.stops
    BY <2>2, <2>7, CheapestWay
  <2>11. /\ best.cost \in Int /\ best.duration \in Nat /\ best.score \in Int
         /\ e.cost \in Int /\ e.duration \in Nat /\ e.score \in Int
    BY <2>9 DEF Evaluations
  <2> HIDE DEF best, e, way, road, d, cheapest
  <2>12. CASE request.strategy = "cheapest_estimated"
    <3>1. /\ Key(request.strategy, e)[1] = e.cost /\ Key(request.strategy, best)[1] = best.cost
      BY <2>12 DEF Key
    <3>2. ~(e.cost < best.cost)
      BY <2>8, <3>1 DEF KeyOrder
    <3>3. best.cost <= way.cost
      BY <2>10, <2>11, <3>2
    <3> QED BY <2>12, <3>3 DEF way
  <2>13. CASE request.strategy = "fastest"
    <3>1. /\ Key(request.strategy, e)[1] = e.duration /\ Key(request.strategy, e)[2] = e.cost
          /\ Key(request.strategy, best)[1] = best.duration
          /\ Key(request.strategy, best)[2] = best.cost
      BY <2>13 DEF Key
    <3>2. ~(e.duration < best.duration) /\ ~(e.duration = best.duration /\ e.cost < best.cost)
      BY <2>8, <3>1 DEF KeyOrder
    <3>3. \/ best.duration < e.duration
          \/ best.duration = e.duration /\ best.cost <= way.cost
      BY <2>10, <2>11, <3>2
    <3>4. \/ best.duration < road.duration
          \/ best.duration = road.duration /\ best.cost <= way.cost
      BY <2>7, <3>3
    <3> QED BY <2>13, <3>4 DEF way, road
  <2>14. CASE request.strategy \notin {"cheapest_estimated", "fastest"}
    <3>1. Key(request.strategy, e)[1] = e.score /\ Key(request.strategy, best)[1] = best.score
      BY <2>14 DEF Key
    <3>2. ~(e.score < best.score)
      BY <2>8, <3>1 DEF KeyOrder
    <3>3. best.score <= e.score
      BY <2>11, <3>2
    <3>4. Money(Score(e.cost, e.duration, e.stops)) <= Money(Score(e.cost, e.duration, way.stops))
      BY <2>10, <2>11, ScoreKeepsOrder
    <3>5. Money(Score(e.cost, e.duration, way.stops)) \in Int
      <4> DEFINE x == Score(e.cost, e.duration, way.stops)
      <4>1. x \in Int
        <5>1. TimeValue \in Nat /\ StopPenalty \in Nat
          BY SelectionAssumption
        <5>2. e.duration * TimeValue \in Nat /\ way.stops * StopPenalty \in Nat
          BY <2>10, <2>11, <5>1, Products
        <5> QED BY <2>11, <5>2 DEF Score
      <4> HIDE DEF x
      <4>2. Money(x) \in Int
        BY <4>1, MoneyKeepsOrder, x <= x
      <4> QED BY <4>2 DEF x
    <3>6. best.score <= Money(Score(e.cost, e.duration, way.stops))
      BY <2>7, <2>11, <3>3, <3>4, <3>5
    <3>7. best.score <= Money(Score(way.cost, road.duration, way.stops))
      BY <2>7, <2>10, <3>6
    <3> QED BY <2>14, <3>7 DEF way, road
  <2> QED BY <2>12, <2>13, <2>14
<1> QED BY <1>1 DEF BestAlternativeSelected

LEMMA RefusalIsRight ==
    ASSUME PlannerInvariant PROVE RefusedOnlyIfNoneDrivable
<1> SUFFICES ASSUME answer \in FuelRefusals, NEW i \in DOMAIN routes, ExactRoute(routes[i])
             PROVE  Ways(routes[i]) = {}
  BY DEF RefusedOnlyIfNoneDrivable, FuelRefusals
<1>1. Tries /\ outcome = "idle" /\ tried = Len(routes) /\ evaluations = <<>>
  BY DEF PlannerInvariant, AnswersLast
<1>2. i \in 1..tried /\ DOMAIN evaluations = {}
  BY <1>1, TriesTyped
<1>3. AllHeard(evaluations, request, start, routes, tried)
  BY <1>1 DEF Tries
<1>4. ExactOf(start, routes[i])
  BY ExactIsOf
<1>5. WaysOf(request, start, routes[i]) = {}
  BY <1>2, <1>3, <1>4 DEF AllHeard
<1> QED BY <1>5, WaysAreOf

\* No alternative, however it is fuelled, is better for the strategy than the
\* one answered, where nothing is rounded (_selection_key).
THEOREM BestIsAnswered == PlanSpec => []BestAlternativeSelected
<1>1. PlannerInvariant => BestAlternativeSelected
  BY SelectedIsBest
<1> QED BY <1>1, PlannerInvariantHolds, PTL

\* A request is refused for its fuel only if no alternative can be driven at the
\* prices the policy admits (build_route_plan).
THEOREM RefusalsAreRight == PlanSpec => []RefusedOnlyIfNoneDrivable
<1>1. PlannerInvariant => RefusedOnlyIfNoneDrivable
  BY RefusalIsRight
<1> QED BY <1>1, PlannerInvariantHolds, PTL

--------------------------------------------------------------------------------
(* The first API's planner                                                    *)

\* What the optimizer refuses is not covered, or has no station to price the
\* start at.
RefusedIfUncovered == progress = "refused" => ~RoadCovered \/ ReferenceStations = {}

LEMMA RoadBegins ==
    ASSUME distance \in Nat, InOrder(stations, distance), progress = "planning",
           stops = <<>>, at = 0, fuel = 0, bought = <<>>
    PROVE  RoadInvariant /\ RefusedIfUncovered
<1>1. bought \in Seq(Int) /\ fuel \in Int /\ at \in 0..Len(stops)
  OBVIOUS
<1> QED BY <1>1 DEF RoadInvariant, StopsAreOrdered, TankLasts, ValidatedRoutesAreDriven,
                    RefusedIfUncovered

LEMMA NextKeepsRoad ==
    ASSUME RoadInvariant, RefusedIfUncovered, RoadNext
    PROVE  /\ RoadInvariant' /\ RefusedIfUncovered'
           /\ distance' = distance /\ stations' = stations
<1>1. RoadInvariant'
  BY ValidateKeepsRoad, FillKeepsRoad, DriveKeepsRoad, ArriveKeepsRoad DEF RoadNext
<1>2. distance' = distance /\ stations' = stations
  BY DEF RoadNext, ValidateRoad, FillAtOrigin, DriveRoad, ArriveOnRoad
<1>3. progress' = "refused" => ~RoadCovered \/ ReferenceStations = {}
  BY DEF RoadNext, ValidateRoad, FillAtOrigin, DriveRoad, ArriveOnRoad
<1>4. (RoadCovered' <=> RoadCovered) /\ ReferenceStations' = ReferenceStations
  BY <1>2 DEF RoadCovered, ReferenceStations
<1> QED BY <1>1, <1>2, <1>3, <1>4 DEF RefusedIfUncovered

\* Where every unit of the road beyond a full tank is covered by a station, no
\* leg is longer than one.
LEMMA NoLegTooLong ==
    ASSUME distance \in Nat, InOrder(stations, distance), stations # <<>>,
           \A u \in (Capacity + 1)..distance : \E j \in DOMAIN stations : Covers(stations, j, u)
    PROVE  /\ stations[1].at <= Capacity
           /\ \A i \in DOMAIN stations :
                 (IF i = Len(stations) THEN distance ELSE stations[i + 1].at)
                    - stations[i].at <= Capacity
<1> DEFINE n == Len(stations)
<1>1. /\ n \in Nat \ {0} /\ DOMAIN stations = 1..n /\ Capacity \in Nat
      /\ \A i \in 1..n : stations[i].at \in Int /\ 0 < stations[i].at /\ stations[i].at < distance
      /\ \A i, j \in 1..n : i <= j => stations[i].at <= stations[j].at
  <2>1. stations \in Seq(Candidate)
    BY DEF InOrder
  <2>2. n \in Nat \ {0} /\ DOMAIN stations = 1..n
    BY <2>1
  <2>3. \A i \in 1..n : stations[i].at \in Int /\ 0 < stations[i].at /\ stations[i].at < distance
    BY <2>1, <2>2, CandidateFields DEF InOrder
  <2>4. ASSUME NEW i \in 1..n, NEW j \in 1..n, i <= j PROVE stations[i].at <= stations[j].at
    <3>1. CASE i = j
      BY <2>3, <3>1
    <3>2. CASE i # j
      <4>1. i < j
        BY <2>4, <3>2
      <4>2. stations[i] \in Candidate /\ stations[j] \in Candidate /\ Before(stations[i], stations[j])
        BY <2>1, <2>2, <4>1, CandidateFields DEF InOrder
      <4> QED BY <4>2, BeforeOrders
    <3> QED BY <3>1, <3>2
  <2> QED BY <2>2, <2>3, <2>4, TankAssumption
<1>2. \A u \in Int : Capacity < u /\ u <= distance =>
         \E j \in 1..n : stations[j].at < u /\ u <= stations[j].at + Capacity
  <2> SUFFICES ASSUME NEW u \in Int, Capacity < u, u <= distance
               PROVE  \E j \in 1..n : stations[j].at < u /\ u <= stations[j].at + Capacity
    OBVIOUS
  <2>1. u \in (Capacity + 1)..distance
    BY <1>1
  <2> QED BY <1>1, <2>1 DEF Covers
<1> HIDE DEF n
<1>3. stations[1].at <= Capacity
  <2> SUFFICES ASSUME ~(stations[1].at <= Capacity) PROVE FALSE
    OBVIOUS
  <2>1. 1 \in 1..n /\ stations[1].at \in Int /\ stations[1].at < distance
    BY <1>1
  <2>2. Capacity + 1 \in Int /\ Capacity < Capacity + 1 /\ Capacity + 1 <= distance
    BY <1>1, <2>1
  <2>3. PICK j \in 1..n : stations[j].at < Capacity + 1
    BY <1>2, <2>2
  <2>4. stations[1].at <= stations[j].at /\ stations[j].at \in Int
    BY <1>1, <2>1
  <2> QED BY <1>1, <2>1, <2>3, <2>4
<1>4. ASSUME NEW i \in 1..n
      PROVE  (IF i = n THEN distance ELSE stations[i + 1].at) - stations[i].at <= Capacity
  <2> DEFINE next == IF i = n THEN distance ELSE stations[i + 1].at
             here == stations[i].at
             u == here + Capacity + 1
  <2>1. next \in Int /\ next <= distance /\ here \in Int /\ 0 < here
    <3>1. i # n => i + 1 \in 1..n
      BY <1>1
    <3> QED BY <1>1, <3>1
  <2>2. ASSUME NEW k \in 1..n PROVE ~(stations[k].at < u /\ u <= stations[k].at + Capacity /\ u <= next)
    <3>1. stations[k].at \in Int /\ k \in Int /\ i \in Int
      BY <1>1
    <3>2. CASE k <= i
      <4>1. stations[k].at <= here
        BY <1>1, <3>2
      <4> HIDE DEF here, next
      <4> QED BY <1>1, <2>1, <3>1, <4>1
    <3>3. CASE ~(k <= i)
      <4>1. i # n /\ i + 1 \in 1..n /\ i + 1 <= k
        BY <1>1, <3>1, <3>3
      <4>2. next <= stations[k].at
        BY <1>1, <4>1
      <4> HIDE DEF here, next
      <4> QED BY <1>1, <2>1, <3>1, <4>2
    <3> QED BY <3>2, <3>3
  <2> SUFFICES ASSUME next - here > Capacity PROVE FALSE
    <3> HIDE DEF next, here
    <3> QED BY <1>1, <2>1 DEF next, here
  <2>3. u \in Int /\ Capacity < u /\ u <= next /\ u <= distance
    <3> HIDE DEF next, here
    <3> QED BY <1>1, <2>1
  <2> HIDE DEF u, next
  <2> QED BY <1>2, <2>2, <2>3
<1>5. \A i \in DOMAIN stations :
         (IF i = n THEN distance ELSE stations[i + 1].at) - stations[i].at <= Capacity
  BY <1>1, <1>4
<1> QED BY <1>3, <1>5 DEF n

\* Such a road is neither refused nor left on the way.
LEMMA RoadIsDriven ==
    ASSUME RoadInvariant, RefusedIfUncovered, stations # <<>>,
           \A u \in (Capacity + 1)..distance : \E j \in DOMAIN stations : Covers(stations, j, u)
    PROVE  progress \notin {"refused", "stuck"}
<1> DEFINE n == Len(stations)
           Gap(i) == (IF i = n THEN distance ELSE stations[i + 1].at) - stations[i].at
<1>1. distance \in Nat /\ InOrder(stations, distance)
  BY DEF RoadInvariant, StopsAreOrdered
<1>2. /\ stations[1].at <= Capacity
      /\ \A i \in DOMAIN stations : Gap(i) <= Capacity
  BY <1>1, NoLegTooLong
<1>3. /\ stations \in Seq(Candidate) /\ n \in Nat \ {0} /\ DOMAIN stations = 1..n
      /\ 1 \in DOMAIN stations
      /\ \A i \in DOMAIN stations : stations[i].at \in Int
      /\ Capacity \in Nat /\ Near \in Nat
  <2>1. stations \in Seq(Candidate)
    BY <1>1 DEF InOrder
  <2> QED BY <2>1, CandidateFields, TankAssumption
<1>4. \A i \in DOMAIN stations : Gap(i) \in Int
  <2> SUFFICES ASSUME NEW i \in DOMAIN stations PROVE Gap(i) \in Int
    OBVIOUS
  <2>1. i # n => i + 1 \in DOMAIN stations
    BY <1>3
  <2> QED BY <1>1, <1>3, <2>1
<1>5. RoadCovered
  <2>1. stations[1].at <= Capacity + Near
    BY <1>2, <1>3
  <2>2. ASSUME NEW i \in DOMAIN stations PROVE Gap(i) <= Capacity + Near
    <3>1. Gap(i) \in Int /\ Gap(i) <= Capacity
      BY <1>2, <1>4
    <3> HIDE DEF Gap
    <3> QED BY <1>3, <3>1
  <2> QED BY <2>1, <2>2 DEF RoadCovered
<1>6. ReferenceStations # {}
  <2>1. 1 \in {i \in DOMAIN stations : stations[i].at <= Capacity}
    BY <1>2, <1>3
  <2> QED BY <2>1 DEF ReferenceStations
<1>7. progress # "refused"
  BY <1>5, <1>6 DEF RefusedIfUncovered
<1>8. ASSUME progress = "stuck" PROVE FALSE
  <2>1. ~LegsFit
    BY <1>8 DEF RoadInvariant, ValidatedRoutesAreDriven
  <2>2. PICK i \in DOMAIN stops : ~(Leg(i) <= Capacity)
    BY <2>1 DEF LegsFit
  <2>3. /\ Len(stops) = n + 1 /\ stops[1].at = 0 /\ DOMAIN stops = 1..(n + 1)
        /\ \A k \in DOMAIN stations : stops[k + 1] = stations[k]
    BY <1>3, <1>8 DEF RoadInvariant, StopsAreOrdered
  <2>4. i \in 1..(n + 1)
    BY <2>3
  <2>5. CASE i = 1
    <3>1. i # Len(stops) /\ i + 1 = 2 /\ stops[1 + 1] = stations[1]
      BY <1>3, <2>3, <2>5
    <3>2. Leg(i) = stations[1].at - 0
      BY <2>3, <2>5, <3>1 DEF Leg
    <3> QED BY <1>2, <1>3, <2>2, <3>2
  <2>6. CASE i # 1
    <3> DEFINE k == i - 1
    <3>1. k \in 1..n /\ k + 1 = i /\ (k = n <=> i = Len(stops))
      BY <1>3, <2>3, <2>4, <2>6
    <3>2. k \in DOMAIN stations /\ stops[k + 1] = stations[k]
      BY <1>3, <2>3, <3>1
    <3>3. k # n => k + 1 \in DOMAIN stations /\ stops[(k + 1) + 1] = stations[k + 1]
      BY <1>3, <2>3, <3>1
    <3> HIDE DEF k, n
    <3>4. Leg(i) = Gap(k)
      BY <3>1, <3>2, <3>3 DEF Leg
    <3>5. Gap(k) <= Capacity
      BY <1>2, <3>2
    <3> QED BY <2>2, <3>4, <3>5
  <2> QED BY <2>5, <2>6
<1> QED BY <1>7, <1>8

\* An alternative of which RefusedOnlyIfUnreachable speaks cannot be driven.
Unreachable(road) ==
    LET all == AllStations(road)
    IN  all # <<>> /\ FarApart(all) => Plans(all, Capacity, road.distance) = {}

\* The optimizer is at work on this alternative of the first API.
OnRoad(road) == distance = road.distance /\ stations = Prepare(road.near, road.distance)

LEMMA RoadTyped ==
    ASSUME NEW road \in FirstAlternatives
    PROVE  /\ road.distance \in Nat /\ road.near \in SUBSET Candidate /\ IsFiniteSet(road.near)
           /\ InOrder(Prepare(road.near, road.distance), road.distance)
           /\ Prepare(road.near, road.distance) = Merged(AllStations(road))
           /\ AllStations(road) \in Seq(Candidate) /\ InTurn(AllStations(road))
<1> DEFINE S == {c \in road.near : 0 < c.at /\ c.at < road.distance}
<1>1. road.distance \in Nat /\ road.near \in SUBSET Candidate /\ IsFiniteSet(road.near)
  BY FirstPlannerAssumption
<1>2. InOrder(Prepare(road.near, road.distance), road.distance)
  BY <1>1, PreparedInOrder
<1>3. Prepare(road.near, road.distance) = Merged(AllStations(road))
  BY DEF Prepare, Merged, AllStations, FoldLeft, MapThenFoldSet
<1>4. S \in SUBSET Candidate /\ IsFiniteSet(S)
  BY <1>1, FS_Subset
<1> HIDE DEF S
<1>5. Sorted(S) \in Seq(S) /\ InTurn(Sorted(S))
  BY <1>4, SortedIsInTurn
<1>6. Sorted(S) \in Seq(Candidate)
  BY <1>4, <1>5
<1> QED BY <1>1, <1>2, <1>3, <1>5, <1>6 DEF AllStations, S

\* What the optimizer of the first API gives up on cannot be driven.
LEMMA GivenUpIsUnreachable ==
    ASSUME RoadInvariant, RefusedIfUncovered, progress \in {"refused", "stuck"},
           NEW road \in FirstAlternatives, OnRoad(road)
    PROVE  Unreachable(road)
<1> DEFINE all == AllStations(road)
<1>1. SUFFICES ASSUME all # <<>>, FarApart(all), NEW plan \in Plans(all, Capacity, road.distance)
               PROVE  FALSE
  BY DEF Unreachable
<1>2. /\ distance = road.distance /\ distance \in Nat /\ Capacity \in Nat
      /\ stations = Merged(all) /\ all \in Seq(Candidate) /\ InTurn(all)
  BY RoadTyped, TankAssumption DEF OnRoad
<1> HIDE DEF all
<1>3. /\ \E c : IsMerging(c, all, stations)
      /\ stations \in Seq(Candidate)
  BY <1>1, <1>2, MergingExists
<1>4. PICK c : IsMerging(c, all, stations)
  BY <1>3
<1>5. stations # <<>>
  <2>1. 1 \in DOMAIN all
    BY <1>1, <1>2
  <2>2. c[1] \in DOMAIN stations
    BY <1>2, <1>3, <1>4, <2>1, MergingFollows
  <2> QED BY <2>2
<1>6. plan \in Plans(all, Capacity, distance)
  BY <1>1, <1>2
<1>7. \A u \in (Capacity + 1)..distance : \E j \in DOMAIN stations : Covers(stations, j, u)
  BY <1>2, <1>3, <1>4, <1>6, MergedCovers
<1> QED BY <1>5, <1>7, RoadIsDriven

IsSequence(s) == \E S : s \in Seq(S)

LEMMA Appended ==
    ASSUME NEW s, IsSequence(s), NEW e
    PROVE  IsSequence(Append(s, e)) /\ Append(s, e) # <<>>
<1>1. PICK S : s \in Seq(S)
  BY DEF IsSequence
<1> DEFINE T == S \cup {e}
<1>2. s \in Seq(T) /\ e \in T
  BY <1>1
<1> HIDE DEF T
<1>3. Append(s, e) \in Seq(T) /\ Len(Append(s, e)) = Len(s) + 1 /\ Len(s) \in Nat
  BY <1>2
<1>4. Append(s, e) # <<>>
  BY <1>3
<1> QED BY <1>3, <1>4 DEF IsSequence

\* None of the first n alternatives can be driven.
NoneReached(alts, n) == \A k \in 1..n : Unreachable(alts[k])

\* What the planner knows of the alternatives tried so far.
FirstTries ==
    /\ routes \in Seq(FirstAlternatives) /\ tried \in 0..Len(routes)
    /\ IsSequence(evaluations)
    /\ progress # "idle" =>
          RoadInvariant /\ RefusedIfUncovered /\ tried # 0 /\ OnRoad(routes[tried])
    /\ evaluations = <<>> => NoneReached(routes, IF progress = "idle" THEN tried ELSE tried - 1)

\* It refuses when all are.
RefusesLast ==
    reply = Refused("fuel_plan_not_found") =>
        progress = "idle" /\ tried = Len(routes) /\ evaluations = <<>>

FirstInvariant == FirstTries /\ RefusesLast

LEMMA OtherReplies ==
    /\ Waiting # Refused("fuel_plan_not_found")
    /\ \A error \in ProviderErrors : Refused(error) # Refused("fuel_plan_not_found")
<1>1. Waiting.kind = "waiting" /\ \A e : Refused(e).kind = "refused" /\ Refused(e).error = e
  BY DEF Waiting, Refused
<1>2. \A error \in ProviderErrors : error # "fuel_plan_not_found"
  BY SelectionAssumption
<1> QED BY <1>1, <1>2

LEMMA FirstTyped ==
    ASSUME FirstTries
    PROVE  /\ tried \in Nat /\ tried <= Len(routes) /\ Len(routes) \in Nat
           /\ DOMAIN routes = 1..Len(routes)
           /\ \A i \in DOMAIN routes : routes[i] \in FirstAlternatives
           /\ tried # 0 => tried \in DOMAIN routes
<1>1. routes \in Seq(FirstAlternatives) /\ tried \in 0..Len(routes)
  BY DEF FirstTries
<1>2. Len(routes) \in Nat /\ DOMAIN routes = 1..Len(routes)
  BY <1>1
<1> QED BY <1>1, <1>2

LEMMA FirstTriesStay ==
    ASSUME FirstTries, UNCHANGED <<roadVars, routes, tried, evaluations>> PROVE FirstTries'
<1>1. /\ distance' = distance /\ stations' = stations /\ progress' = progress
      /\ routes' = routes /\ tried' = tried /\ evaluations' = evaluations
      /\ UNCHANGED roadVars
  BY DEF roadVars
<1>2. RoadInvariant => RoadInvariant'
  BY <1>1 DEF roadVars, RoadInvariant, StopsAreOrdered, InOrder, TankLasts,
              ValidatedRoutesAreDriven, LegsFit, Leg
<1>3. RefusedIfUncovered => RefusedIfUncovered'
  BY <1>1 DEF RefusedIfUncovered, RoadCovered, ReferenceStations
<1>4. OnRoad(routes[tried]) => OnRoad(routes[tried])'
  BY <1>1 DEF OnRoad
<1> QED BY <1>1, <1>2, <1>3, <1>4 DEF FirstTries

LEMMA FirstStays ==
    ASSUME FirstInvariant, UNCHANGED <<roadVars, firstVars>> PROVE FirstInvariant'
<1>1. UNCHANGED <<roadVars, routes, tried, evaluations>> /\ reply' = reply /\ progress' = progress
  BY DEF roadVars, firstVars
<1>2. FirstTries'
  BY <1>1, FirstTriesStay DEF FirstInvariant
<1> QED BY <1>1, <1>2 DEF FirstInvariant, RefusesLast

LEMMA FirstLocateKeeps ==
    ASSUME FirstInvariant, FirstLocate PROVE FirstInvariant'
<1>1. UNCHANGED <<roadVars, routes, tried, evaluations>>
  BY DEF FirstLocate
<1>2. FirstTries'
  BY <1>1, FirstTriesStay DEF FirstInvariant
<1>3. reply' = Waiting \/ \E error \in ProviderErrors : reply' = Refused(error)
  BY DEF FirstLocate
<1> QED BY <1>2, <1>3, OtherReplies DEF FirstInvariant, RefusesLast

LEMMA FirstAskKeeps ==
    ASSUME FirstInvariant, FirstAsk PROVE FirstInvariant'
<1>1. CASE \E error \in ProviderErrors : reply' = Refused(error) /\ UNCHANGED routes
  <2>1. UNCHANGED <<roadVars, routes, tried, evaluations>>
    BY <1>1 DEF FirstAsk
  <2>2. FirstTries'
    BY <2>1, FirstTriesStay DEF FirstInvariant
  <2> QED BY <1>1, <2>2, OtherReplies DEF FirstInvariant, RefusesLast
<1>2. CASE \E n \in 1..MaxAlternatives :
              routes' \in [1..n -> FirstAlternatives] /\ UNCHANGED reply
  <2>1. PICK n \in 1..MaxAlternatives :
            routes' \in [1..n -> FirstAlternatives] /\ reply' = reply
    BY <1>2
  <2>2. n \in Nat
    <3>1. MaxAlternatives \in Nat
      BY SelectionAssumption
    <3> QED BY <3>1
  <2>3. routes' \in Seq(FirstAlternatives) /\ 0 \in 0..Len(routes')
    BY <2>1, <2>2
  <2>4. FirstTries /\ reply = Waiting /\ routes = <<>> /\ UNCHANGED <<roadVars, tried, evaluations>>
    BY DEF FirstInvariant, FirstAsk
  <2>5. tried = 0
    BY <2>4, FirstTyped
  <2>6. progress = "idle"
    BY <2>4, <2>5 DEF FirstTries
  <2>7. progress' = "idle" /\ tried' = 0 /\ evaluations' = evaluations /\ reply' = Waiting
    BY <2>1, <2>4, <2>5, <2>6 DEF roadVars
  <2>8. 1..0 = {}
    OBVIOUS
  <2>9. FirstTries'
    BY <2>3, <2>4, <2>7, <2>8 DEF FirstTries, NoneReached
  <2> QED BY <2>7, <2>9, OtherReplies DEF FirstInvariant, RefusesLast
<1> QED BY <1>1, <1>2 DEF FirstAsk

LEMMA FirstBeginKeeps ==
    ASSUME FirstInvariant, FirstBegin PROVE FirstInvariant'
<1> DEFINE n == tried + 1
           road == routes[n]
<1>1. /\ FirstTries /\ reply = Waiting /\ progress = "idle" /\ tried < Len(routes)
      /\ distance' = road.distance /\ stations' = Prepare(road.near, road.distance)
      /\ stops' = <<>> /\ at' = 0 /\ fuel' = 0 /\ bought' = <<>> /\ progress' = "planning"
      /\ tried' = n /\ routes' = routes /\ evaluations' = evaluations /\ reply' = reply
  BY DEF FirstInvariant, FirstBegin
<1>2. n \in DOMAIN routes /\ n \in 0..Len(routes) /\ n # 0 /\ n - 1 = tried
  BY <1>1, FirstTyped
<1>3. road \in FirstAlternatives
  BY <1>1, <1>2, FirstTyped
<1> HIDE DEF n, road
<1>4. InOrder(stations', distance') /\ distance' \in Nat
  BY <1>1, <1>3, RoadTyped
<1>5. RoadInvariant' /\ RefusedIfUncovered'
  <2>1. (/\ distance \in Nat /\ InOrder(stations, distance) /\ progress = "planning"
         /\ stops = <<>> /\ at = 0 /\ fuel = 0 /\ bought = <<>>
         => RoadInvariant /\ RefusedIfUncovered)'
    BY RoadBegins, PTL
  <2>2. (/\ distance \in Nat /\ InOrder(stations, distance) /\ progress = "planning"
         /\ stops = <<>> /\ at = 0 /\ fuel = 0 /\ bought = <<>>)'
    BY <1>1, <1>4
  <2> QED BY <2>1, <2>2
<1>6. OnRoad(routes[tried])'
  BY <1>1 DEF OnRoad, road
<1>7. evaluations = <<>> => NoneReached(routes, tried)
  BY <1>1 DEF FirstTries
<1>8. FirstTries'
  BY <1>1, <1>2, <1>5, <1>6, <1>7 DEF FirstTries
<1> QED BY <1>1, <1>8, OtherReplies DEF FirstInvariant, RefusesLast

LEMMA FirstOptimizeKeeps ==
    ASSUME FirstInvariant, FirstOptimize PROVE FirstInvariant'
<1>1. /\ FirstTries /\ RoadNext /\ routes' = routes /\ tried' = tried
      /\ evaluations' = evaluations /\ reply' = reply
  BY DEF FirstInvariant, FirstOptimize, firstVars
<1>2. progress \in {"planning", "driving"}
  BY <1>1 DEF RoadNext, ValidateRoad, FillAtOrigin, DriveRoad, ArriveOnRoad
<1>3. RoadInvariant /\ RefusedIfUncovered /\ tried # 0 /\ OnRoad(routes[tried])
  BY <1>1, <1>2 DEF FirstTries
<1>4. RoadInvariant' /\ RefusedIfUncovered' /\ distance' = distance /\ stations' = stations
  BY <1>1, <1>3, NextKeepsRoad
<1>5. progress' # "idle"
  BY <1>4 DEF RoadInvariant
<1>6. OnRoad(routes[tried])'
  BY <1>1, <1>3, <1>4 DEF OnRoad
<1>7. FirstTries'
  BY <1>1, <1>2, <1>3, <1>4, <1>5, <1>6 DEF FirstTries
<1> QED BY <1>1, <1>2, <1>7 DEF FirstInvariant, RefusesLast

LEMMA FirstCollectKeeps ==
    ASSUME FirstInvariant, FirstCollect PROVE FirstInvariant'
<1>1. /\ FirstTries /\ reply = Waiting /\ progress \in {"planned", "refused", "stuck"}
      /\ evaluations' = IF progress = "planned" THEN Append(evaluations, FirstEvaluation)
                        ELSE evaluations
      /\ progress' = "idle" /\ routes' = routes /\ tried' = tried /\ reply' = reply
  BY DEF FirstInvariant, FirstCollect
<1>2. /\ RoadInvariant /\ RefusedIfUncovered /\ tried # 0 /\ OnRoad(routes[tried])
      /\ IsSequence(evaluations) /\ routes \in Seq(FirstAlternatives) /\ tried \in 0..Len(routes)
      /\ evaluations = <<>> => NoneReached(routes, tried - 1)
  BY <1>1 DEF FirstTries
<1>3. tried \in Nat /\ routes[tried] \in FirstAlternatives
  BY <1>1, <1>2, FirstTyped
<1>4. IsSequence(evaluations') /\ (evaluations' = <<>> => NoneReached(routes, tried))
  <2>1. CASE progress = "planned"
    BY <1>1, <1>2, <2>1, Appended
  <2>2. CASE progress # "planned"
    <3>1. progress \in {"refused", "stuck"} /\ evaluations' = evaluations
      BY <1>1, <2>2
    <3>2. Unreachable(routes[tried])
      BY <1>2, <1>3, <3>1, GivenUpIsUnreachable
    <3>3. \A k \in 1..tried : k \in 1..(tried - 1) \/ k = tried
      BY <1>3
    <3> QED BY <1>2, <3>1, <3>2, <3>3 DEF NoneReached
  <2> QED BY <2>1, <2>2
<1>5. FirstTries'
  BY <1>1, <1>2, <1>4 DEF FirstTries
<1> QED BY <1>1, <1>5, OtherReplies DEF FirstInvariant, RefusesLast

LEMMA FirstSelectKeeps ==
    ASSUME FirstInvariant, FirstSelect PROVE FirstInvariant'
<1>1. /\ FirstTries /\ progress = "idle" /\ tried = Len(routes)
      /\ UNCHANGED <<roadVars, routes, tried, evaluations>>
  BY DEF FirstInvariant, FirstSelect
<1>2. progress' = "idle" /\ tried' = Len(routes') /\ evaluations' = evaluations
  BY <1>1 DEF roadVars
<1>3. FirstTries'
  BY <1>1, FirstTriesStay
<1>4. CASE evaluations # <<>>
  <2>1. \E e : reply' = FirstPayload(e)
    BY <1>4 DEF FirstSelect
  <2>2. reply'.kind = "plan" /\ Refused("fuel_plan_not_found").kind = "refused"
    BY <2>1 DEF FirstPayload, Refused
  <2> QED BY <1>3, <2>2 DEF FirstInvariant, RefusesLast
<1>5. CASE evaluations = <<>>
  BY <1>2, <1>3, <1>5 DEF FirstInvariant, RefusesLast
<1> QED BY <1>4, <1>5

LEMMA FirstBegins == FirstInit => FirstInvariant
<1> SUFFICES ASSUME FirstInit PROVE FirstInvariant
  OBVIOUS
<1>1. /\ routes = <<>> /\ tried = 0 /\ evaluations = <<>> /\ reply = Waiting /\ progress = "idle"
      /\ <<>> \in Seq(FirstAlternatives) /\ <<>> \in Seq({}) /\ 0 \in 0..Len(<<>>) /\ 1..0 = {}
  BY DEF FirstInit
<1>2. IsSequence(evaluations)
  BY <1>1 DEF IsSequence
<1> QED BY <1>1, <1>2, OtherReplies DEF FirstInvariant, FirstTries, RefusesLast, NoneReached

\* A request of the first API is refused for its fuel only if no alternative
\* can be driven from a full tank: one the optimizer gives up on hides none of
\* the others, and merging stations at one place and dropping small purchases
\* lose no route (build_route_plan).
THEOREM UnreachableIsRefused == FirstSpec => []RefusedOnlyIfUnreachable
<1>1. FirstInvariant /\ [FirstNext]_<<roadVars, firstVars>> => FirstInvariant'
  BY FirstLocateKeeps, FirstAskKeeps, FirstBeginKeeps, FirstOptimizeKeeps, FirstCollectKeeps,
     FirstSelectKeeps, FirstStays DEF FirstNext
<1>2. FirstInvariant => RefusedOnlyIfUnreachable
  <2> SUFFICES ASSUME FirstInvariant, reply = Refused("fuel_plan_not_found"), NEW i \in DOMAIN routes
               PROVE  Unreachable(routes[i])
    BY DEF RefusedOnlyIfUnreachable, Unreachable
  <2>1. FirstTries /\ progress = "idle" /\ tried = Len(routes) /\ evaluations = <<>>
    BY DEF FirstInvariant, RefusesLast
  <2>2. i \in 1..tried
    BY <2>1, FirstTyped
  <2> QED BY <2>1, <2>2 DEF FirstTries, NoneReached
<1> QED BY <1>1, <1>2, FirstBegins, PTL DEF FirstSpec

================================================================================
