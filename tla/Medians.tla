-------------------------------- MODULE Medians --------------------------------
(***************************************************************************)
(* The median of some rows' prices and the tolerance around it, as the     *)
(* outlier check (observation_validation.py) and the consensus of reports   *)
(* (price_resolver.py) compute them.  Prices are integers in minor units;   *)
(* a median is kept doubled, so that the mean of two prices stays integral. *)
(***************************************************************************)
EXTENDS Integers, FiniteSets

\* The k-th smallest of the prices view[o].price, o \in S (ties counted).
OrderStatistic(view, S, k) ==
    CHOOSE x \in {view[o].price : o \in S} :
        /\ Cardinality({o \in S : view[o].price < x}) < k
        /\ k <= Cardinality({o \in S : view[o].price <= x})

TwiceMedian(view, S) ==
    LET half == Cardinality(S) \div 2
    IN  IF Cardinality(S) % 2 = 1
        THEN 2 * OrderStatistic(view, S, half + 1)
        ELSE OrderStatistic(view, S, half) + OrderStatistic(view, S, half + 1)

Distance(a, b) == IF a >= b THEN a - b ELSE b - a

Greater(a, b) == IF a >= b THEN a ELSE b

\* |price - middle| > max(absolute, middle * percent / 100), scaled by 200.
Beyond(price, twiceMiddle, absolute, percent) ==
    100 * Distance(2 * price, twiceMiddle) >
        Greater(200 * absolute, percent * twiceMiddle)

================================================================================
