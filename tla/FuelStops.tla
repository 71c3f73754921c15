------------------------------- MODULE FuelStops -------------------------------
(***************************************************************************)
(* What the two fuel optimizers share: the order of the candidate stations, *)
(* the merging of stations at one place, the choice of how far to buy, and  *)
(* the plans a driver could follow instead, as a reference.                 *)
(*                                                                          *)
(* Fuel is measured by the distance it lasts, so that the vehicle's         *)
(* efficiency is one.  A candidate is [at, price, off, id]: its place on    *)
(* the route, unit price, distance to the route and identifier.             *)
(***************************************************************************)
EXTENDS Integers, SequencesExt, FiniteSetsExt

CONSTANTS
    Capacity,  \* what the tank holds above the reserve, as a range
    Near,      \* POSITION_EPSILON
    Step       \* of the volumes a plan is compared with

ASSUME TankAssumption == Capacity \in Nat /\ {Near, Step} \subseteq Nat \ {0}

\* Both loops drive from stop to stop and decide at each what to buy.
VARIABLES
    distance, \* of the route
    stations, \* the candidates kept
    at,       \* stops passed
    fuel,     \* what the loop believes is in the tank
    bought    \* volume bought at each stop passed

Candidate == [at: Int, price: Nat, off: Int, id: Int]

Before(a, b) ==
    \/ a.at < b.at
    \/ a.at = b.at /\ a.price < b.price
    \/ a.at = b.at /\ a.price = b.price /\ a.off < b.off
    \/ a.at = b.at /\ a.price = b.price /\ a.off = b.off /\ a.id < b.id

\* _station_rank
Better(a, b) ==
    \/ a.price < b.price
    \/ a.price = b.price /\ a.off < b.off
    \/ a.price = b.price /\ a.off = b.off /\ a.at < b.at
    \/ a.price = b.price /\ a.off = b.off /\ a.at = b.at /\ a.id < b.id

\* A candidate next to the last one kept replaces it if it ranks better.
Keep(kept, c) ==
    IF kept # <<>> /\ c.at - Last(kept).at < Near
    THEN IF Better(c, Last(kept)) THEN ReplaceAt(kept, Len(kept), c) ELSE kept
    ELSE Append(kept, c)

\* sorted()
Sorted(candidates) ==
    CHOOSE s \in SetToSeqs(candidates) :
        \A i, j \in DOMAIN s : i < j => Before(s[i], s[j])

\* _prepare_candidates: strictly between the ends, in order, merged.
Prepare(candidates, far) ==
    FoldLeft(Keep, <<>>, Sorted({c \in candidates : 0 < c.at /\ c.at < far}))

\* What the loops rely on.
InOrder(stops, far) ==
    /\ stops \in Seq(Candidate)
    /\ \A i \in DOMAIN stops : 0 < stops[i].at /\ stops[i].at < far
    /\ \A i, j \in DOMAIN stops : i < j => Before(stops[i], stops[j])

\* The first cheaper station among the next ones a full tank reaches, or
\* nothing (0).
FirstCheaper(place, price, next) ==
    LET cheaper == {i \in DOMAIN next : /\ next[i].at - place <= Capacity
                                        /\ next[i].price < price}
    IN  IF cheaper = {} THEN 0 ELSE next[Min(cheaper)].at

\* The last station of the same price a full tank reaches, or nothing.
LastEqual(place, price, next) ==
    LET equal == {i \in DOMAIN next : /\ next[i].at - place <= Capacity
                                      /\ next[i].price = price}
    IN  IF equal = {} THEN 0 ELSE next[Max(equal)].at

--------------------------------------------------------------------------------
(* The reference: every way of buying fuel in whole steps.                    *)

\* Of a plan, the fuel bought at the first i stops.
SumUpTo(f, i) == MapThenSumSet(LAMBDA j : f[j], 1..i)

\* With the fuel it starts with, a plan reaches every stop and the end, and
\* never overfills the tank.
Feasible(plan, stops, start, far) ==
    /\ \A i \in DOMAIN stops :
          LET arrival == start + SumUpTo(plan, i - 1) - stops[i].at
          IN  arrival >= 0 /\ arrival + plan[i] <= Capacity
    /\ start + SumUpTo(plan, Len(stops)) >= far

Plans(stops, start, far) ==
    {plan \in [DOMAIN stops -> {Step * k : k \in 0..(Capacity \div Step)}] :
        Feasible(plan, stops, start, far)}

Cost(plan, stops) ==
    SumUpTo([j \in DOMAIN stops |-> plan[j] * stops[j].price], Len(stops))

================================================================================
