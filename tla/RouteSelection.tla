---------------------------- MODULE RouteSelection -----------------------------
(***************************************************************************)
(* What the two planners share: what they keep of a request, and the choice *)
(* among the alternatives for which a fuel plan was found.  An evaluation   *)
(* is [alternative, distance, duration, cost, stops, score].                *)
(***************************************************************************)
EXTENDS Integers, Sequences

CONSTANTS
    TimeValue,  \* of an hour
    StopPenalty,
    Cent,       \* what scores are rounded to
    MaxAlternatives,
    ProviderErrors  \* what geocoding or routing may raise

ASSUME SelectionAssumption ==
    /\ {TimeValue, StopPenalty, MaxAlternatives} \subseteq Nat /\ Cent \in Nat \ {0}
    /\ ProviderErrors \cap {"fuel_plan_not_found", "insufficient_price_data"} = {}

VARIABLES
    located,     \* locations geocoded
    routes,      \* the alternatives
    tried,       \* alternatives begun
    evaluations

Waiting == [kind |-> "waiting"]
Refused(error) == [kind |-> "refused", error |-> error]

\* The score before rounding.
Score(cost, duration, stops) == cost + duration * TimeValue + stops * StopPenalty

\* _money: half up.
Money(value) == ((2 * value + Cent) \div (2 * Cent)) * Cent

\* Mutant: the cheapest is chosen whatever the strategy.
CostFirst(strategy, e) == <<e.cost, e.duration, e.distance>>

\* _selection_key
Key(strategy, e) ==
    CASE strategy = "fastest" -> <<e.duration, e.cost, e.distance>>
      [] strategy = "cheapest_estimated" -> <<e.cost, e.duration, e.distance>>
      [] OTHER -> <<e.score, e.cost, e.duration>>

Smaller(k, l) ==
    \E i \in 1..3 : k[i] < l[i] /\ \A j \in 1..(i - 1) : k[j] = l[j]

\* min(): the first of the least.
Selected(strategy, evals) ==
    CHOOSE i \in DOMAIN evals :
        \A j \in DOMAIN evals :
            LET k == Key(strategy, evals[i])
                l == Key(strategy, evals[j])
            IN  ~Smaller(l, k) /\ (j < i => Smaller(k, l))

================================================================================
