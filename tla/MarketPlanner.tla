----------------------------- MODULE MarketPlanner -----------------------------
(***************************************************************************)
(* A request of the second API from its locations to the selected           *)
(* alternative (routes/application/market_planner.py), with the optimizer's *)
(* own steps for each alternative.  A candidate's id says what its price    *)
(* is: Reported holds the ids of prices reported for the station itself.    *)
(* The payload is abstracted to the selected evaluation, the comparisons    *)
(* and the counts of data_quality.                                          *)
(***************************************************************************)
EXTENDS VehicleOptimizer, RouteSelection

CONSTANTS
    Alternatives,    \* [distance, duration, near]: what routing may answer
    Starts,          \* fuel requests start with
    Reported,
    Requests         \* [strategy, reported_only, elsewhere, locations]

ASSUME PlannerAssumption ==
    /\ Alternatives \subseteq [distance: Nat, duration: Nat, near: SUBSET Candidate]
    /\ \A route \in Alternatives : IsFiniteSet(route.near)
    /\ Starts \subseteq 0..Capacity

VARIABLES request, answer

planVars == <<request, located, routes, tried, evaluations, answer>>

\* _stations_for_quality, for the candidates the optimizer then prepares.
Usable(near, length) ==
    Prepare({c \in near : request.reported_only => c.id \in Reported}, length)

\* The stations of the catalogue that the policy admits are near some
\* alternative, or elsewhere.
NoStations ==
    /\ ~request.elsewhere
    /\ \A i \in DOMAIN routes :
          \A c \in routes[i].near : request.reported_only /\ c.id \notin Reported

Purchases == {i \in DOMAIN bought : bought[i] > 0}

\* What _evaluate_route makes of the optimizer's plan.
Evaluation ==
    LET cost == Cost(bought, stations)
        duration == routes[tried].duration
    IN  [alternative |-> tried, distance |-> distance, duration |-> duration,
         cost |-> cost, stops |-> Cardinality(Purchases),
         score |-> Money(Score(cost, duration, Cardinality(Purchases))),
         reported |-> Cardinality({i \in Purchases : stations[i].id \in Reported})]

\* _serialize_plan
Payload(selected) ==
    [kind |-> "plan", selected |-> selected, comparisons |-> evaluations,
     evaluated |-> Len(routes)]

--------------------------------------------------------------------------------
PlanInit ==
    /\ request \in Requests
    /\ start \in Starts
    /\ located = 0 /\ routes = <<>> /\ tried = 0 /\ evaluations = <<>>
    /\ answer = Waiting
    /\ distance = 0 /\ stations = <<>> /\ at = 0 /\ fuel = start /\ bought = <<>>
    /\ outcome = "idle"

\* geocode, one location after the other; the first error ends the request.
Locate ==
    /\ answer = Waiting /\ located < request.locations
    /\ \/ located' = located + 1 /\ UNCHANGED answer
       \/ \E error \in ProviderErrors : answer' = Refused(error) /\ UNCHANGED located
    /\ UNCHANGED <<vars, request, routes, tried, evaluations>>

\* routes_through: alternatives are asked for between two locations only.
AskRoutes ==
    /\ answer = Waiting /\ located = request.locations /\ routes = <<>>
    /\ \/ \E n \in 1..(IF located = 2 THEN MaxAlternatives ELSE 1) :
             routes' \in [1..n -> Alternatives] /\ UNCHANGED answer
       \/ \E error \in ProviderErrors : answer' = Refused(error) /\ UNCHANGED routes
    /\ UNCHANGED <<vars, request, located, tried, evaluations>>

\* _evaluate_route begins with the next alternative.
Begin ==
    /\ answer = Waiting /\ outcome = "idle" /\ tried < Len(routes)
    /\ LET route == routes[tried + 1]
       IN  /\ distance' = route.distance
           /\ stations' = Usable(route.near, route.distance)
    /\ at' = 0 /\ fuel' = start /\ bought' = <<>> /\ outcome' = "planning"
    /\ tried' = tried + 1
    /\ UNCHANGED <<start, request, located, routes, evaluations, answer>>

\* optimize_fuel_purchases
Optimize == Next /\ UNCHANGED planVars

\* Mutant: the first alternative that cannot be driven ends the request.
GivesUp ==
    /\ answer = Waiting /\ outcome \in {"planned", "refused", "stuck"}
    /\ IF outcome = "planned"
       THEN evaluations' = Append(evaluations, Evaluation) /\ UNCHANGED answer
       ELSE answer' = Refused("fuel_plan_not_found") /\ UNCHANGED evaluations
    /\ outcome' = "idle"
    /\ UNCHANGED <<distance, start, stations, at, fuel, bought,
                   request, located, routes, tried>>

\* The evaluation is kept, or the optimizer's FuelPlanNotFoundError noted.
Collect ==
    /\ answer = Waiting /\ outcome \in {"planned", "refused", "stuck"}
    /\ evaluations' = IF outcome = "planned" THEN Append(evaluations, Evaluation)
                      ELSE evaluations
    /\ outcome' = "idle"
    /\ UNCHANGED <<distance, start, stations, at, fuel, bought,
                   request, located, routes, tried, answer>>

\* The least of the evaluations, or why there is none.
Select ==
    /\ answer = Waiting /\ outcome = "idle"
    /\ routes # <<>> /\ tried = Len(routes)
    /\ answer' =
          IF evaluations # <<>>
          THEN Payload(evaluations[Selected(request.strategy, evaluations)])
          ELSE Refused(IF NoStations THEN "insufficient_price_data"
                       ELSE "fuel_plan_not_found")
    /\ UNCHANGED <<vars, request, located, routes, tried, evaluations>>

PlanNext == Locate \/ AskRoutes \/ Begin \/ Optimize \/ Collect \/ Select

PlanSpec == PlanInit /\ [][PlanNext]_<<vars, planVars>>

--------------------------------------------------------------------------------
(* Properties *)

\* Every way of driving an alternative that buys only at the prices the
\* policy admits, with every station as a stop of its own.
Ways(route) ==
    LET admitted == {c \in route.near :
                        /\ request.reported_only => c.id \in Reported
                        /\ 0 < c.at /\ c.at < route.distance}
        all == Sorted(admitted)
    IN  {[cost |-> Cost(plan, all),
          stops |-> Cardinality({i \in DOMAIN plan : plan[i] > 0})] :
            plan \in Plans(all, start, route.distance)}

Cheapest(route) == {w \in Ways(route) : \A v \in Ways(route) : w.cost <= v.cost}

\* A route on which the optimizer rounds nothing.
ExactRoute(route) == InWholeSteps({c.at : c \in route.near}, route.distance)

\* The answer is the best the request could have had, of any alternative and
\* any way of fuelling on it: nothing is cheaper, or nothing faster, or no
\* cheapest way of another alternative scores less even with its most stops.
BestAlternativeSelected ==
    answer.kind = "plan" =>
        \A i \in DOMAIN routes : ExactRoute(routes[i]) /\ Ways(routes[i]) # {} =>
            LET best == answer.selected
                cheapest == CHOOSE w \in Cheapest(routes[i]) :
                                \A v \in Cheapest(routes[i]) : v.stops <= w.stops
            IN  CASE request.strategy = "cheapest_estimated" -> best.cost <= cheapest.cost
                  [] request.strategy = "fastest" ->
                        \/ best.duration < routes[i].duration
                        \/ best.duration = routes[i].duration /\ best.cost <= cheapest.cost
                  [] OTHER -> best.score <= Money(Score(cheapest.cost, routes[i].duration,
                                                        cheapest.stops))

\* An alternative that cannot be driven never hides one that can: a request
\* is refused for its fuel only when no alternative can be driven on the
\* prices the policy admits.
RefusedOnlyIfNoneDrivable ==
    answer \in {Refused("fuel_plan_not_found"), Refused("insufficient_price_data")} =>
        \A i \in DOMAIN routes : ExactRoute(routes[i]) => Ways(routes[i]) = {}

================================================================================
