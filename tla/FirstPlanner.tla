------------------------------ MODULE FirstPlanner -----------------------------
(***************************************************************************)
(* A request of the first API from its alternatives to the selected one     *)
(* (routes/application/planner.py), with its optimizer's own steps.  Its    *)
(* plan starts on an empty tank and pays for the fuel it starts with.       *)
(***************************************************************************)
EXTENDS FuelOptimizer, RouteSelection

CONSTANT FirstAlternatives  \* [distance, duration, near]: what routing may reply

ASSUME FirstPlannerAssumption ==
    /\ FirstAlternatives \subseteq [distance: Nat, duration: Nat, near: SUBSET Candidate]
    /\ \A route \in FirstAlternatives : IsFiniteSet(route.near)

VARIABLE reply

firstVars == <<located, routes, tried, evaluations, reply>>

\* What _evaluate_route makes of the optimizer's plan: the fuel of the start
\* costs but is no stop, and the score is not rounded.
FirstEvaluation ==
    LET cost == Cost(bought, stops)
        duration == routes[tried].duration
        count == Cardinality({i \in DOMAIN bought : i > 1 /\ bought[i] > 0})
    IN  [alternative |-> tried, distance |-> distance, duration |-> duration,
         cost |-> cost, stops |-> count, score |-> Score(cost, duration, count)]

\* _serialize_plan
FirstPayload(selected) ==
    [kind |-> "plan", selected |-> selected, evaluated |-> Len(routes),
     feasible |-> Len(evaluations)]

--------------------------------------------------------------------------------
FirstInit ==
    /\ located = 0 /\ routes = <<>> /\ tried = 0 /\ evaluations = <<>>
    /\ reply = Waiting
    /\ distance = 0 /\ stations = <<>> /\ stops = <<>>
    /\ at = 0 /\ fuel = 0 /\ bought = <<>>
    /\ progress = "idle"

\* geocode start and finish, then routes.
FirstLocate ==
    /\ reply = Waiting /\ located < 2
    /\ \/ located' = located + 1 /\ UNCHANGED reply
       \/ \E error \in ProviderErrors : reply' = Refused(error) /\ UNCHANGED located
    /\ UNCHANGED <<roadVars, routes, tried, evaluations>>

FirstAsk ==
    /\ reply = Waiting /\ located = 2 /\ routes = <<>>
    /\ \/ \E n \in 1..MaxAlternatives :
             routes' \in [1..n -> FirstAlternatives] /\ UNCHANGED reply
       \/ \E error \in ProviderErrors : reply' = Refused(error) /\ UNCHANGED routes
    /\ UNCHANGED <<roadVars, located, tried, evaluations>>

\* _evaluate_route begins with the next alternative.
FirstBegin ==
    /\ reply = Waiting /\ progress = "idle" /\ tried < Len(routes)
    /\ distance' = routes[tried + 1].distance
    /\ stations' = Prepare(routes[tried + 1].near, distance')
    /\ stops' = <<>> /\ at' = 0 /\ fuel' = 0 /\ bought' = <<>>
    /\ progress' = "planning"
    /\ tried' = tried + 1
    /\ UNCHANGED <<located, routes, evaluations, reply>>

\* optimize_fuel_purchases
FirstOptimize == RoadNext /\ UNCHANGED firstVars

\* Mutant: the alternatives after one that cannot be driven are not tried.
StopsTrying ==
    /\ reply = Waiting /\ progress \in {"planned", "refused", "stuck"}
    /\ IF progress = "planned"
       THEN evaluations' = Append(evaluations, FirstEvaluation) /\ UNCHANGED tried
       ELSE tried' = Len(routes) /\ UNCHANGED evaluations
    /\ progress' = "idle"
    /\ UNCHANGED <<distance, stations, stops, at, fuel, bought, located, routes, reply>>

FirstCollect ==
    /\ reply = Waiting /\ progress \in {"planned", "refused", "stuck"}
    /\ evaluations' = IF progress = "planned" THEN Append(evaluations, FirstEvaluation)
                      ELSE evaluations
    /\ progress' = "idle"
    /\ UNCHANGED <<distance, stations, stops, at, fuel, bought,
                   located, routes, tried, reply>>

\* The least score, or the first alternative's error.
FirstSelect ==
    /\ reply = Waiting /\ progress = "idle"
    /\ routes # <<>> /\ tried = Len(routes)
    /\ reply' =
          IF evaluations # <<>>
          THEN FirstPayload(evaluations[Selected("balanced", evaluations)])
          ELSE Refused("fuel_plan_not_found")
    /\ UNCHANGED <<roadVars, located, routes, tried, evaluations>>

FirstNext == FirstLocate \/ FirstAsk \/ FirstBegin \/ FirstOptimize \/ FirstCollect \/ FirstSelect

FirstSpec == FirstInit /\ [][FirstNext]_<<roadVars, firstVars>>

--------------------------------------------------------------------------------
(* Properties *)

\* Stations are at one place, or too far apart to be merged.
FarApart(s) ==
    \A i, j \in DOMAIN s : i < j => s[i].at = s[j].at \/ s[j].at - s[i].at >= Near

\* Every station strictly on the way of an alternative.
AllStations(route) == Sorted({c \in route.near : 0 < c.at /\ c.at < route.distance})

\* A request is refused for its fuel only when no alternative that has a
\* station (to price the start at) can be driven on a full tank and what is
\* bought on the way.  Merging different places lengthens a leg by up to Near
\* and may lose a route, so those routes are left out.
RefusedOnlyIfUnreachable ==
    reply = Refused("fuel_plan_not_found") =>
        \A i \in DOMAIN routes :
            LET all == AllStations(routes[i])
            IN  all # <<>> /\ FarApart(all) => Plans(all, Capacity, routes[i].distance) = {}

================================================================================
