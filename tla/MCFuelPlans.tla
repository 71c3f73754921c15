------------------------------ MODULE MCFuelPlans ------------------------------
(* From a route's geometry to the selected plan, each part in a setting of    *)
(* its own: the optimizers over every route of a few stations, where nothing  *)
(* is rounded and plans can be compared with every alternative, or with       *)
(* volumes to round and stations near each other; the planners over a few     *)
(* alternatives; and the projection of stations.                              *)
EXTENDS MarketPlanner, FirstPlanner, RouteGeometry

VARIABLE setting  \* which of the parts runs

onlyFirst == <<stops, progress, reply>>

AtMost(n, S) == UNION {kSubset(k, S) : k \in 0..n}

\* Routes in whole steps, and others.
WholeTrips ==
    [near: AtMost(4, [at: {8, 16, 24, 32}, price: 1..3, off: {0}, id: {1}]),
     distance: {16, 32, 40, 48}, start: {0, 8, 16, 24}]
RoundedTrips ==
    [near: AtMost(3, [at: {8, 10, 20, 22, 37}, price: 1..2, off: {0, 1}, id: {1}]),
     distance: {17, 32, 36, 46, 48}, start: {8, 9, 15, 23}]
AllTrips == WholeTrips \cup RoundedTrips

\* The first API's optimizer has gaps one short of, equal to and some beyond a
\* full tank, or routes in whole steps where purchases can be compared.
GapRoads ==
    [near: AtMost(4, [at: {2, 3, 10, 24, 25, 28, 34, 48, 54}, price: 1..2, off: {0}, id: {1}]),
     distance: {24, 25, 49, 51, 72, 76}]
CostRoads ==
    [near: AtMost(2, [at: {8, 16, 24, 32}, price: 1..3, off: {0}, id: {1}]),
     distance: {16, 32, 40, 48}]

\* At one place the reported price (id 1) is the dearer, at the other the
\* cheaper one.
Pairs(S, distances) == [near: AtMost(2, S), distance: distances, duration: {1, 2}]
MarketAlternatives ==
    Pairs({[at |-> 8, price |-> 1, off |-> 0, id |-> 2],
           [at |-> 8, price |-> 2, off |-> 0, id |-> 1],
           [at |-> 24, price |-> 1, off |-> 0, id |-> 1],
           [at |-> 24, price |-> 3, off |-> 0, id |-> 2]}, {24, 40})
MergedAlternatives ==
    Pairs([at: {8, 24, 28}, price: 1..2, off: {0}, id: {1}], {24, 40})

MarketRequests ==
    [strategy: {"fastest", "cheapest_estimated", "balanced"},
     reported_only: BOOLEAN, elsewhere: {FALSE}, locations: {2}]
    \cup [strategy: {"balanced"}, reported_only: {TRUE}, elsewhere: {TRUE}, locations: {3}]
Failures == {"external_service_error"}

\* Routes of two segments, some along themselves, some of one point; two
\* stations, one of them at <<1, 3>>, where some are closed or have no price.
Corners == {0, 4, 9} \X {0, 1, 5}
Places == {0, 1, 4, 6} \X {0, 3, 5}
Pumps == [at: Places, price: 1..2, closed: {FALSE}, city: {"c"}, id: {1}]
         \cup [at: {<<1, 3>>}, price: {0}, closed: {FALSE}, city: {"c"}, id: {2}]
         \cup [at: {<<1, 3>>}, price: {1}, closed: {TRUE}, city: {"c"}, id: {3}]
RoutesOfTwo == {<<a, b, c>> : a \in {<<0, 0>>, <<4, 1>>}, b \in Corners, c \in Corners}
TwoPumps == {{a, b} : a \in {p \in Pumps : p.at = <<1, 3>>}, b \in Pumps}

NoPlanner ==
    /\ request = {} /\ located = 0 /\ routes = <<>> /\ tried = 0 /\ evaluations = <<>>
    /\ answer = [kind |-> "none"]
NoReply == reply = [kind |-> "none"]
NoGeometry == rules = "" /\ route = <<>> /\ catalogue = {} /\ left = {} /\ matched = {}
NoVehicle == start = 0 /\ outcome = ""
NoRoad == stops = <<>> /\ progress = "" /\ NoReply

PlansInit ==
    \/ setting = "vehicle" /\ Init /\ NoRoad /\ NoPlanner /\ NoGeometry
    \/ setting = "first API" /\ RoadInit /\ NoVehicle /\ NoReply /\ NoPlanner /\ NoGeometry
    \/ setting = "planner" /\ PlanInit /\ NoRoad /\ NoGeometry
    \/ /\ setting = "first planner" /\ FirstInit
       /\ NoVehicle /\ request = {} /\ answer = [kind |-> "none"] /\ NoGeometry
    \/ /\ setting = "geometry" /\ GeometryInit
       /\ distance = 0 /\ stations = <<>> /\ at = 0 /\ fuel = 0 /\ bought = <<>>
       /\ NoVehicle /\ NoRoad /\ NoPlanner

PlansNext ==
    /\ UNCHANGED setting
    /\ \/ setting = "vehicle" /\ Next /\ UNCHANGED <<onlyFirst, planVars, geometryVars>>
       \/ /\ setting = "first API" /\ RoadNext
          /\ UNCHANGED <<start, outcome, reply, planVars, geometryVars>>
       \/ setting = "planner" /\ PlanNext /\ UNCHANGED <<onlyFirst, geometryVars>>
       \/ /\ setting = "first planner" /\ FirstNext
          /\ UNCHANGED <<start, outcome, request, answer, geometryVars>>
       \/ /\ setting = "geometry" /\ Match
          /\ UNCHANGED <<vars, onlyFirst, planVars>>

PlansSpec ==
    PlansInit /\ [][PlansNext]_<<setting, vars, onlyFirst, planVars, geometryVars>>

================================================================================
