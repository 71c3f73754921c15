----------------------------- MODULE FuelOptimizer -----------------------------
(***************************************************************************)
(* The fuel plan of the first API (routes/domain/optimizer.py): the tank is *)
(* empty at the start and filled there at the price of a station near the   *)
(* origin.  PURCHASE_EPSILON_GALLONS lasts POSITION_EPSILON_MILES at ten    *)
(* miles a gallon, so both are Near; volumes are not rounded.               *)
(***************************************************************************)
EXTENDS FuelStops

CONSTANTS
    Roads,   \* [near, distance]: the candidates along a route and how far it goes
    Search   \* ORIGIN_PRICE_SEARCH_MILES

ASSUME RoadAssumption ==
    /\ Roads \subseteq [near: SUBSET Candidate, distance: Nat]
    /\ \A road \in Roads : IsFiniteSet(road.near)
    /\ Search \in Nat

VARIABLES
    stops,    \* the origin, at its reference price, and then the stations
    progress  \* planning, driving, refused, stuck, planned

roadVars == <<distance, stations, stops, at, fuel, bought, progress>>

\* _origin_price_reference: where it looks, and what it takes.
ReferenceStations ==
    LET within(far) == {i \in DOMAIN stations : stations[i].at <= far}
    IN  IF within(Search) # {} THEN within(Search) ELSE within(Capacity)

Origin ==
    LET best == CHOOSE i \in ReferenceStations :
                    \A j \in ReferenceStations \ {i} : Better(stations[i], stations[j])
    IN  [stations[best] EXCEPT !.at = 0]

\* _validate_route_coverage, when some station was kept.
RoadCovered ==
    /\ stations # <<>>
    /\ stations[1].at <= Capacity + Near
    /\ \A i \in DOMAIN stations :
          (IF i = Len(stations) THEN distance ELSE stations[i + 1].at)
             - stations[i].at <= Capacity + Near

\* _next_purchase_target_mile: the destination if in range, whatever is
\* cheaper on the way; else as in the vehicle optimizer.
RoadTarget(i) ==
    LET here == stops[i]
        next == SubSeq(stops, i + 1, Len(stops))
    IN  IF distance - here.at <= Capacity THEN distance
        ELSE IF FirstCheaper(here.at, here.price, next) # 0
        THEN FirstCheaper(here.at, here.price, next)
        ELSE LastEqual(here.at, here.price, next)

\* Mutant: volumes are cut to whole multiples of eight.
RoundedDown(i, left) ==
    LET desired == IF RoadTarget(i) = 0 THEN Capacity ELSE RoadTarget(i) - stops[i].at
    IN  (Max({0, Min({Capacity, desired}) - left}) \div 8) * 8

\* _purchase_at_position
RoadWanted(i, left) ==
    LET desired == IF RoadTarget(i) = 0 THEN Capacity ELSE RoadTarget(i) - stops[i].at
    IN  Max({0, Min({Capacity, desired}) - left})

--------------------------------------------------------------------------------
RoadInit ==
    /\ \E road \in Roads :
          distance = road.distance /\ stations = Prepare(road.near, road.distance)
    /\ stops = <<>> /\ at = 0 /\ fuel = 0 /\ bought = <<>>
    /\ progress = "planning"

\* The price at the origin and the coverage are settled before any purchase.
ValidateRoad ==
    /\ progress = "planning"
    /\ IF RoadCovered /\ ReferenceStations # {}
       THEN progress' = "driving" /\ stops' = <<Origin>> \o stations
       ELSE progress' = "refused" /\ UNCHANGED stops
    /\ UNCHANGED <<distance, stations, at, fuel, bought>>

\* initial_fuel, kept however little it is.
FillAtOrigin ==
    /\ progress = "driving"
    /\ at = 0
    /\ at' = 1
    /\ bought' = <<RoadWanted(1, 0)>>
    /\ fuel' = RoadWanted(1, 0)
    /\ UNCHANGED <<distance, stations, stops, progress>>

\* One pass of the loop; _consume_fuel forgives Near.
DriveRoad ==
    /\ progress = "driving"
    /\ at \in 1..(Len(stops) - 1)
    /\ LET i == at + 1
           left == fuel - (stops[i].at - stops[at].at)
           volume == RoadWanted(i, Max({0, left}))
       IN  IF left >= -Near
           THEN /\ at' = i
                /\ bought' = Append(bought, IF volume > Near THEN volume ELSE 0)
                /\ fuel' = Max({0, left}) + Last(bought')
                /\ UNCHANGED progress
           ELSE progress' = "stuck" /\ UNCHANGED <<at, fuel, bought>>
    /\ UNCHANGED <<distance, stations, stops>>

ArriveOnRoad ==
    /\ progress = "driving"
    /\ at > 0 /\ at = Len(stops)
    /\ progress' = IF fuel - (distance - stops[at].at) >= -Near
                  THEN "planned" ELSE "stuck"
    /\ UNCHANGED <<distance, stations, stops, at, fuel, bought>>

RoadNext == ValidateRoad \/ FillAtOrigin \/ DriveRoad \/ ArriveOnRoad

RoadSpec == RoadInit /\ [][RoadNext]_roadVars

--------------------------------------------------------------------------------
(* Properties *)

\* From a stop to the next, or to the destination.
Leg(i) == (IF i = Len(stops) THEN distance ELSE stops[i + 1].at) - stops[i].at

LegsFit == \A i \in DOMAIN stops : Leg(i) <= Capacity

\* A validated route is driven to its end, unless one leg is longer than a
\* full tank by up to Near: the purchases the loop drops as too small never
\* add up to more than _consume_fuel forgives.
ValidatedRoutesAreDriven == progress = "stuck" => ~LegsFit

\* planner.py: "Fuel purchases on a fixed route are cost-optimal for the
\* configured tank and MPG": no other way of driving the route costs less.
PurchasesAreCheapest ==
    progress = "planned" =>
        \A plan \in Plans(stops, 0, distance) :
            Cost(bought, stops) <= Cost(plan, stops)

--------------------------------------------------------------------------------
(* The inductive invariant behind the first of them *)

\* The origin and then the stations, which keep their places.
StopsAreOrdered ==
    /\ distance \in Nat
    /\ InOrder(stations, distance)
    /\ progress \in {"driving", "stuck", "planned"} =>
          /\ stops \in Seq(Candidate) /\ Len(stops) = Len(stations) + 1
          /\ stops[1].at = 0
          /\ \A i \in DOMAIN stations : stops[i + 1] = stations[i]

\* What is in the tank lasts to the next stop, but for what is forgiven.
TankLasts ==
    progress = "driving" /\ at > 0 /\ LegsFit => fuel >= Leg(at) - Near

RoadInvariant ==
    /\ progress \in {"planning", "refused", "driving", "stuck", "planned"}
    /\ bought \in Seq(Int) /\ fuel \in Int
    /\ at \in 0..Len(stops)
    /\ progress = "planning" => at = 0 /\ stops = <<>>
    /\ StopsAreOrdered
    /\ TankLasts
    /\ ValidatedRoutesAreDriven

================================================================================
