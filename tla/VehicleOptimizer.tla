--------------------------- MODULE VehicleOptimizer ----------------------------
(***************************************************************************)
(* The fuel plan of one route for one vehicle                               *)
(* (routes/domain/vehicle_optimizer.py): the coverage is validated, then    *)
(* the loop drives from station to station, deciding at each what to buy.   *)
(* Volumes are rounded to Grain (0.001 litres, also PURCHASE_EPSILON);      *)
(* rounding of money is left out.                                           *)
(***************************************************************************)
EXTENDS FuelStops

CONSTANTS
    Trips,  \* [near, distance, start]: the candidates along a route, how far it
            \* goes, and the starting fuel above the reserve, which with the
            \* reserve is no more than the tank holds (VehicleProfile)
    Grain

ASSUME VehicleAssumption ==
    /\ Trips \subseteq [near: SUBSET Candidate, distance: Nat, start: 0..Capacity]
    /\ \A trip \in Trips : IsFiniteSet(trip.near)
    /\ Grain \in Nat \ {0}

VARIABLES
    start,
    outcome   \* planning, driving, refused, stuck, planned

vars == <<distance, start, stations, at, fuel, bought, outcome>>

Place(i) == IF i = 0 THEN 0 ELSE stations[i].at

\* Half up, to a multiple of Grain.
Rounded(volume) == ((2 * volume + Grain) \div (2 * Grain)) * Grain

Most(a, b) == IF a >= b THEN a ELSE b
Least(a, b) == IF a <= b THEN a ELSE b

\* Mutant: starting fuel that lasts to the end is not looked at.
CoveredByStations ==
    /\ stations # <<>>
    /\ stations[1].at <= start + Near
    /\ \A i \in DOMAIN stations :
          (IF i = Len(stations) THEN distance ELSE stations[i + 1].at)
             - stations[i].at <= Capacity + Near

\* _validate_route_coverage
Covered ==
    \/ distance <= start
    \/ /\ stations # <<>>
       /\ stations[1].at <= start + Near
       /\ \A i \in DOMAIN stations :
             (IF i = Len(stations) THEN distance ELSE stations[i + 1].at)
                - stations[i].at <= Capacity + Near

\* Mutant: the destination is looked at first.
DestinationFirst(i) ==
    LET here == stations[i]
        next == SubSeq(stations, i + 1, Len(stations))
    IN  IF distance - here.at <= Capacity THEN distance
        ELSE IF FirstCheaper(here.at, here.price, next) # 0
        THEN FirstCheaper(here.at, here.price, next)
        ELSE LastEqual(here.at, here.price, next)

\* _next_purchase_target: the first cheaper station in range, else the
\* destination if in range, else the last station of the same price, else 0.
Target(i) ==
    LET here == stations[i]
        next == SubSeq(stations, i + 1, Len(stations))
    IN  IF FirstCheaper(here.at, here.price, next) # 0
        THEN FirstCheaper(here.at, here.price, next)
        ELSE IF distance - here.at <= Capacity THEN distance
        ELSE LastEqual(here.at, here.price, next)

\* _purchase_at_station, rounded by _volume.
Wanted(i, left) ==
    LET desired == IF Target(i) = 0 THEN Capacity
                   ELSE Least(Capacity, Target(i) - Place(i))
    IN  Rounded(Most(0, desired - left))

\* Mutant: what is short is forgiven whatever it is.
DebtForgiven(left) == TRUE

\* _consume_fuel lets a plan be short by PURCHASE_EPSILON.
CanDrive(left) == left >= -Grain

--------------------------------------------------------------------------------
Init ==
    /\ \E trip \in Trips :
          /\ distance = trip.distance /\ start = trip.start
          /\ stations = Prepare(trip.near, trip.distance)
    /\ at = 0 /\ fuel = start /\ bought = <<>>
    /\ outcome = "planning"

Validate ==
    /\ outcome = "planning"
    /\ outcome' = IF Covered THEN "driving" ELSE "refused"
    /\ UNCHANGED <<distance, start, stations, at, fuel, bought>>

\* One pass of the loop: drive to the next station, buy there.
DriveAndBuy ==
    /\ outcome = "driving"
    /\ at < Len(stations)
    /\ LET i == at + 1
           left == fuel - (Place(i) - Place(at))
           volume == Wanted(i, Most(0, left))
       IN  IF CanDrive(left)
           THEN /\ at' = i
                /\ bought' = Append(bought, IF volume > Grain THEN volume ELSE 0)
                /\ fuel' = Most(0, left) + Last(bought')
                /\ UNCHANGED outcome
           ELSE outcome' = "stuck" /\ UNCHANGED <<at, fuel, bought>>
    /\ UNCHANGED <<distance, start, stations>>

\* The last leg.
Arrive ==
    /\ outcome = "driving"
    /\ at = Len(stations)
    /\ LET left == fuel - (distance - Place(at))
       IN  /\ outcome' = IF CanDrive(left) THEN "planned" ELSE "stuck"
           /\ fuel' = IF CanDrive(left) THEN Most(0, left) ELSE fuel
    /\ UNCHANGED <<distance, start, stations, at, bought>>

Next == Validate \/ DriveAndBuy \/ Arrive

Spec == Init /\ [][Next]_vars

--------------------------------------------------------------------------------
(* Properties *)

\* What is in the tank above the reserve, on arrival at the i-th station.
Tank(i) == start + SumUpTo(bought, i - 1) - Place(i)

Multiple(volume, of) == of * (volume \div of) = volume
Whole(volume) == Multiple(volume, Step)

\* Nothing is rounded and no two stations are merged but at one place: tank,
\* fuel and places are whole steps, and nothing smaller than a step matters.
InWholeSteps(places, far) ==
    /\ Grain < Step /\ Near < Step /\ Multiple(Step, Grain)
    /\ Whole(Capacity) /\ Whole(start) /\ Whole(far)
    /\ \A place \in places : Whole(place)

Exact == InWholeSteps({stations[i].at : i \in DOMAIN stations}, distance)

\* Where nothing is rounded, no other way of driving the route costs less than
\* the plan, whatever the stations, prices and starting fuel
\* (optimize_fuel_purchases).
PlanIsCheapest ==
    outcome = "planned" /\ Exact =>
        \A plan \in Plans(stations, start, distance) :
            Cost(bought, stations) <= Cost(plan, stations)

\* A plan is found whenever there is one: the validation turns down no route
\* that can be driven, nor, where nothing is rounded, do the greedy choices.
RefusedOnlyIfImpossible ==
    outcome = "refused" \/ (outcome = "stuck" /\ Exact) =>
        Plans(stations, start, distance) = {}

\* Driving as planned never uses the reserve, to a station or to the end, but
\* for the grain _consume_fuel forgives on each leg.
ReserveIsKept ==
    outcome \in {"driving", "stuck", "planned"} =>
        /\ \A i \in 1..at : Tank(i) >= -(i * Grain)
        /\ outcome = "planned" =>
              start + SumUpTo(bought, at) - distance >= -((at + 1) * Grain)

\* understanding.md: "buy only enough to reach the first cheaper station" ...
\* "continue until the destination": a covered route is driven to its end,
\* unless one leg is longer than the fuel there is by up to Near.
CoveredRoutesAreDriven ==
    outcome = "stuck" =>
        \/ stations[1].at > start
        \/ \E i \in DOMAIN stations :
              (IF i = Len(stations) THEN distance ELSE stations[i + 1].at)
                 - stations[i].at > Capacity

\* Buying as planned never overfills the tank by more than the rounding adds.
TankNotOverfilled ==
    outcome \in {"driving", "stuck", "planned"} =>
        \A i \in 1..at :
            bought[i] > 0 => 2 * (Tank(i) + bought[i]) <= 2 * Capacity + Grain

FuelStaysInBounds == ReserveIsKept /\ TankNotOverfilled

--------------------------------------------------------------------------------
(* The inductive invariant behind it *)

\* The loop believes in more fuel than there is, by what it has forgiven.
FuelIsBelieved ==
    LET left == start + SumUpTo(bought, at) - Place(at)
    IN  left <= fuel /\ fuel <= left + at * Grain

VehicleInvariant ==
    /\ distance \in Nat /\ start \in Nat /\ fuel \in Nat
    /\ InOrder(stations, distance)
    /\ at \in 0..Len(stations)
    /\ bought \in Seq(Nat) /\ Len(bought) = at
    /\ outcome \in {"planning", "driving", "refused", "stuck", "planned"}
    /\ outcome \in {"planning", "refused"} => at = 0
    /\ outcome # "planned" => FuelIsBelieved
    /\ FuelStaysInBounds

================================================================================
