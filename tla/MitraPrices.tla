------------------------------- MODULE MitraPrices -------------------------------
(***************************************************************************)
(* parse_mitra_prices (routes/infrastructure/mitra_prices.py): the prices   *)
(* of a provider's answer, or a refusal of all of it.  Times count units of *)
(* a twelfth of an hour, in Indian time, from a midnight.  Places are what  *)
(* scoped_geography_id makes of a state or of a state and a city.           *)
(***************************************************************************)
EXTENDS Integers, FiniteSets, Sequences

CONSTANT NoProduct

Minutes(n) == n \div 5
Hours(n) == Minutes(60 * n)
Day == Hours(24)

FuelType == {"petrol", "diesel"}

Timely(observed, at) ==
    /\ observed <= at + Minutes(5)
    /\ at - Hours(36) <= observed

\* The last six o'clock: prices change at that hour.
Effective(observed) ==
    LET six == (observed \div Day) * Day + Hours(6)
    IN  IF six > observed THEN six - Day ELSE six

\* Mutant: a price lasts a day.
ExpiresWithTheDay(observed) == Effective(observed) + Day

Expires(observed) == Effective(observed) + Hours(30)

\* A city's price needs its state.
Located(row) == row.kind = "state" \/ (row.kind = "city" /\ row.hasState)

Sold(row) == {fuel \in FuelType : row.product[fuel] # NoProduct}

Priced(row) == \A fuel \in Sold(row) : /\ row.product[fuel].unit = "per_litre"
                                       /\ row.product[fuel].price \in 20..300

Readable(row, at) == /\ Timely(row.observed, at)
                     /\ Located(row)
                     /\ Expires(row.observed) > at
                     /\ Priced(row)

\* Two rows of one place that both price a fuel.
Clash(rows) == \E i, j \in DOMAIN rows :
                  /\ i < j
                  /\ rows[i].kind = rows[j].kind /\ rows[i].name = rows[j].name
                  /\ Sold(rows[i]) \intersect Sold(rows[j]) # {}

Taken(rows, at) == /\ \A i \in DOMAIN rows : Readable(rows[i], at)
                   /\ \E i \in DOMAIN rows : Sold(rows[i]) # {}
                   /\ ~Clash(rows)

\* The ReferencePrices of an answer; none when it is refused.
Parsed(rows, at) ==
    IF ~Taken(rows, at) THEN {}
    ELSE UNION {{[place |-> <<rows[i].kind, rows[i].name>>, fuel |-> fuel,
                  price |-> rows[i].product[fuel].price,
                  observed |-> rows[i].observed,
                  effective |-> Effective(rows[i].observed),
                  expires |-> Expires(rows[i].observed)] : fuel \in Sold(rows[i])}
                : i \in DOMAIN rows}

--------------------------------------------------------------------------------
(* Properties *)

\* settings.OBSERVATION_POLICY, in this module's units: the ledger's own tests.
DefaultPolicy == [minPrice |-> 20, maxPrice |-> 300, maxAge |-> Hours(48),
                  futureSkew |-> Minutes(5), duplicateWindow |-> Minutes(30),
                  rapidWindow |-> Minutes(10), absoluteTolerance |-> 5,
                  relativeTolerance |-> 10]

Ledger == INSTANCE ObservationValidation WITH
              Policy <- DefaultPolicy, NoContributor <- ""

PlaceContext == [eligible |-> TRUE, duplicate |-> FALSE, rapid |-> FALSE,
                 outlier |-> FALSE]

\* What the parser lets through the ledger stores and never rejects by its own
\* clock and bounds, up to half a day after the answer was read: a price that
\* outlives its observation (the table's check constraint), in force since six
\* o'clock of its own day and not expired on arrival.
ParsedPricesAreStorable(rows, at) ==
    \A price \in Parsed(rows, at) :
        /\ price.expires > price.observed
        /\ price.expires > at
        /\ price.effective <= price.observed
        /\ price.observed < price.effective + Day
        /\ \A received \in {at, at + Hours(12)} :
              ~Ledger!Rejects(price, received, PlaceContext)

\* A snapshot imported by noon of its own price day lasts until the cadence of
\* refresh_prices (24 hours) lets the next one be fetched; one imported later
\* does not, and leaves the market without reference prices in between.
LastsUntilNextRefresh(rows, at) ==
    \A price \in Parsed(rows, at) :
        price.expires >= at + Hours(24) <=> at <= price.effective + Hours(6)

================================================================================
