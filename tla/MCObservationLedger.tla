-------------------------- MODULE MCObservationLedger --------------------------
(* Two stations of one snapshot and one place, all in one market. *)
EXTENDS ObservationLedger, TLC

CONSTANTS stationA, stationB, place, pumpA, pumpB, snapshot, market,
          alice

MCStationOf == (stationA :> pumpA) @@ (stationB :> pumpB) @@ (place :> NoStation)
MCSnapshotOf == (pumpA :> snapshot) @@ (pumpB :> snapshot)
MCMarketOf == [s \in Series |-> market]

\* Windows of one time unit; an absolute tolerance of two price units.
MCPolicy == [minPrice |-> 5, maxPrice |-> 50, maxAge |-> 1, futureSkew |-> 0,
             duplicateWindow |-> 1, rapidWindow |-> 0,
             absoluteTolerance |-> 2, relativeTolerance |-> 10]

Price(series, contributor, price) ==
    [series |-> series, contributor |-> contributor, price |-> price,
     observed |-> 0, effective |-> 0, expires |-> 2]

\* A report; an import that disagrees with it, over two stations in the order
\* that can deadlock with it; and a place's import, which agrees when repeated.
MCBatches == {<<Price(stationA, alice, 10)>>,
              <<Price(stationB, NoContributor, 10),
                Price(stationA, NoContributor, 20)>>,
              <<Price(place, NoContributor, 10)>>}

\* The import and the report that can deadlock.
MCDeadlockBatches == {b \in MCBatches : b[1].series = stationB \/ b[1].contributor = alice}

Symmetry == Permutations(Obs) \union Permutations(Proc)

================================================================================
