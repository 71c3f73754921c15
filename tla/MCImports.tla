------------------------------- MODULE MCImports -------------------------------
(* Overlapping runs of the import commands in one market; GeoJSON files of up *)
(* to three features; and an answer of the provider at a time of the day.     *)
EXTENDS Imports, TLC

CONSTANTS v1, v2, in, pumpA, pumpB, delhi

MCMarketOf == [v \in Versions |-> in]
MCStableId == ("node/1" :> pumpA) @@ ("node-1" :> pumpA) @@ ("way/2" :> pumpB)

Pump(id, tags) == [ok |-> TRUE, id |-> id, tags |-> tags]

File1 == [version |-> v1, checksum |-> "one", infer |-> TRUE, activate |-> TRUE,
          features |-> <<Pump("node/1", {}), Pump("node-1", {}), Pump("way/2", {})>>]
File2 == [File1 EXCEPT !.version = v2, !.checksum = "two",
                       !.features = <<Pump("node/1", {"diesel"})>>]

\* Two versions, the second without a station of the first, to be activated
\* or not; the first again, with other contents that hold no station.
MCStationFiles ==
    {File1, File2, [File2 EXCEPT !.activate = FALSE],
     [File1 EXCEPT !.checksum = "other", !.features = <<>>]}

Reviewed(record, place, station) ==
    [record |-> record, geography |-> place, station |-> station, lasts |-> TRUE]

\* A file over two stations, one that names a station for a place's price, and
\* one over one station.
MCPriceFiles ==
    {[checksum |-> "c1", market |-> in,
      rows |-> <<Reviewed("r1", pumpA, pumpA), Reviewed("r2", pumpB, pumpB)>>],
     [checksum |-> "c2", market |-> in, rows |-> <<Reviewed("r1", delhi, pumpA)>>],
     [checksum |-> "c3", market |-> in, rows |-> <<Reviewed("r1", pumpA, pumpA)>>]}

MCContents == {[checksum |-> "m1", market |-> in, rows |-> <<delhi>>]}

MCFeatures == {[ok |-> FALSE, id |-> "way/2", tags |-> {}]}
              \union {Pump(id, tags) : id \in SourceIds, tags \in SUBSET Fuels}

MCFeatureLists == SeqOf(MCFeatures, 3)

MCProduct == {NoProduct, [unit |-> "per_litre", price |-> 95],
              [unit |-> "per_litre", price |-> 301], [unit |-> "gallon", price |-> 95]}

\* Every half hour of a day; observations around each bound and between.
AnswerTimes == {Mitra!Minutes(30 * n) : n \in 0..47}
Offsets == {Mitra!Minutes(30 * n) : n \in 0..72}
           \union {0 - Mitra!Minutes(5), 0 - Mitra!Minutes(10), Mitra!Hours(36) + 1}

OneFuel == {[fuel \in Mitra!FuelType |-> IF fuel = "petrol" THEN x ELSE NoProduct] :
               x \in MCProduct}
Good == [unit |-> "per_litre", price |-> 95]

MCAnswers ==
    {[at |-> at, rows |-> <<[observed |-> at - offset, kind |-> "state",
                             hasState |-> FALSE, name |-> "delhi",
                             product |-> product]>>] :
        at \in AnswerTimes, offset \in Offsets, product \in OneFuel}
    \union
    {[at |-> 100, rows |-> <<[observed |-> 90, kind |-> k, hasState |-> h,
                              name |-> "delhi", product |-> x],
                             [observed |-> 80, kind |-> "city", hasState |-> TRUE,
                              name |-> "delhi", product |-> y]>>] :
        k \in {"state", "city"}, h \in BOOLEAN,
        x \in [Mitra!FuelType -> {NoProduct, Good}],
        y \in [Mitra!FuelType -> {NoProduct, Good}]}

Symmetry == Permutations(Proc)

================================================================================
