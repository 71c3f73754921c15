---------------------------- MODULE MCPriceResolver ----------------------------
(* Evidence about one station: its own reports, its city's, two grades. *)
EXTENDS PriceResolver

CONSTANTS alice, bob, carol

Report(source, precision, contributor, price, effective, expires) ==
    [source |-> source, precision |-> precision, contributor |-> contributor,
     price |-> price, grade |-> Grade, observed |-> 0,
     effective |-> effective, expires |-> expires]

\* Reports that agree, disagree and stand far off; two by one contributor, one
\* of which is observed later; one of another grade.
MCReports ==
    {Report("community", Station, c, p, 0, 2) :
        c \in {alice, bob, carol}, p \in {100, 106, 113}}
    \union {[Report("community", Station, alice, 103, 0, 3) EXCEPT !.observed = 1]}
    \union {[Report("community", Station, bob, 100, 0, 2) EXCEPT !.grade = "other"]}
    \union {Report(source, precision, NoContributor, 90, effective, 2) :
        source \in Kinds, precision \in {Station, 1}, effective \in {0, 1}}

================================================================================
