----------------------------- MODULE RouteGeometry -----------------------------
(***************************************************************************)
(* Which stations lie along a route, and where (routes/domain/geometry.py). *)
(*                                                                          *)
(* A station is projected in the plane tangent at its own place, so the     *)
(* model is a plane with integer coordinates; a cell of the grid is         *)
(* CellWidth by CellHeight in it.  Distances are kept squared, as fractions *)
(* [num, den], and a place on the route is the segment's number with the    *)
(* fraction of the segment, which orders places as route_mile does.         *)
(***************************************************************************)
EXTENDS Integers, FiniteSets, Sequences

CONSTANTS
    Routes,    \* polylines, as sequences of points <<x, y>>
    Stations,  \* [at, price, closed, city, id]; price 0 is no price
    Sets,      \* the sets of stations a catalogue may hold
    Corridor, CellWidth, CellHeight,
    Parts      \* of a segment that the first API tells apart

Point == Int \X Int

ASSUME GeometryAssumption ==
    /\ Corridor \in Nat
    /\ {CellWidth, CellHeight, Parts} \subseteq Nat \ {0}
    /\ Routes \subseteq Seq(Point)
    /\ \A s \in Stations : s.at \in Point /\ s.price \in Nat
    /\ Sets \subseteq SUBSET Stations

VARIABLES
    route,
    rules,     \* "priced" for the second API, "first" for the first
    catalogue, \* the stations
    left,      \* stations the loop has still to look at
    matched    \* candidates: station, place on the route and distance to it

geometryVars == <<rules, route, catalogue, left, matched>>

\* _build_segments: a segment is numbered by its first point, and there is none
\* between equal points.
Segments(points) == {i \in 1..(Len(points) - 1) : points[i] # points[i + 1]}

Segment(points, i) == [start |-> points[i], finish |-> points[i + 1]]

\* start_mile: how many segments precede one.
StartMile(points, i) == Cardinality({j \in Segments(points) : j < i})

\* _cell, of degrees scaled to the plane.
Row(point) == point[2] \div CellHeight
Column(point) == point[1] \div CellWidth

Less(d, e) == d.num * e.den < e.num * d.den

Within(d, far) == d.num <= far * far * d.den

\* project_to_segment_miles: the nearest point of a segment, the fraction of
\* the segment it lies at and how far away it is.
ProjectTo(segment, p) ==
    LET dx == segment.finish[1] - segment.start[1]
        dy == segment.finish[2] - segment.start[2]
        px == p[1] - segment.start[1]
        py == p[2] - segment.start[2]
        length == dx * dx + dy * dy
        along == px * dx + py * dy
        cross == px * dy - py * dx
    IN  IF along <= 0
        THEN [fraction |-> [num |-> 0, den |-> 1], far |-> [num |-> px * px + py * py, den |-> 1]]
        ELSE IF along >= length
        THEN [fraction |-> [num |-> 1, den |-> 1],
              far |-> [num |-> (px - dx) * (px - dx) + (py - dy) * (py - dy), den |-> 1]]
        ELSE [fraction |-> [num |-> along, den |-> length],
              far |-> [num |-> cross * cross, den |-> length]]

Ceiling(a, b) == (a + b - 1) \div b

Lower(a, b) == IF a <= b THEN a ELSE b
Higher(a, b) == IF a <= b THEN b ELSE a

\* The cells of a box around a segment that lie around a place.
Meets(a, b, p, rows, columns) ==
    /\ Lower(Row(a), Row(b)) <= Row(p) + rows
    /\ Higher(Row(a), Row(b)) >= Row(p) - rows
    /\ Lower(Column(a), Column(b)) <= Column(p) + columns
    /\ Higher(Column(a), Column(b)) >= Column(p) - columns

\* Mutant: a segment is filed under the cells of its ends only.
EndsIndexed(segment, p) ==
    \E e \in {segment.start, segment.finish} :
        Meets(e, e, p, Ceiling(Corridor, CellHeight), Ceiling(Corridor, CellWidth))

\* _build_grid files a segment under every cell of its bounding box;
\* _candidate_segment_indexes looks in the cells around a place.
Indexed(segment, p) ==
    Meets(segment.start, segment.finish, p,
          Ceiling(Corridor, CellHeight), Ceiling(Corridor, CellWidth))

Seen(points, p) == {i \in Segments(points) : Indexed(Segment(points, i), p)}

Projected(points, i, p) == ProjectTo(Segment(points, i), p)

\* Of the segments the grid gives, the nearest.
Nearest(points, p) ==
    {i \in Seen(points, p) : \A k \in Seen(points, p) :
        ~Less(Projected(points, k, p).far, Projected(points, i, p).far)}

\* RouteGeometryIndex.project; which of several segments as near is taken is
\* left to the order of a Python set.
Projections(points, p) ==
    {[mile |-> StartMile(points, i),
      fraction |-> Projected(points, i, p).fraction,
      far |-> Projected(points, i, p).far] : i \in Nearest(points, p)}

\* The key of route_stations: the place on the route to a tenth of a mile (a
\* Part of a segment), and the city.
PlaceKey(c) ==
    LET part == (2 * Parts * c.on.fraction.num + c.on.fraction.den)
                   \div (2 * c.on.fraction.den)
    IN  <<Parts * c.on.mile + part, c.station.city>>

\* _candidate_rank
Ranks(c, d) ==
    \/ c.station.price < d.station.price
    \/ /\ c.station.price = d.station.price
       /\ \/ Less(c.on.far, d.on.far)
          \/ ~Less(d.on.far, c.on.far) /\ c.station.id < d.station.id

--------------------------------------------------------------------------------
GeometryInit ==
    /\ route \in Routes
    /\ catalogue \in Sets
    /\ left = catalogue
    /\ matched = {}
    /\ rules \in {"priced", "first"}
    \* The first API has prices and opening of every station.
    /\ rules = "first" => \A s \in catalogue : ~s.closed /\ s.price > 0

\* route_priced_stations, one station.
MatchPriced(station) ==
    LET on == {p \in Projections(route, station.at) : Within(p.far, Corridor)}
    IN  IF station.closed \/ station.price = 0 \/ on = {}
        THEN UNCHANGED matched
        ELSE \E p \in on : matched' = matched \cup {[station |-> station, on |-> p]}

\* route_stations, one station: the best of each place and city is kept.
MatchFirst(station) ==
    LET on == {p \in Projections(route, station.at) : Within(p.far, Corridor)}
    IN  IF on = {}
        THEN UNCHANGED matched
        ELSE \E p \in on :
                LET c == [station |-> station, on |-> p]
                    same == {d \in matched : PlaceKey(d) = PlaceKey(c)}
                IN  matched' = IF \A d \in same : Ranks(c, d)
                               THEN (matched \ same) \cup {c} ELSE matched

\* One pass of the loop over the catalogue.
Match ==
    \E station \in left :
        /\ left' = left \ {station}
        /\ \/ rules = "priced" /\ MatchPriced(station)
           \/ rules = "first" /\ MatchFirst(station)
        /\ UNCHANGED <<route, catalogue, rules>>

GeometrySpec == GeometryInit /\ [][Match]_geometryVars

--------------------------------------------------------------------------------
(* Properties *)

OnTheWay(s) == \E i \in Segments(route) : Within(Projected(route, i, s.at).far, Corridor)

Offered(s) == rules = "priced" => ~s.closed /\ s.price > 0

\* A station is a candidate, or in the first API one of its place and city is
\* that costs no more.
Shown(s) ==
    \E c \in matched :
        \/ c.station = s
        \/ /\ rules = "first"
           /\ c.station.price <= s.price
           /\ \E p \in Projections(route, s.at) : PlaceKey(c) = PlaceKey([station |-> s, on |-> p])

\* The grid shows the nearest segment: a candidate's distance is the one to the
\* whole route.  And the grid and the merging hide nothing: a station that can
\* be used and is within the corridor of any segment is shown.
StationsAreMatched ==
    /\ \A c \in matched : \A i \in Segments(route) :
          ~Less(Projected(route, i, c.station.at).far, c.on.far)
    /\ left = {} => \A s \in catalogue : OnTheWay(s) /\ Offered(s) => Shown(s)

--------------------------------------------------------------------------------
(* The inductive invariant behind it *)

\* A candidate is a station of the catalogue, projected on the route.
CandidatesAreProjected ==
    \A c \in matched :
        /\ c.station \in catalogue
        /\ c.on \in Projections(route, c.station.at)
        /\ Within(c.on.far, Corridor)

\* What the loop has passed is shown already.
PassedAreShown == \A s \in catalogue \ left : OnTheWay(s) /\ Offered(s) => Shown(s)

GeometryInvariant ==
    /\ route \in Routes /\ catalogue \in Sets /\ left \subseteq catalogue
    /\ rules \in {"priced", "first"}
    /\ CandidatesAreProjected /\ PassedAreShown

================================================================================
