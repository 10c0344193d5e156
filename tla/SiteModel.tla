----------------------------- MODULE SiteModel -----------------------------
(***************************************************************************)
(* The versioned site model and what is read off it (packages/site_model): *)
(* which version is stored as the active one, which version the            *)
(* orchestrator interprets reports by, and how a reported position becomes *)
(* a relation to the exclusion zones.                                      *)
(*                                                                         *)
(* Lengths are integers in a unit the instance chooses (half a metre, for  *)
(* the layout in data/site-models), and a distance is kept as its square,  *)
(* a fraction <<numerator, denominator>>: no rounding decides a comparison *)
(* here.  The code computes in floating point.                             *)
(***************************************************************************)
EXTENDS Integers, Sequences, FiniteSets

CONSTANTS
    Layouts,     \* Layouts[v]: the zones of version v, in the order of the file
    Floors,      \* floors a report can name
    Area,        \* the points a report can give
    Stride,      \* a worker walks no further between two reports
    ZoneNames,   \* zones a report can name
    None,        \* a field the report leaves out
    MaxDeploys   \* bound on replacements of the layout file

Versions == DOMAIN Layouts
RiskZoneKinds == {"lift-exclusion"}
Zones == [zoneId : ZoneNames, floorId : Floors, kind : {"lift-exclusion", "other"},
          polygon : Seq(Int \X Int), buffer : Nat]

Relations == {"inside_risk_zone", "approaching", "safe", "coverage_unknown"}
Locations ==
    [zone : {None}, floor : Floors \cup {None}, at : Area \cup {None}]
        \cup [zone : ZoneNames, floor : {None}, at : {None}]
Reports == [location : Locations, version : Versions, relation : Relations,
            zone : ZoneNames \cup {None}, by : Versions \cup {0}]

LayoutsWellFormed ==
    /\ Layouts \in Seq(Seq(Zones)) /\ Layouts # <<>>
    /\ \A v \in Versions : \A i \in DOMAIN Layouts[v] :
          Len(Layouts[v][i].polygon) >= 3
    /\ Area \subseteq Int \X Int
    /\ None \notin Floors \cup ZoneNames \cup Area /\ None \notin Reports
    /\ Stride \in Nat /\ MaxDeploys \in Nat

ASSUME LayoutAssumption == LayoutsWellFormed

Seeders == {"api", "ingest"}   \* the application and the import script

-----------------------------------------------------------------------------
(* Geometry *)

Next1(i, polygon) == (i % Len(polygon)) + 1

\* Edge i of a polygon leads from vertex i to the next one.
Edge(polygon, i) == <<polygon[i], polygon[Next1(i, polygon)]>>

Cross(a, b, p) == (b[1] - a[1]) * (p[2] - a[2]) - (b[2] - a[2]) * (p[1] - a[1])

Between(x, a, b) == (a <= x /\ x <= b) \/ (b <= x /\ x <= a)

OnSegment(p, a, b) ==
    Cross(a, b, p) = 0 /\ Between(p[1], a[1], b[1]) /\ Between(p[2], a[2], b[2])

OnBoundary(p, polygon) ==
    \E i \in DOMAIN polygon : OnSegment(p, Edge(polygon, i)[1], Edge(polygon, i)[2])

\* Mutant: an edge is crossed at both of its ends.
CrossedClosed(p, a, b) ==
    /\ Between(p[2], a[2], b[2]) /\ a[2] # b[2]
    /\ IF b[2] > a[2] THEN Cross(a, b, p) > 0 ELSE Cross(a, b, p) < 0

\* The ray from p to the east crosses the edge; a vertex belongs to one edge.
Crossed(p, a, b) ==
    /\ (a[2] > p[2]) # (b[2] > p[2])
    /\ IF b[2] > a[2] THEN Cross(a, b, p) > 0 ELSE Cross(a, b, p) < 0

PointInPolygon(p, polygon) ==
    \/ OnBoundary(p, polygon)
    \/ Cardinality({i \in DOMAIN polygon :
          Crossed(p, Edge(polygon, i)[1], Edge(polygon, i)[2])}) % 2 = 1

Squared(p, q) == (p[1] - q[1]) * (p[1] - q[1]) + (p[2] - q[2]) * (p[2] - q[2])

DistanceToSegment(p, a, b) ==
    LET dot == (p[1] - a[1]) * (b[1] - a[1]) + (p[2] - a[2]) * (b[2] - a[2])
    IN  CASE dot <= 0 -> <<Squared(p, a), 1>>
          [] dot > 0 /\ dot >= Squared(a, b) -> <<Squared(p, b), 1>>
          [] OTHER -> <<Cross(a, b, p) * Cross(a, b, p), Squared(a, b)>>

NotFurther(d, e) == d[1] * e[2] <= e[1] * d[2]

\* Mutant: only the corners are measured.
DistanceToCorners(p, polygon) ==
    IF PointInPolygon(p, polygon) THEN <<0, 1>>
    ELSE LET distances == {<<Squared(p, polygon[i]), 1>> : i \in DOMAIN polygon}
         IN  CHOOSE d \in distances : \A e \in distances : NotFurther(d, e)

DistanceToPolygon(p, polygon) ==
    IF PointInPolygon(p, polygon) THEN <<0, 1>>
    ELSE LET distances == {DistanceToSegment(p, Edge(polygon, i)[1], Edge(polygon, i)[2]) :
                              i \in DOMAIN polygon}
         IN  CHOOSE d \in distances : \A e \in distances : NotFurther(d, e)

-----------------------------------------------------------------------------
(* resolve_zone *)

\* The first index of a sequence that satisfies a test, 0 when none does.
FirstOf(indices) ==
    IF indices = {} THEN 0 ELSE CHOOSE i \in indices : \A j \in indices : i <= j

Result(zone, relation) == [zone |-> zone, relation |-> relation]

RelationOfNamed(zones, name) ==
    LET i == FirstOf({j \in DOMAIN zones : zones[j].zoneId = name})
    IN  CASE i = 0 -> "coverage_unknown"
          [] i # 0 /\ zones[i].kind \in RiskZoneKinds -> "inside_risk_zone"
          [] OTHER -> "safe"

Candidates(zones, floor) ==
    {i \in DOMAIN zones : floor = None \/ zones[i].floorId = floor}

\* Mutant: a worker at the very edge of the buffer is not approaching.
WithinStrictly(d, buffer) == d[1] < buffer * buffer * d[2]

Within(d, buffer) == d[1] <= buffer * buffer * d[2]

\* The zone that contains the point decides if it is an exclusion zone; else
\* the buffer of the nearest exclusion zone does, and the report is filed
\* under the containing zone if there is one.
ResolvePoint(zones, candidates, p) ==
    LET containing == FirstOf({i \in candidates : PointInPolygon(p, zones[i].polygon)})
        risk == {i \in candidates : zones[i].kind \in RiskZoneKinds}
        distance == [i \in risk |-> DistanceToPolygon(p, zones[i].polygon)]
        nearest == FirstOf({i \in risk :
                       \A j \in risk : NotFurther(distance[i], distance[j])})
        named(i) == IF i = 0 THEN None ELSE zones[i].zoneId
    IN  CASE containing \in risk -> Result(named(containing), "inside_risk_zone")
          [] /\ containing \notin risk
             /\ nearest # 0 /\ Within(distance[nearest], zones[nearest].buffer)
             -> Result(IF containing # 0 THEN named(containing) ELSE named(nearest),
                       "approaching")
          [] OTHER -> Result(named(containing),
                             IF containing # 0 THEN "safe" ELSE "coverage_unknown")

\* A named zone comes before coordinates; without a floor every zone counts.
ResolveZone(zones, location) ==
    LET candidates == Candidates(zones, location.floor)
    IN  CASE location.zone # None ->
               Result(location.zone, RelationOfNamed(zones, location.zone))
          [] location.zone = None /\ (location.at = None \/ candidates = {}) ->
               Result(None, "coverage_unknown")
          [] OTHER -> ResolvePoint(zones, candidates, location.at)

-----------------------------------------------------------------------------
VARIABLES
    file,      \* the version the layout file holds
    stored,    \* SITE_MODEL: stored version -> its active flag
    layout,    \* the version the orchestrator holds, 0 when it is not running
    case,      \* CASES siteModelVersion, 0 before the first start
    seeder,    \* what each seeding process has read
    report,    \* the latest position of a worker, None when there is none
    event,     \* its event: "none", "recorded" or "evaluated"
    deploys,   \* replacements of the file so far
    crossed    \* one of them came between a read of the file and the first
               \* version stored (history)

vars == <<file, stored, layout, case, seeder, report, event, deploys, crossed>>
store == <<stored, case>>
reports == <<report, event>>
delivery == <<deploys, crossed>>

Idle == [pc |-> "idle", version |-> 0, active |-> FALSE]

Init ==
    /\ file = 1 /\ stored = <<>> /\ layout = 0 /\ case = 0
    /\ seeder = [p \in Seeders |-> Idle]
    /\ report = None /\ event = "none"
    /\ deploys = 0 /\ crossed = FALSE

ActiveVersions == {v \in DOMAIN stored : stored[v]}

\* Mutant: what is seeded is active.
SeededActive(version, found) == TRUE

\* The seeded version is active if none is, or if it is the one found.
BecomesActive(version, found) == found = {} \/ version \in found

\* seed_site_model reads the file, then looks for an active version.
Seed(p) ==
    /\ seeder[p].pc = "idle"
    /\ p = "api" => layout = 0
    /\ \E found \in IF ActiveVersions = {} THEN {{}} ELSE {{v} : v \in ActiveVersions} :
          seeder' = [seeder EXCEPT ![p] =
              [pc |-> "found", version |-> file, active |-> BecomesActive(file, found)]]
    /\ UNCHANGED <<file, store, layout, reports, delivery>>

\* The upsert replaces the stored document of that version.  The application
\* goes on with what it seeded and names it in the case before it serves.
Upsert(p) ==
    LET version == seeder[p].version
    IN  /\ seeder[p].pc = "found"
        /\ stored' = [v \in DOMAIN stored \cup {version} |->
                        IF v = version THEN seeder[p].active ELSE stored[v]]
        /\ layout' = IF p = "api" THEN version ELSE layout
        /\ case' = IF p = "api" THEN version ELSE case
        /\ seeder' = [seeder EXCEPT ![p] = Idle]
        /\ UNCHANGED <<file, reports, delivery>>

\* A new layout is delivered at any time: the application goes on with the one
\* it holds, and who has read the file seeds what it read.
Deploy(version) ==
    /\ version # file /\ deploys < MaxDeploys
    /\ file' = version /\ deploys' = deploys + 1
    /\ crossed' = (crossed \/ (DOMAIN stored = {} /\ \E p \in Seeders : seeder[p].pc = "found"))
    /\ UNCHANGED <<store, layout, seeder, reports>>

\* Stopping or dying: what was not delivered by the feed is lost.
Stop(p) ==
    /\ seeder[p].pc # "idle" \/ (p = "api" /\ layout # 0)
    /\ seeder' = [seeder EXCEPT ![p] = Idle]
    /\ layout' = IF p = "api" THEN 0 ELSE layout
    /\ event' = IF p = "api" /\ event = "recorded" THEN "none" ELSE event
    /\ UNCHANGED <<file, store, report, delivery>>

\* Where a worker can be at the next report.
Reaches(location) ==
    report # None /\ report.location.at # None /\ location.at # None
        => Squared(report.location.at, location.at) <= Stride * Stride

\* ingest_worker_position: the row carries the version held at that moment.
IngestWorkerPosition(location) ==
    /\ layout # 0 /\ Reaches(location)
    /\ report' = [location |-> location, version |-> layout,
                  relation |-> "coverage_unknown", zone |-> None, by |-> 0]
    /\ event' = "recorded"
    /\ UNCHANGED <<file, store, layout, seeder, delivery>>

\* The handler of the event: evaluate_position, then the relation is written.
EvaluatePosition ==
    LET resolution == ResolveZone(Layouts[layout], report.location)
    IN  /\ layout # 0 /\ event = "recorded"
        /\ report' = [report EXCEPT !.relation = resolution.relation,
                                    !.zone = resolution.zone, !.by = layout]
        /\ event' = "evaluated"
        /\ UNCHANGED <<file, store, layout, seeder, delivery>>

\* Mutant: a report is evaluated although its row is gone.
ResetKeepsEvent ==
    /\ layout # 0 /\ report # None
    /\ report' = None /\ UNCHANGED event
    /\ UNCHANGED <<file, store, layout, seeder, delivery>>

\* A demo reset deletes the positions; an event left finds no row.
ResetCase ==
    /\ layout # 0 /\ report # None
    /\ report' = None /\ event' = "none"
    /\ UNCHANGED <<file, store, layout, seeder, delivery>>

Next ==
    \/ \E p \in Seeders : Seed(p) \/ Upsert(p) \/ Stop(p)
    \/ \E v \in Versions : Deploy(v)
    \/ \E location \in Locations : IngestWorkerPosition(location)
    \/ EvaluatePosition
    \/ ResetCase

Spec == Init /\ [][Next]_vars

-----------------------------------------------------------------------------
TypeOK ==
    /\ file \in Versions /\ layout \in Versions \cup {0} /\ case \in Versions \cup {0}
    /\ DOMAIN stored \subseteq Versions /\ \A v \in DOMAIN stored : stored[v] \in BOOLEAN
    /\ seeder \in [Seeders -> [pc : {"idle", "found"}, version : Versions \cup {0},
                              active : BOOLEAN]]
    /\ layout # 0 => layout \in DOMAIN stored /\ case = layout
    /\ report \in Reports \cup {None}
    /\ event \in {"none", "recorded", "evaluated"} /\ (event # "none" => report # None)
    /\ deploys \in 0..MaxDeploys /\ crossed \in BOOLEAN

\* However many versions are delivered, while which processes seed, and
\* wherever one of them stops: once a version is stored, exactly one is the
\* active version.  Except when the file is replaced in the middle of the very
\* first seeding.  (seed_site_model, a look and an upsert in two processes.)
OneActive == DOMAIN stored # {} /\ ~crossed => Cardinality(ActiveVersions) = 1

(* A reference for the geometry: winding numbers, and points of the area. *)
Winding(p, polygon) ==
    LET up == {i \in DOMAIN polygon :
                 LET e == Edge(polygon, i)
                 IN  e[1][2] <= p[2] /\ e[2][2] > p[2] /\ Cross(e[1], e[2], p) > 0}
        down == {i \in DOMAIN polygon :
                 LET e == Edge(polygon, i)
                 IN  e[1][2] > p[2] /\ e[2][2] <= p[2] /\ Cross(e[1], e[2], p) < 0}
    IN  Cardinality(up) - Cardinality(down)

Interior ==
    [v \in Versions |-> [i \in DOMAIN Layouts[v] |->
        {p \in Area : /\ ~OnBoundary(p, Layouts[v][i].polygon)
                      /\ Winding(p, Layouts[v][i].polygon) # 0}]]

Closure ==
    [v \in Versions |-> [i \in DOMAIN Layouts[v] |->
        Interior[v][i] \cup {p \in Area : OnBoundary(p, Layouts[v][i].polygon)}]]

ByPoint == event = "evaluated" /\ report.location.zone = None /\ report.location.at # None

ExclusionsFor(v, location) ==
    {i \in Candidates(Layouts[v], location.floor) :
        Layouts[v][i].kind \in RiskZoneKinds}

\* A worker resolved to be inside an exclusion zone stands in one or on its edge.
ResolvedIsWithin ==
    ByPoint /\ report.relation = "inside_risk_zone" =>
        \E i \in ExclusionsFor(report.by, report.location) :
            report.location.at \in Closure[report.by][i]

\* A worker strictly inside an exclusion zone of the floor is resolved to be.
WithinIsResolved ==
    ByPoint /\ report.location.floor # None
        /\ (\E i \in ExclusionsFor(report.by, report.location) :
               report.location.at \in Interior[report.by][i])
        => report.relation = "inside_risk_zone"

\* Resolution and area agree: a worker strictly inside an exclusion zone is
\* resolved to be inside one, and a worker resolved to be inside one stands in
\* it or on its edge, whatever the shape of the zone and the side of the
\* point.  (point_in_polygon; the zones of a floor share edges only.  Without
\* a floor the zones of all floors overlap, and the file's order decides.)
InsideMeansInside == ResolvedIsWithin /\ WithinIsResolved

\* What a layout drawn as a plan of the floor keeps: no outline winds around a
\* point twice, and the zones of a floor share edges only.
OnceAround ==
    \A v \in Versions : \A i \in DOMAIN Layouts[v] :
        \A p \in Interior[v][i] : Winding(p, Layouts[v][i].polygon) \in {-1, 1}

EdgesShared ==
    \A v \in Versions : \A i, j \in DOMAIN Layouts[v] :
        i # j /\ Layouts[v][i].floorId = Layouts[v][j].floorId
            => Interior[v][i] \cap Closure[v][j] = {}

Planned == OnceAround /\ EdgesShared

\* No point of an exclusion zone of the floor is within the smallest buffer
\* of a worker who is resolved to be safe or not covered.  (resolve_zone and
\* the distance to a polygon, against a search of the area.)
NotSafeNearExclusion ==
    ByPoint /\ report.relation \in {"safe", "coverage_unknown"} =>
        LET exclusions == ExclusionsFor(report.by, report.location)
            near(p) == \A i \in exclusions :
                Squared(report.location.at, p) <= Layouts[report.by][i].buffer
                                                    * Layouts[report.by][i].buffer
        IN  \A i \in exclusions : \A p \in Closure[report.by][i] : ~near(p)

\* Nobody walks from a report that raised no warning straight into an
\* exclusion zone, as long as two reports are no further apart than every
\* buffer of the layout and are read by the same layout.
WarnedBeforeEntering ==
    [][/\ ByPoint /\ event' = "recorded" /\ report'.location.floor = report.location.floor
       /\ report'.location.at # None /\ report'.location.zone = None
       /\ report.by = layout /\ report.relation \in {"safe", "coverage_unknown"}
       /\ \A i \in ExclusionsFor(layout, report.location) :
             Stride <= Layouts[layout][i].buffer
       => ResolveZone(Layouts[layout], report'.location).relation
             # "inside_risk_zone"]_vars

-----------------------------------------------------------------------------
(* What the documentation says and the code does not keep. *)

\* "Import the site model file and make it the active version if none is
\* active": at most one version is active.
NeverTwoActive == Cardinality(ActiveVersions) <= 1

\* "Resolve a reported position against the active site model version."
ReadByActive == event = "evaluated" /\ report.by = layout => stored[report.by]

\* "Points exactly on an edge count as inside."
EdgesAreInside ==
    ByPoint /\ (\E i \in ExclusionsFor(report.by, report.location) :
                   report.location.at \in Closure[report.by][i])
        => report.relation = "inside_risk_zone"

\* "Metres of buffer outside the polygon that counts as approaching."
BufferOfEveryZone ==
    ByPoint /\ (\E i \in ExclusionsFor(report.by, report.location) :
                   \E p \in Closure[report.by][i] :
                      Squared(report.location.at, p)
                          <= Layouts[report.by][i].buffer * Layouts[report.by][i].buffer)
        => report.relation \in {"inside_risk_zone", "approaching"}

\* "... is approaching exclusion zone {zoneId}": the zone a warning names is
\* an exclusion zone.
WarningNamesExclusion ==
    ByPoint /\ report.relation = "approaching" =>
        \E i \in ExclusionsFor(report.by, report.location) :
            Layouts[report.by][i].zoneId = report.zone
=============================================================================
