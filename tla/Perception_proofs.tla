-------------------------- MODULE Perception_proofs --------------------------
(***************************************************************************)
(* Proofs about the two models of what evidence is made from: positions,   *)
(* read by the site model (SiteModel), and footage (VisionReview); for any *)
(* layouts, areas, pictures, replies and films.                            *)
(***************************************************************************)
EXTENDS SiteModel, VisionReview, FunctionTheorems, FiniteSetTheorems,
        NaturalsInduction, TLAPS

\* The order of the natural numbers as a relation.
Smaller == {pair \in Nat \X Nat : pair[1] < pair[2]}

\* A nonempty set of natural numbers has a least element.
LEMMA LeastOf ==
    ASSUME NEW values \in SUBSET Nat, values # {}
    PROVE  \E v \in values : \A w \in values : v <= w
<1>1. OpToRel(<, Nat) = Smaller
  BY DEF OpToRel, Smaller
<1>2. IsWellFoundedOn(Smaller, Nat)
  BY <1>1, NatLessThanWellFounded
<1>3. PICK v \in values : \A w \in values : <<w, v>> \notin Smaller
  BY <1>2, WFMin
<1>4. ASSUME NEW w \in values
      PROVE  v <= w
  <2>1. v \in Nat /\ w \in Nat /\ <<w, v>> \in Nat \X Nat
    OBVIOUS
  <2>2. ~(w < v)
    BY <1>3, <2>1 DEF Smaller
  <2> QED
    BY <2>1, <2>2
<1> QED
  BY <1>4

\* Points in half metres.
Plane == Int \X Int

-----------------------------------------------------------------------------
(* Where the relation of a position item comes from: the site model.       *)

\* A set of positions has a first one unless it is empty.
LEMMA FirstIn ==
    ASSUME NEW n \in Nat, NEW on \in SUBSET (1..n)
    PROVE  /\ on = {} => FirstOf(on) = 0
           /\ on # {} => FirstOf(on) \in on /\ \A j \in on : FirstOf(on) <= j
<1>1. CASE on = {}
  BY <1>1 DEF FirstOf
<1>2. CASE on # {}
  <2>1. on \in SUBSET Nat
    OBVIOUS
  <2>2. \E i \in on : \A j \in on : i <= j
    BY <1>2, <2>1, LeastOf
  <2> QED
    BY <1>2, <2>2 DEF FirstOf
<1> QED
  BY <1>1, <1>2

\* What the assumption on layouts says of one version.
LEMMA LayoutTyped ==
    ASSUME NEW v \in Versions
    PROVE  /\ Layouts[v] \in Seq(Zones) /\ Len(Layouts[v]) \in Nat
           /\ DOMAIN Layouts[v] = 1..Len(Layouts[v])
           /\ \A i \in DOMAIN Layouts[v] :
                 /\ Layouts[v][i] \in Zones
                 /\ Layouts[v][i].zoneId \in ZoneNames
                 /\ Layouts[v][i].polygon \in Seq(Plane)
<1>1. Layouts[v] \in Seq(Zones)
  BY LayoutAssumption DEF LayoutsWellFormed, Versions
<1>2. \A i \in DOMAIN Layouts[v] : Layouts[v][i] \in Zones
  BY <1>1
<1> QED
  BY <1>1, <1>2 DEF Zones, Plane

\* Every report is resolved to a relation, under a zone of the layout or none.
LEMMA ResolveTyped ==
    ASSUME NEW v \in Versions, NEW location \in Locations
    PROVE  /\ ResolveZone(Layouts[v], location).relation \in Relations
           /\ ResolveZone(Layouts[v], location).zone \in ZoneNames \cup {None}
<1> DEFINE zones == Layouts[v]
           candidates == Candidates(zones, location.floor)
           resolved == ResolveZone(zones, location)
<1>0. DOMAIN zones = 1..Len(zones) /\ Len(zones) \in Nat
  BY LayoutTyped
<1>1. candidates \in SUBSET DOMAIN zones
  BY DEF Candidates
<1>2. ASSUME NEW name
      PROVE  RelationOfNamed(zones, name) \in Relations
  BY DEF RelationOfNamed, Relations
<1>3. ASSUME NEW p
      PROVE  /\ ResolvePoint(zones, candidates, p).relation \in Relations
             /\ ResolvePoint(zones, candidates, p).zone \in ZoneNames \cup {None}
  <2> DEFINE point == ResolvePoint(zones, candidates, p)
             within == {i \in candidates : PointInPolygon(p, zones[i].polygon)}
             risk == {i \in candidates : zones[i].kind \in RiskZoneKinds}
             distance == [i \in risk |-> DistanceToPolygon(p, zones[i].polygon)]
             closest == {i \in risk : \A j \in risk : NotFurther(distance[i], distance[j])}
             containing == FirstOf(within)
             nearest == FirstOf(closest)
             named(i) == IF i = 0 THEN None ELSE zones[i].zoneId
  <2>1. /\ point.relation \in {"inside_risk_zone", "approaching", "safe", "coverage_unknown"}
        /\ point.zone \in {named(containing), named(nearest)}
    <3>1. point = CASE containing \in risk -> Result(named(containing), "inside_risk_zone")
                    [] /\ containing \notin risk
                       /\ nearest # 0 /\ Within(distance[nearest], zones[nearest].buffer)
                       -> Result(IF containing # 0 THEN named(containing) ELSE named(nearest),
                                      "approaching")
                    [] OTHER -> Result(named(containing),
                                       IF containing # 0 THEN "safe" ELSE "coverage_unknown")
      BY DEF ResolvePoint
    <3> HIDE DEF point, within, risk, distance, closest, containing, nearest, named
    <3> QED
      BY <3>1 DEF Result
  <2>2. containing = 0 \/ containing \in DOMAIN zones
    <3>1. within \in SUBSET (1..Len(zones)) /\ Len(zones) \in Nat
      BY <1>0, <1>1
    <3> HIDE DEF within
    <3> QED
      BY <1>0, <3>1, FirstIn
  <2>3. nearest = 0 \/ nearest \in DOMAIN zones
    <3>1. closest \in SUBSET (1..Len(zones)) /\ Len(zones) \in Nat
      BY <1>0, <1>1
    <3> HIDE DEF closest
    <3> QED
      BY <1>0, <3>1, FirstIn
  <2>4. ASSUME NEW i, i = 0 \/ i \in DOMAIN zones
        PROVE  named(i) \in ZoneNames \cup {None}
    BY <2>4, LayoutTyped
  <2> HIDE DEF point, containing, nearest, named
  <2>5. named(containing) \in ZoneNames \cup {None} /\ named(nearest) \in ZoneNames \cup {None}
    BY <2>2, <2>3, <2>4
  <2> QED
    BY <2>1, <2>5 DEF point, Relations
<1>4. location.zone \in ZoneNames \cup {None}
  BY DEF Locations
<1>5. \/ resolved = Result(location.zone, RelationOfNamed(zones, location.zone))
      \/ resolved = Result(None, "coverage_unknown")
      \/ resolved = ResolvePoint(zones, candidates, location.at)
  BY DEF ResolveZone
<1> HIDE DEF resolved, candidates
<1> QED
  BY <1>2, <1>3, <1>4, <1>5 DEF Result, Relations, resolved

\* Once a version is stored there is one active version.
OneVersion ==
    DOMAIN stored # {} /\ ~crossed => \E v \in DOMAIN stored : ActiveVersions = {v}

\* The first versions about to be stored are the one of the file, and active;
\* later ones are stored as active if they are the active version.
SeededInStep ==
    ~crossed => \A p \in Seeders : seeder[p].pc = "found" =>
        IF DOMAIN stored = {} THEN seeder[p].version = file /\ seeder[p].active
        ELSE seeder[p].active <=> seeder[p].version \in ActiveVersions

\* What is about to be stored is a version.
SeededVersion == \A p \in Seeders : seeder[p].pc = "found" => seeder[p].version \in Versions

\* An evaluated report shows what its layout says of its position.
Resolved ==
    event = "evaluated" =>
        /\ report # None /\ report.by \in Versions
        /\ report.relation = ResolveZone(Layouts[report.by], report.location).relation

\* The inductive invariant of the site model.
SiteInv == TypeOK /\ OneVersion /\ SeededInStep /\ SeededVersion /\ Resolved

\* It holds when the process starts,
LEMMA SiteInit == Init => SiteInv
<1> SUFFICES ASSUME Init
             PROVE  SiteInv
  OBVIOUS
<1> USE DEF Init
<1>1. 1 \in Versions
  BY LayoutAssumption DEF LayoutsWellFormed, Versions
<1>2. DOMAIN stored = {}
  OBVIOUS
<1>3. TypeOK
  <2>1. seeder \in [Seeders -> [pc : {"idle", "found"}, version : Versions \cup {0},
                                active : BOOLEAN]]
    BY DEF Idle
  <2>2. MaxDeploys \in Nat
    BY LayoutAssumption DEF LayoutsWellFormed
  <2>3. deploys \in 0..MaxDeploys
    BY <2>2
  <2>4. crossed \in BOOLEAN
    BY Zenon
  <2> QED
    BY <1>1, <1>2, <2>1, <2>3, <2>4 DEF TypeOK
<1>4. OneVersion /\ SeededInStep /\ SeededVersion /\ Resolved
  BY <1>2 DEF OneVersion, SeededInStep, SeededVersion, Idle, Resolved
<1> QED
  BY <1>3, <1>4 DEF SiteInv

\* What a request that does not seed leaves alone.
LEMMA SeedingStands ==
    ASSUME SiteInv, UNCHANGED <<file, stored, seeder, crossed>>
    PROVE  OneVersion' /\ SeededInStep' /\ SeededVersion'
<1>1. ActiveVersions' = ActiveVersions
  BY DEF ActiveVersions
<1> QED
  BY <1>1 DEF SiteInv, OneVersion, SeededInStep, SeededVersion

\* and every step keeps it: looking for an active version,
LEMMA SeedStep ==
    ASSUME SiteInv, NEW p \in Seeders, Seed(p)
    PROVE  SiteInv'
<1> USE DEF SiteInv, Seed, store, reports, delivery
<1>1. PICK found \in IF ActiveVersions = {} THEN {{}} ELSE {{v} : v \in ActiveVersions} :
        seeder' = [seeder EXCEPT ![p] = [pc |-> "found", version |-> file,
                                         active |-> BecomesActive(file, found)]]
  OBVIOUS
<1>2. UNCHANGED <<file, stored, layout, case, report, event, deploys, crossed>>
  OBVIOUS
<1>3. ActiveVersions' = ActiveVersions
  BY <1>2 DEF ActiveVersions
<1>4. ~crossed => (BecomesActive(file, found) <=> DOMAIN stored = {} \/ file \in ActiveVersions)
  <2> SUFFICES ASSUME ~crossed
               PROVE  (BecomesActive(file, found) <=> DOMAIN stored = {} \/ file \in ActiveVersions)
    OBVIOUS
  <2>1. CASE DOMAIN stored = {}
    <3>1. ActiveVersions = {} /\ found = {}
      BY <1>1, <2>1 DEF ActiveVersions
    <3> QED
      BY <2>1, <3>1 DEF BecomesActive
  <2>2. CASE DOMAIN stored # {}
    <3>1. PICK v \in DOMAIN stored : ActiveVersions = {v}
      BY <2>2 DEF OneVersion
    <3>2. found = {v}
      BY <1>1, <3>1
    <3> QED
      BY <2>2, <3>1, <3>2 DEF BecomesActive
  <2> QED
    BY <2>1, <2>2
<1>5. BecomesActive(file, found) \in BOOLEAN
  BY DEF BecomesActive
<1>6. TypeOK'
  BY <1>1, <1>2, <1>5 DEF TypeOK
<1>7. OneVersion' /\ Resolved'
  BY <1>2, <1>3 DEF OneVersion, Resolved
<1>8. seeder \in [Seeders -> [pc : {"idle", "found"},
                                   version : Versions \cup {0}, active : BOOLEAN]]
  BY DEF TypeOK
<1>9. /\ seeder'[p].version = file /\ seeder'[p].active = BecomesActive(file, found)
      /\ \A q \in Seeders : q # p => seeder'[q] = seeder[q]
  BY <1>1, <1>8
<1>10. SeededInStep'
  <2> SUFFICES ASSUME NEW q \in Seeders, seeder'[q].pc = "found", ~crossed
               PROVE  IF DOMAIN stored = {} THEN seeder'[q].version = file /\ seeder'[q].active
                      ELSE seeder'[q].active <=> seeder'[q].version \in ActiveVersions
    BY <1>2, <1>3 DEF SeededInStep
  <2>1. CASE q = p
    BY <1>4, <1>9, <2>1
  <2>2. CASE q # p
    BY <1>9, <2>2 DEF SeededInStep
  <2> QED
    BY <2>1, <2>2
<1>11. SeededVersion'
  BY <1>9 DEF SeededVersion, TypeOK
<1> QED
  BY <1>6, <1>7, <1>10, <1>11

\* storing what was seeded,
LEMMA UpsertStep ==
    ASSUME SiteInv, NEW p \in Seeders, Upsert(p)
    PROVE  SiteInv'
<1> DEFINE version == seeder[p].version
<1> USE DEF SiteInv
<1>1. /\ seeder[p].pc = "found"
      /\ stored' = [v \in DOMAIN stored \cup {version} |->
                      IF v = version THEN seeder[p].active ELSE stored[v]]
      /\ layout' = IF p = "api" THEN version ELSE layout
      /\ case' = IF p = "api" THEN version ELSE case
      /\ seeder' = [seeder EXCEPT ![p] = Idle]
      /\ UNCHANGED <<file, report, event, deploys, crossed>>
  BY DEF Upsert, reports, delivery
<1>2. seeder \in [Seeders -> [pc : {"idle", "found"},
                                   version : Versions \cup {0}, active : BOOLEAN]]
  BY DEF TypeOK
<1>3. version \in Versions /\ seeder[p].active \in BOOLEAN
  BY <1>1, <1>2 DEF SeededVersion
<1> HIDE DEF version
<1>4. /\ DOMAIN stored' = DOMAIN stored \cup {version}
      /\ stored'[version] = seeder[p].active
      /\ \A v \in DOMAIN stored : v # version => stored'[v] = stored[v]
  BY <1>1, <1>3
<1>5. ~crossed =>
         /\ DOMAIN stored = {} => ActiveVersions' = {version} /\ version = file
         /\ DOMAIN stored # {} => ActiveVersions' = ActiveVersions
  <2>1. ASSUME ~crossed, DOMAIN stored = {}
        PROVE  ActiveVersions' = {version} /\ version = file
    <3>1. version = file /\ seeder[p].active
      BY <1>1, <2>1 DEF SeededInStep, version
    <3> QED
      BY <1>4, <2>1, <3>1 DEF ActiveVersions
  <2>2. ASSUME ~crossed, DOMAIN stored # {}
        PROVE  ActiveVersions' = ActiveVersions
    <3>1. seeder[p].active <=> version \in ActiveVersions
      BY <1>1, <2>2 DEF SeededInStep, version
    <3>2. ASSUME NEW v
          PROVE  v \in ActiveVersions' <=> v \in ActiveVersions
      <4>1. CASE v = version
        BY <1>4, <3>1, <4>1 DEF ActiveVersions
      <4>2. CASE v # version
        BY <1>4, <4>2 DEF ActiveVersions
      <4> QED
        BY <4>1, <4>2
    <3> QED
      BY <3>2
  <2> QED
    BY <2>1, <2>2
<1>6. TypeOK'
  BY <1>1, <1>2, <1>3, <1>4 DEF TypeOK, Idle, version
<1>7. OneVersion'
  BY <1>1, <1>4, <1>5 DEF OneVersion
<1>8. ASSUME NEW q \in Seeders, seeder'[q].pc = "found"
      PROVE  q # p /\ seeder'[q] = seeder[q] /\ seeder[q].pc = "found"
  BY <1>1, <1>2, <1>8 DEF Idle
<1>9. SeededInStep'
  <2> SUFFICES ASSUME NEW q \in Seeders, seeder'[q].pc = "found", ~crossed
               PROVE  seeder'[q].active <=> seeder'[q].version \in ActiveVersions'
    BY <1>1, <1>4 DEF SeededInStep
  <2>1. seeder'[q] = seeder[q] /\ seeder[q].pc = "found"
    BY <1>8
  <2>2. CASE DOMAIN stored = {}
    BY <1>5, <2>1, <2>2 DEF SeededInStep
  <2>3. CASE DOMAIN stored # {}
    BY <1>5, <2>1, <2>3 DEF SeededInStep
  <2> QED
    BY <2>2, <2>3
<1>10. SeededVersion'
  BY <1>8 DEF SeededVersion
<1>11. Resolved'
  BY <1>1 DEF Resolved
<1> QED
  BY <1>6, <1>7, <1>9, <1>10, <1>11

\* the end of a seeding process,
LEMMA StopStep ==
    ASSUME SiteInv, NEW p \in Seeders, Stop(p)
    PROVE  SiteInv'
<1> USE DEF SiteInv, Stop, store, delivery
<1>1. seeder \in [Seeders -> [pc : {"idle", "found"},
                                   version : Versions \cup {0}, active : BOOLEAN]]
  BY DEF TypeOK
<1>2. TypeOK'
  BY <1>1 DEF TypeOK, Idle
<1>3. ActiveVersions' = ActiveVersions /\ UNCHANGED <<file, stored, crossed>>
  BY DEF ActiveVersions
<1>4. OneVersion' /\ Resolved'
  BY <1>3 DEF OneVersion, Resolved
<1>5. ASSUME NEW q \in Seeders, seeder'[q].pc = "found"
      PROVE  seeder'[q] = seeder[q]
  BY <1>1, <1>5 DEF Idle
<1>6. SeededInStep' /\ SeededVersion'
  BY <1>3, <1>5 DEF SeededInStep, SeededVersion
<1> QED
  BY <1>2, <1>4, <1>6

\* the delivery of another file, at any time,
LEMMA DeployStep ==
    ASSUME SiteInv, NEW v \in Versions, Deploy(v)
    PROVE  SiteInv'
<1> USE DEF SiteInv, Deploy, store, reports
<1>1. TypeOK'
  BY LayoutAssumption DEF TypeOK, LayoutsWellFormed
<1>2. ActiveVersions' = ActiveVersions
  BY DEF ActiveVersions
<1>3. OneVersion' /\ Resolved' /\ SeededVersion'
  BY <1>2 DEF OneVersion, Resolved, SeededVersion
<1>4. SeededInStep'
  <2> SUFFICES ASSUME ~crossed', NEW p \in Seeders, seeder[p].pc = "found"
               PROVE  /\ DOMAIN stored # {}
                      /\ (seeder[p].active <=> seeder[p].version \in ActiveVersions)
    BY <1>2 DEF SeededInStep
  <2>1. ~crossed /\ DOMAIN stored # {}
    OBVIOUS
  <2> QED
    BY <2>1 DEF SeededInStep
<1> QED
  BY <1>1, <1>3, <1>4

\* a report, and
LEMMA IngestStep ==
    ASSUME SiteInv,
           NEW location \in Locations, IngestWorkerPosition(location)
    PROVE  SiteInv'
<1> USE DEF SiteInv, IngestWorkerPosition, store, delivery
<1>1. report' \in Reports /\ report' # None
  BY LayoutAssumption DEF Reports, Relations, TypeOK, LayoutsWellFormed
<1>2. TypeOK'
  BY <1>1 DEF TypeOK
<1>3. OneVersion' /\ SeededInStep' /\ SeededVersion'
  BY SeedingStands
<1>4. Resolved'
  BY DEF Resolved
<1> QED
  BY <1>2, <1>3, <1>4

\* its evaluation, and
LEMMA EvaluateStep ==
    ASSUME SiteInv, EvaluatePosition
    PROVE  SiteInv'
<1> DEFINE resolution == ResolveZone(Layouts[layout], report.location)
<1> USE DEF SiteInv
<1>1. /\ layout \in Versions /\ report \in Reports
      /\ report' = [report EXCEPT !.relation = resolution.relation,
                                  !.zone = resolution.zone, !.by = layout]
      /\ event = "recorded" /\ event' = "evaluated"
      /\ UNCHANGED <<file, stored, case, layout, seeder, deploys, crossed>>
  BY DEF EvaluatePosition, store, delivery, TypeOK
<1>2. /\ resolution.relation \in Relations
      /\ resolution.zone \in ZoneNames \cup {None}
  BY <1>1, ResolveTyped DEF Reports
<1> HIDE DEF resolution
<1>3. /\ report' \in Reports /\ report' # None
      /\ report'.by = layout /\ report'.location = report.location
      /\ report'.relation = resolution.relation
  BY LayoutAssumption, <1>1, <1>2 DEF Reports, LayoutsWellFormed
<1>4. TypeOK'
  BY <1>1, <1>3 DEF TypeOK
<1>5. OneVersion' /\ SeededInStep' /\ SeededVersion'
  BY <1>1, SeedingStands
<1>6. Resolved'
  BY <1>1, <1>3 DEF Resolved, resolution
<1> QED
  BY <1>4, <1>5, <1>6

\* the reset of the case.
LEMMA ResetStep ==
    ASSUME SiteInv, ResetCase
    PROVE  SiteInv'
<1> USE DEF SiteInv, ResetCase, store, delivery
<1>1. TypeOK'
  BY DEF TypeOK
<1>2. OneVersion' /\ SeededInStep' /\ SeededVersion'
  BY SeedingStands
<1>3. Resolved'
  BY DEF Resolved
<1> QED
  BY <1>1, <1>2, <1>3

\* All steps together.
LEMMA SiteStep == SiteInv /\ [Next]_vars => SiteInv'
<1> SUFFICES ASSUME SiteInv, [Next]_vars
             PROVE  SiteInv'
  OBVIOUS
<1>1. CASE UNCHANGED vars
  <2>1. UNCHANGED <<file, stored, layout, case, seeder, report, event, deploys, crossed>>
    BY <1>1 DEF vars
  <2>2. TypeOK' /\ Resolved'
    BY <2>1 DEF SiteInv, TypeOK, Resolved
  <2> QED
    BY <2>1, <2>2, SeedingStands DEF SiteInv
<1> QED
  BY <1>1, SeedStep, UpsertStep, StopStep, DeployStep, IngestStep, EvaluateStep,
     ResetStep DEF Next

\* The types of the site model, of its seeders and of the report in work, for
\* any layouts and any number of replacements of the file.
THEOREM SiteTypeCorrect == Spec => []TypeOK
<1>1. SiteInv => TypeOK
  BY DEF SiteInv
<1> QED
  BY <1>1, SiteInit, SiteStep, PTL DEF Spec

\* Once a version of the site model is stored there is exactly one active
\* version, however the application and the import script overlap, stop and
\* start again and whenever the file is replaced, unless that was in the middle
\* of the first seeding.  (seed_site_model.)
THEOREM OneActiveHolds == Spec => []OneActive
<1>1. SiteInv => OneActive
  BY FS_Singleton DEF SiteInv, OneVersion, OneActive
<1> QED
  BY <1>1, SiteInit, SiteStep, PTL DEF Spec

-----------------------------------------------------------------------------
(* Segments of the plane *)

\* On different sides of zero, or at zero.
Opposite(x, y) == (x >= 0 /\ y <= 0) \/ (x <= 0 /\ y >= 0)

\* The segments from q to p and from a to b meet, and not along a line.
Meets(q, p, a, b) ==
    /\ Cross(a, b, q) # Cross(a, b, p)
    /\ Opposite(Cross(a, b, q), Cross(a, b, p))
    /\ Opposite(Cross(q, p, a), Cross(q, p, b))

\* How far two points l, h are to the side of a segment a, b, and how far a, b
\* are to the side of l, h: the two identities between these four numbers.
LEMMA Sides ==
    ASSUME NEW ax \in Int, NEW ay \in Int, NEW bx \in Int, NEW by \in Int,
           NEW lx \in Int, NEW ly \in Int, NEW hx \in Int, NEW hy \in Int,
           NEW Y \in Int
    PROVE  LET sl == (bx - ax) * (ly - ay) - (by - ay) * (lx - ax)
               sh == (bx - ax) * (hy - ay) - (by - ay) * (hx - ax)
               ta == (hx - lx) * (ay - ly) - (hy - ly) * (ax - lx)
               tb == (hx - lx) * (by - ly) - (hy - ly) * (bx - lx)
           IN  /\ sh - sl = ta - tb
               /\ sh * (ly - Y) - sl * (hy - Y) = ta * (by - Y) - tb * (ay - Y)
BY SMTT(60)

\* The cross product of two vectors is at most the product of their lengths.
LEMMA Lagrange ==
    ASSUME NEW vx \in Int, NEW vy \in Int, NEW dx \in Int, NEW dy \in Int
    PROVE  (vx * dy - vy * dx) * (vx * dy - vy * dx)
              <= (dx * dx + dy * dy) * (vx * vx + vy * vy)
<1> DEFINE along == vx * dx + vy * dy
<1>1. along \in Int /\ along * along >= 0
  BY SMT
<1>2. (dx * dx + dy * dy) * (vx * vx + vy * vy)
         = (vx * dy - vy * dx) * (vx * dy - vy * dx) + along * along
  BY SMTT(30)
<1> HIDE DEF along
<1> QED
  BY <1>1, <1>2, SMT

\* A vector w that reaches the line through a point, in direction v, is no
\* longer than the vector d that crosses this line further on, if w and v do
\* not point away from each other.
LEMMA Before ==
    ASSUME NEW vx \in Int, NEW vy \in Int, NEW dx \in Int, NEW dy \in Int,
           NEW wx \in Int, NEW wy \in Int, NEW g \in Int, NEW D \in Int, NEW t \in Int,
           g * dx = D * wx + t * vx, g * dy = D * wy + t * vy,
           D # 0, g * g <= D * D, D * t >= 0, wx * vx + wy * vy >= 0
    PROVE  wx * wx + wy * wy <= dx * dx + dy * dy
<1> DEFINE W == wx * wx + wy * wy
           V == vx * vx + vy * vy
           E == dx * dx + dy * dy
           wv == wx * vx + wy * vy
<1>1. W \in Int /\ V \in Int /\ E \in Int /\ wv \in Int /\ V >= 0 /\ E >= 0
  BY SMT
<1>2. (g * g) * E = (D * D) * W + 2 * (D * t) * wv + (t * t) * V
  <2>1. (g * g) * E = (g * dx) * (g * dx) + (g * dy) * (g * dy)
    BY SMTT(30)
  <2>2. (g * g) * E = (D * wx + t * vx) * (D * wx + t * vx) + (D * wy + t * vy) * (D * wy + t * vy)
    BY <2>1
  <2>3. (D * wx + t * vx) * (D * wx + t * vx) + (D * wy + t * vy) * (D * wy + t * vy)
          = (D * D) * W + 2 * (D * t) * wv + (t * t) * V
    BY SMTT(30)
  <2> QED
    BY <2>2, <2>3
<1> HIDE DEF W, V, E, wv
<1>3. 2 * (D * t) * wv >= 0 /\ (t * t) * V >= 0 /\ (g * g) * E <= (D * D) * E
  BY <1>1, SMTT(30) DEF wv
<1>4. (D * D) * W <= (D * D) * E
  BY <1>1, <1>2, <1>3, SMTT(30)
<1>5. D * D > 0
  BY SMT
<1>6. D * D \in Int /\ (\A k \in Int : k > 0 /\ k * W <= k * E => W <= E)
  BY <1>1, SMTT(30)
<1>7. W <= E
  BY <1>4, <1>5, <1>6
<1> QED
  BY <1>7 DEF W, E

\* Sides are counted in integers.
LEMMA CrossTyped ==
    ASSUME NEW a \in Plane, NEW b \in Plane, NEW p \in Plane
    PROVE  Cross(a, b, p) \in Int
<1>1. /\ a[1] \in Int /\ a[2] \in Int /\ b[1] \in Int /\ b[2] \in Int
      /\ p[1] \in Int /\ p[2] \in Int
  BY DEF Plane
<1> QED
  BY <1>1 DEF Cross

\* Sides, for points.
LEMMA Exchange ==
    ASSUME NEW a \in Plane, NEW b \in Plane, NEW l \in Plane, NEW h \in Plane, NEW Y \in Int
    PROVE  /\ Cross(a, b, h) - Cross(a, b, l) = Cross(l, h, a) - Cross(l, h, b)
           /\ Cross(a, b, h) * (l[2] - Y) - Cross(a, b, l) * (h[2] - Y)
                 = Cross(l, h, a) * (b[2] - Y) - Cross(l, h, b) * (a[2] - Y)
<1>1. /\ a[1] \in Int /\ a[2] \in Int /\ b[1] \in Int /\ b[2] \in Int
      /\ l[1] \in Int /\ l[2] \in Int /\ h[1] \in Int /\ h[2] \in Int
  BY DEF Plane
<1> QED
  BY <1>1, Sides DEF Cross

\* East of the segment from l up to h.
East(l, h, x) == l[2] < x[2] /\ x[2] <= h[2] /\ Cross(l, h, x) < 0

\* Walking from l up to h without meeting the segment from a up to b, the rays
\* from both count the segment alike exactly if both its ends are east of the
\* way or none is.
LEMMA EdgeParity ==
    ASSUME NEW a \in Plane, NEW b \in Plane, NEW l \in Plane, NEW h \in Plane,
           l[2] <= h[2], ~Meets(l, h, a, b), a[2] <= b[2]
    PROVE  (Crossed(l, a, b) <=> Crossed(h, a, b)) <=> (East(l, h, a) <=> East(l, h, b))
<1> DEFINE sl == Cross(a, b, l)
           sh == Cross(a, b, h)
           ta == Cross(l, h, a)
           tb == Cross(l, h, b)
           ay == a[2]
           by == b[2]
           ly == l[2]
           hy == h[2]
<1>1. /\ sl \in Int /\ sh \in Int /\ ta \in Int /\ tb \in Int
      /\ ay \in Int /\ by \in Int /\ ly \in Int /\ hy \in Int
  BY CrossTyped DEF Plane
<1>2. /\ sh - sl = ta - tb
      /\ \A Y \in Int : sh * (ly - Y) - sl * (hy - Y) = ta * (by - Y) - tb * (ay - Y)
  BY Exchange
<1> DEFINE cl == Crossed(l, a, b)
           ch == Crossed(h, a, b)
           ea == East(l, h, a)
           eb == East(l, h, b)
<1>3. /\ cl <=> ay <= ly /\ ly < by /\ sl > 0
      /\ ch <=> ay <= hy /\ hy < by /\ sh > 0
  BY <1>1 DEF Crossed
<1>4. /\ ea <=> ly < ay /\ ay <= hy /\ ta < 0
      /\ eb <=> ly < by /\ by <= hy /\ tb < 0
  BY DEF East
<1>5. ~(sl # sh /\ Opposite(sl, sh) /\ Opposite(ta, tb))
  BY DEF Meets
<1>6. ly <= hy /\ ay <= by
  OBVIOUS
<1> HIDE DEF sl, sh, ta, tb, ay, by, ly, hy, cl, ch, ea, eb
<1>7. /\ sh * (ly - ly) - sl * (hy - ly) = ta * (by - ly) - tb * (ay - ly)
      /\ sh * (ly - by) - sl * (hy - by) = ta * (by - by) - tb * (ay - by)
      /\ sh * (ly - hy) - sl * (hy - hy) = ta * (by - hy) - tb * (ay - hy)
      /\ sh * (ly - ay) - sl * (hy - ay) = ta * (by - ay) - tb * (ay - ay)
  BY <1>1, <1>2
<1>a. -(sl * (hy - ly)) = ta * (by - ly) - tb * (ay - ly)
  BY <1>1, <1>7
<1>b. sh * (ly - by) - sl * (hy - by) = -(tb * (ay - by))
  BY <1>1, <1>7
<1>c. sh * (ly - hy) = ta * (by - hy) - tb * (ay - hy)
  BY <1>1, <1>7
<1>d. sh * (ly - ay) - sl * (hy - ay) = ta * (by - ay)
  BY <1>1, <1>7
<1>8. CASE by <= ly \/ ay > hy
  <2>1. ~cl /\ ~ch /\ ~ea /\ ~eb
    BY <1>1, <1>3, <1>4, <1>6, <1>8
  <2> QED
    BY <2>1, Zenon DEF cl, ch, ea, eb
<1>9. CASE ay <= ly /\ ly < by /\ by <= hy
  <2>1. (sl > 0) <=> (tb < 0)
    <3>1. ASSUME sl > 0, tb >= 0
          PROVE  FALSE
      <4>1. ta < 0
        BY <1>1, <1>9, <1>a, <3>1, SMTT(30)
      <4>2. sh <= 0
        BY <1>1, <1>9, <1>b, <3>1, SMTT(30)
      <4> QED
        BY <1>1, <1>5, <3>1, <4>1, <4>2 DEF Opposite
    <3>2. ASSUME sl <= 0, tb < 0
          PROVE  FALSE
      <4>1. ta >= 0
        BY <1>1, <1>9, <1>a, <3>2, SMTT(30)
      <4>2. sh > 0
        BY <1>1, <1>9, <1>b, <3>2, SMTT(30)
      <4> QED
        BY <1>1, <1>5, <3>2, <4>1, <4>2 DEF Opposite
    <3> QED
      BY <1>1, <3>1, <3>2
  <2>2. (cl <=> sl > 0) /\ ~ch /\ ~ea /\ (eb <=> tb < 0)
    BY <1>1, <1>3, <1>4, <1>6, <1>9
  <2> QED
    BY <2>1, <2>2, Zenon DEF cl, ch, ea, eb
<1>10. CASE ly < ay /\ ay <= hy /\ by <= hy
  <2>1. (ta < 0) <=> (tb < 0)
    <3>1. ASSUME ta < 0, tb >= 0
          PROVE  FALSE
      <4>1. sl > 0
        BY <1>1, <1>6, <1>10, <1>a, <3>1
      <4>2. sh <= 0
        BY <1>1, <1>6, <1>10, <1>c, <3>1
      <4> QED
        BY <1>1, <1>5, <3>1, <4>1, <4>2 DEF Opposite
    <3>2. ASSUME ta >= 0, tb < 0
          PROVE  FALSE
      <4>1. sl < 0
        BY <1>1, <1>6, <1>10, <1>a, <3>2
      <4>2. sh >= 0
        BY <1>1, <1>6, <1>10, <1>c, <3>2
      <4> QED
        BY <1>1, <1>5, <3>2, <4>1, <4>2 DEF Opposite
    <3> QED
      BY <1>1, <3>1, <3>2
  <2>2. ~cl /\ ~ch /\ (ea <=> ta < 0) /\ (eb <=> tb < 0)
    BY <1>1, <1>3, <1>4, <1>6, <1>10
  <2> QED
    BY <2>1, <2>2, Zenon DEF cl, ch, ea, eb
<1>11. CASE ly < ay /\ ay <= hy /\ hy < by
  <2>1. (sh > 0) <=> (ta < 0)
    <3>1. ASSUME sh > 0, ta >= 0
          PROVE  FALSE
      <4>1. tb < 0
        BY <1>1, <1>6, <1>11, <1>c, <3>1
      <4>2. sl < 0
        BY <1>1, <1>6, <1>11, <1>d, <3>1
      <4> QED
        BY <1>1, <1>5, <3>1, <4>1, <4>2 DEF Opposite
    <3>2. ASSUME sh <= 0, ta < 0
          PROVE  FALSE
      <4>1. tb > 0
        BY <1>1, <1>6, <1>11, <1>c, <3>2
      <4>2. sl > 0
        BY <1>1, <1>6, <1>11, <1>d, <3>2
      <4> QED
        BY <1>1, <1>5, <3>2, <4>1, <4>2 DEF Opposite
    <3> QED
      BY <1>1, <3>1, <3>2
  <2>2. ~cl /\ (ch <=> sh > 0) /\ (ea <=> ta < 0) /\ ~eb
    BY <1>1, <1>3, <1>4, <1>6, <1>11
  <2> QED
    BY <2>1, <2>2, Zenon DEF cl, ch, ea, eb
<1>12. CASE ay <= ly /\ hy < by
  <2>1. (sl > 0) <=> (sh > 0)
    <3>1. ASSUME sl > 0, sh <= 0
          PROVE  FALSE
      <4>1. ta > 0 => tb < 0
        BY <1>1, <1>6, <1>12, <1>a, <3>1
      <4>2. ta < 0 => tb > 0
        BY <1>1, <1>6, <1>12, <1>a, <1>c, <3>1
      <4> QED
        BY <1>1, <1>5, <3>1, <4>1, <4>2 DEF Opposite
    <3>2. ASSUME sl <= 0, sh > 0
          PROVE  FALSE
      <4>1. ta > 0 => tb < 0
        BY <1>1, <1>6, <1>12, <1>a, <1>c, <3>2
      <4>2. ta < 0 => tb > 0
        BY <1>1, <1>6, <1>12, <1>a, <3>2
      <4> QED
        BY <1>1, <1>5, <3>2, <4>1, <4>2 DEF Opposite
    <3> QED
      BY <1>1, <3>1, <3>2
  <2>2. (cl <=> sl > 0) /\ (ch <=> sh > 0) /\ ~ea /\ ~eb
    BY <1>1, <1>3, <1>4, <1>6, <1>12
  <2> QED
    BY <2>1, <2>2, Zenon DEF cl, ch, ea, eb
<1>13. \/ by <= ly \/ ay > hy
       \/ ay <= ly /\ ly < by /\ by <= hy
       \/ ly < ay /\ ay <= hy /\ by <= hy
       \/ ly < ay /\ ay <= hy /\ hy < by
       \/ ay <= ly /\ hy < by
  BY <1>1, <1>6
<1> QED
  BY <1>8, <1>9, <1>10, <1>11, <1>12, <1>13, Zenon

\* Neither the direction of an edge nor that of the way matters.
LEMMA Reversed ==
    ASSUME NEW a \in Plane, NEW b \in Plane, NEW p \in Plane, NEW q \in Plane
    PROVE  /\ Crossed(p, a, b) <=> Crossed(p, b, a)
           /\ Meets(q, p, a, b) <=> Meets(q, p, b, a)
           /\ Meets(q, p, a, b) <=> Meets(p, q, a, b)
<1>1. /\ a[1] \in Int /\ a[2] \in Int /\ b[1] \in Int /\ b[2] \in Int
      /\ p[1] \in Int /\ p[2] \in Int /\ q[1] \in Int /\ q[2] \in Int
  BY DEF Plane
<1>2. ASSUME NEW x \in Plane, NEW y \in Plane, NEW z \in Plane
      PROVE  Cross(x, y, z) = -Cross(y, x, z) /\ Cross(x, y, z) \in Int
  <2>1. /\ x[1] \in Int /\ x[2] \in Int /\ y[1] \in Int /\ y[2] \in Int
        /\ z[1] \in Int /\ z[2] \in Int
    BY DEF Plane
  <2> QED
    BY <2>1, SMTT(30) DEF Cross
<1>3. /\ Cross(a, b, p) = -Cross(b, a, p) /\ Cross(a, b, p) \in Int /\ Cross(b, a, p) \in Int
      /\ Cross(a, b, q) = -Cross(b, a, q) /\ Cross(a, b, q) \in Int /\ Cross(b, a, q) \in Int
      /\ Cross(q, p, a) = -Cross(p, q, a) /\ Cross(q, p, a) \in Int /\ Cross(p, q, a) \in Int
      /\ Cross(q, p, b) = -Cross(p, q, b) /\ Cross(q, p, b) \in Int /\ Cross(p, q, b) \in Int
  BY <1>2
<1>4. Crossed(p, a, b) <=> Crossed(p, b, a)
  BY <1>1, <1>3 DEF Crossed
<1>5. Meets(q, p, a, b) <=> Meets(q, p, b, a)
  BY <1>3 DEF Meets, Opposite
<1>6. Meets(q, p, a, b) <=> Meets(p, q, a, b)
  BY <1>3 DEF Meets, Opposite
<1> QED
  BY <1>4, <1>5, <1>6

\* No further from q than p is: the distance a segment is measured at.
Reached(q, p, a, b) ==
    LET d == DistanceToSegment(q, a, b)
    IN  d[1] <= Squared(q, p) * d[2]

\* Squared distances are natural numbers.
LEMMA SquaredTyped ==
    ASSUME NEW p \in Plane, NEW q \in Plane
    PROVE  Squared(p, q) \in Nat
<1>1. /\ p[1] - q[1] \in Int /\ p[2] - q[2] \in Int
  BY DEF Plane
<1>2. ASSUME NEW x \in Int
      PROVE  x * x \in Nat
  BY <1>2, SMT
<1> QED
  BY <1>1, <1>2 DEF Squared

\* The measured distance to a segment is at most s if each of its three cases
\* is: the foot of the perpendicular before a, beyond b, or between them.
LEMMA DistanceCases ==
    ASSUME NEW a \in Plane, NEW b \in Plane, NEW q \in Plane, NEW s \in Int,
           ((q[1] - a[1]) * (b[1] - a[1]) + (q[2] - a[2]) * (b[2] - a[2]) <= 0
               => Squared(q, a) <= s),
           ((q[1] - b[1]) * (a[1] - b[1]) + (q[2] - b[2]) * (a[2] - b[2]) <= 0
               => Squared(q, b) <= s),
           Cross(a, b, q) * Cross(a, b, q) <= s * Squared(a, b)
    PROVE  LET d == DistanceToSegment(q, a, b) IN d[1] <= s * d[2]
<1>1. /\ a[1] \in Int /\ a[2] \in Int /\ b[1] \in Int /\ b[2] \in Int
      /\ q[1] \in Int /\ q[2] \in Int
  BY DEF Plane
<1> DEFINE dot == (q[1] - a[1]) * (b[1] - a[1]) + (q[2] - a[2]) * (b[2] - a[2])
           back == (q[1] - b[1]) * (a[1] - b[1]) + (q[2] - b[2]) * (a[2] - b[2])
<1>2. dot \in Int /\ back \in Int /\ back = Squared(a, b) - dot
  BY <1>1, SMTT(30) DEF Squared
<1>3. Squared(a, b) \in Int /\ Squared(q, a) \in Int /\ Squared(q, b) \in Int
  BY SquaredTyped
<1>4. DistanceToSegment(q, a, b) =
         CASE dot <= 0 -> <<Squared(q, a), 1>>
           [] dot > 0 /\ dot >= Squared(a, b) -> <<Squared(q, b), 1>>
           [] OTHER -> <<Cross(a, b, q) * Cross(a, b, q), Squared(a, b)>>
  BY DEF DistanceToSegment
<1> HIDE DEF dot
<1>5. CASE dot <= 0
  BY <1>2, <1>3, <1>4, <1>5 DEF dot
<1>6. CASE ~(dot <= 0) /\ dot >= Squared(a, b)
  <2>1. Squared(q, b) <= s
    BY <1>2, <1>3, <1>6
  <2>2. DistanceToSegment(q, a, b) = <<Squared(q, b), 1>>
    BY <1>2, <1>4, <1>6
  <2> QED
    BY <1>3, <2>1, <2>2
<1>7. CASE ~(dot <= 0) /\ ~(dot >= Squared(a, b))
  BY <1>2, <1>4, <1>7
<1> QED
  BY <1>5, <1>6, <1>7

\* The way from q to p meets a segment: q is no further from the segment than
\* from p.
LEMMA MeetingReaches ==
    ASSUME NEW a \in Plane, NEW b \in Plane, NEW q \in Plane, NEW p \in Plane,
           Meets(q, p, a, b)
    PROVE  Reached(q, p, a, b)
<1>1. ASSUME NEW x \in Plane, NEW y \in Plane, Meets(q, p, x, y),
             (q[1] - x[1]) * (y[1] - x[1]) + (q[2] - x[2]) * (y[2] - x[2]) <= 0
      PROVE  Squared(q, x) <= Squared(q, p)
  <2> DEFINE g == Cross(x, y, q)
             D == Cross(x, y, q) - Cross(x, y, p)
             t == -Cross(q, p, x)
             wx == x[1] - q[1]
             wy == x[2] - q[2]
             vx == y[1] - x[1]
             vy == y[2] - x[2]
             dx == p[1] - q[1]
             dy == p[2] - q[2]
  <2>1. /\ q[1] \in Int /\ q[2] \in Int /\ p[1] \in Int /\ p[2] \in Int
        /\ x[1] \in Int /\ x[2] \in Int /\ y[1] \in Int /\ y[2] \in Int
    BY DEF Plane
  <2>2. /\ g \in Int /\ Cross(x, y, p) \in Int /\ Cross(q, p, x) \in Int
        /\ Cross(q, p, y) \in Int
    BY CrossTyped
  <2>3. D # 0 /\ g * g <= D * D /\ D * t >= 0
    <3>1. Cross(x, y, q) - Cross(x, y, p) = Cross(q, p, y) - Cross(q, p, x)
      BY <2>2, <2>1, Exchange
    <3>2. D # 0 /\ g * g <= D * D
      BY <1>1, <2>2, SMTT(30) DEF Meets, Opposite
    <3>3. D * t >= 0
      BY <1>1, <2>2, <3>1, SMTT(30) DEF Meets, Opposite
    <3> QED
      BY <3>2, <3>3
  <2>a. /\ wx \in Int /\ wy \in Int /\ vx \in Int /\ vy \in Int
        /\ dx \in Int /\ dy \in Int
    BY <2>1
  <2>b. g = vy * wx - vx * wy /\ t = dy * wx - dx * wy
    BY <2>1, SMTT(30) DEF Cross
  <2>c. D = vy * dx - vx * dy
    BY <2>1, SMTT(30) DEF Cross
  <2>4. g * dx = D * wx + t * vx /\ g * dy = D * wy + t * vy
    <3> HIDE DEF g, D, t, wx, wy, vx, vy, dx, dy
    <3> QED
      BY <2>a, <2>b, <2>c, SMTT(30)
  <2>5. wx * vx + wy * vy >= 0
    BY <1>1, <2>1, SMTT(30)
  <2>6. /\ wx \in Int /\ wy \in Int /\ vx \in Int /\ vy \in Int
        /\ dx \in Int /\ dy \in Int /\ D \in Int /\ t \in Int
    BY <2>1, <2>2
  <2> HIDE DEF g, D, t, wx, wy, vx, vy, dx, dy
  <2>7. wx * wx + wy * wy <= dx * dx + dy * dy
    BY <2>2, <2>3, <2>4, <2>5, <2>6, Before DEF g
  <2>8. Squared(q, x) = wx * wx + wy * wy /\ Squared(q, p) = dx * dx + dy * dy
    BY <2>1 DEF Squared, wx, wy, dx, dy
  <2> QED
    BY <2>7, <2>8
<1>2. Cross(a, b, q) * Cross(a, b, q) <= Squared(q, p) * Squared(a, b)
  <2> DEFINE D == Cross(a, b, q) - Cross(a, b, p)
             vx == b[1] - a[1]
             vy == b[2] - a[2]
             dx == p[1] - q[1]
             dy == p[2] - q[2]
  <2>1. /\ q[1] \in Int /\ q[2] \in Int /\ p[1] \in Int /\ p[2] \in Int
        /\ a[1] \in Int /\ a[2] \in Int /\ b[1] \in Int /\ b[2] \in Int
    BY DEF Plane
  <2>2. Cross(a, b, q) \in Int /\ Cross(a, b, p) \in Int
    BY CrossTyped
  <2>3. Cross(a, b, q) * Cross(a, b, q) <= D * D
    BY <2>2, SMTT(30) DEF Meets, Opposite
  <2>4. D = -(vx * dy - vy * dx)
    BY <2>1, SMTT(30) DEF Cross
  <2>5. vx \in Int /\ vy \in Int /\ dx \in Int /\ dy \in Int
    BY <2>1
  <2>6. Squared(q, p) = dx * dx + dy * dy /\ Squared(a, b) = vx * vx + vy * vy
    BY <2>1, SMTT(30) DEF Squared
  <2> HIDE DEF D, vx, vy, dx, dy
  <2>7. (vx * dy - vy * dx) * (vx * dy - vy * dx) <= (dx * dx + dy * dy) * (vx * vx + vy * vy)
    BY <2>5, Lagrange
  <2>8. D * D = (vx * dy - vy * dx) * (vx * dy - vy * dx)
    BY <2>4, <2>5
  <2> QED
    BY <2>2, <2>3, <2>5, <2>6, <2>7, <2>8
<1>3. Meets(q, p, b, a)
  BY Reversed
<1> QED
  BY <1>1, <1>2, <1>3, DistanceCases, SquaredTyped DEF Reached

\* A step w and a further step z along v, with no turn back, lead no nearer.
LEMMA ForwardTouch ==
    ASSUME NEW wx \in Int, NEW wy \in Int, NEW vx \in Int, NEW vy \in Int,
           NEW zx \in Int, NEW zy \in Int,
           vx * zy = vy * zx, wx * vx + wy * vy >= 0,
           (0 <= zx /\ zx <= vx) \/ (vx <= zx /\ zx <= 0),
           (0 <= zy /\ zy <= vy) \/ (vy <= zy /\ zy <= 0)
    PROVE  wx * wx + wy * wy <= (wx + zx) * (wx + zx) + (wy + zy) * (wy + zy)
<1> DEFINE wv == wx * vx + wy * vy
           wz == wx * zx + wy * zy
<1>1. wv \in Int /\ wz \in Int /\ wv >= 0
  OBVIOUS
<1>2. wz * vx = zx * wv /\ wz * vy = zy * wv
  BY SMTT(30)
<1>3. wz >= 0
  <2>1. CASE vx = 0 /\ vy = 0
    <3>1. zx = 0 /\ zy = 0
      BY <2>1
    <3> QED
      BY <3>1
  <2>2. CASE vx # 0
    <3> HIDE DEF wv, wz
    <3> QED
      BY <1>1, <1>2, <2>2, SMTT(30)
  <2>3. CASE vy # 0
    <3> HIDE DEF wv, wz
    <3> QED
      BY <1>1, <1>2, <2>3, SMTT(30)
  <2> QED
    BY <2>1, <2>2, <2>3
<1>4. (wx + zx) * (wx + zx) + (wy + zy) * (wy + zy)
        = wx * wx + wy * wy + 2 * wz + (zx * zx + zy * zy)
  BY SMTT(30)
<1>5. zx * zx >= 0 /\ zy * zy >= 0
  BY SMT
<1> HIDE DEF wz
<1> QED
  BY <1>1, <1>3, <1>4, <1>5

\* p lies on a segment: q is no further from the segment than from p.
LEMMA TouchingReaches ==
    ASSUME NEW a \in Plane, NEW b \in Plane, NEW q \in Plane, NEW p \in Plane,
           OnSegment(p, a, b)
    PROVE  Reached(q, p, a, b)
<1>1. ASSUME NEW x \in Plane, NEW y \in Plane, Cross(x, y, p) = 0,
             Between(p[1], x[1], y[1]), Between(p[2], x[2], y[2]),
             (q[1] - x[1]) * (y[1] - x[1]) + (q[2] - x[2]) * (y[2] - x[2]) <= 0
      PROVE  Squared(q, x) <= Squared(q, p)
  <2>1. /\ q[1] \in Int /\ q[2] \in Int /\ p[1] \in Int /\ p[2] \in Int
        /\ x[1] \in Int /\ x[2] \in Int /\ y[1] \in Int /\ y[2] \in Int
    BY DEF Plane
  <2> DEFINE wx == x[1] - q[1]
             wy == x[2] - q[2]
             vx == y[1] - x[1]
             vy == y[2] - x[2]
             zx == p[1] - x[1]
             zy == p[2] - x[2]
  <2>2. /\ wx \in Int /\ wy \in Int /\ vx \in Int /\ vy \in Int /\ zx \in Int /\ zy \in Int
    BY <2>1
  <2>3. vx * zy = vy * zx
    <3>1. Cross(x, y, p) = vx * zy - vy * zx
      BY DEF Cross
    <3>2. vx * zy \in Int /\ vy * zx \in Int /\ Cross(x, y, p) = 0
      BY <1>1, <2>2
    <3> HIDE DEF vx, vy, zx, zy
    <3> QED
      BY <3>1, <3>2
  <2>4. wx * vx + wy * vy >= 0
    BY <1>1, <2>1, SMTT(30)
  <2>5. /\ (0 <= zx /\ zx <= vx) \/ (vx <= zx /\ zx <= 0)
        /\ (0 <= zy /\ zy <= vy) \/ (vy <= zy /\ zy <= 0)
    BY <1>1, <2>1 DEF Between
  <2>6. /\ Squared(q, x) = wx * wx + wy * wy
        /\ Squared(q, p) = (wx + zx) * (wx + zx) + (wy + zy) * (wy + zy)
    BY <2>1 DEF Squared
  <2> HIDE DEF wx, wy, vx, vy, zx, zy
  <2> QED
    <3>1. wx * wx + wy * wy <= (wx + zx) * (wx + zx) + (wy + zy) * (wy + zy)
      BY <2>2, <2>3, <2>4, <2>5, ForwardTouch
    <3> QED
      BY <2>6, <3>1
<1>2. Cross(a, b, q) * Cross(a, b, q) <= Squared(q, p) * Squared(a, b)
  <2> DEFINE vx == b[1] - a[1]
             vy == b[2] - a[2]
             dx == p[1] - q[1]
             dy == p[2] - q[2]
             g  == Cross(a, b, q)
  <2>1. /\ q[1] \in Int /\ q[2] \in Int /\ p[1] \in Int /\ p[2] \in Int
        /\ a[1] \in Int /\ a[2] \in Int /\ b[1] \in Int /\ b[2] \in Int
    BY DEF Plane
  <2>2. g \in Int /\ Cross(a, b, p) = 0
    BY CrossTyped DEF OnSegment
  <2>3. g - Cross(a, b, p) = -(vx * dy - vy * dx)
    BY <2>1, SMTT(30) DEF Cross
  <2>4. vx \in Int /\ vy \in Int /\ dx \in Int /\ dy \in Int
    BY <2>1
  <2>5. Squared(q, p) = dx * dx + dy * dy /\ Squared(a, b) = vx * vx + vy * vy
    BY <2>1, SMTT(30) DEF Squared
  <2> HIDE DEF g, vx, vy, dx, dy
  <2>6. (vx * dy - vy * dx) * (vx * dy - vy * dx) <= (dx * dx + dy * dy) * (vx * vx + vy * vy)
    BY <2>4, Lagrange
  <2>7. g * g = (vx * dy - vy * dx) * (vx * dy - vy * dx)
    BY <2>2, <2>3, <2>4
  <2> QED
    BY <2>5, <2>6, <2>7 DEF g
<1>3. Cross(b, a, p) = 0
  <2>1. /\ p[1] \in Int /\ p[2] \in Int
        /\ a[1] \in Int /\ a[2] \in Int /\ b[1] \in Int /\ b[2] \in Int
    BY DEF Plane
  <2>2. Cross(a, b, p) = 0
    BY DEF OnSegment
  <2>3. Cross(b, a, p) = 0
    <3> DEFINE ux == b[1] - a[1]
               uy == b[2] - a[2]
               zx == p[1] - a[1]
               zy == p[2] - a[2]
    <3>1. ux \in Int /\ uy \in Int /\ zx \in Int /\ zy \in Int
      BY <2>1
    <3>2. Cross(a, b, p) = ux * zy - uy * zx
      BY DEF Cross
    <3>3. /\ a[1] - b[1] = -ux /\ a[2] - b[2] = -uy
          /\ p[2] - b[2] = zy - uy /\ p[1] - b[1] = zx - ux
      BY <2>1
    <3>4. Cross(b, a, p) = (-ux) * (zy - uy) - (-uy) * (zx - ux)
      BY <3>3 DEF Cross
    <3> HIDE DEF ux, uy, zx, zy
    <3>5. ux * zy - uy * zx = 0
      BY <2>2, <3>2
    <3> QED
      BY <3>1, <3>4, <3>5, SMTT(30)
  <2> QED
    BY <2>3
<1>4. /\ Cross(a, b, p) = 0
      /\ Between(p[1], a[1], b[1]) /\ Between(p[2], a[2], b[2])
      /\ Between(p[1], b[1], a[1]) /\ Between(p[2], b[2], a[2])
  BY DEF OnSegment, Between
<1> QED
  BY <1>1, <1>2, <1>3, <1>4, DistanceCases, SquaredTyped DEF Reached

-----------------------------------------------------------------------------
(* Outlines *)

\* What two finite sets do not share: as many elements, modulo two, as they
\* have together.
LEMMA SymmetricDifference ==
    ASSUME NEW L, NEW H, IsFiniteSet(L), IsFiniteSet(H)
    PROVE  /\ Cardinality(L) \in Nat /\ Cardinality(H) \in Nat
           /\ \E shared \in Nat :
                 Cardinality((L \ H) \cup (H \ L))
                     = Cardinality(L) + Cardinality(H) - 2 * shared
<1>1. /\ IsFiniteSet(L \ H) /\ Cardinality(L \ H) = Cardinality(L) - Cardinality(L \cap H)
      /\ IsFiniteSet(H \ L) /\ Cardinality(H \ L) = Cardinality(H) - Cardinality(H \cap L)
  BY FS_Difference
<1>2. IsFiniteSet(L \cap H) /\ H \cap L = L \cap H
  BY FS_Intersection
<1>3. /\ Cardinality(L) \in Nat /\ Cardinality(H) \in Nat /\ Cardinality(L \cap H) \in Nat
  BY <1>2, FS_CardinalityType
<1>4. Cardinality((L \ H) \cup (H \ L))
         = Cardinality(L \ H) + Cardinality(H \ L) - Cardinality((L \ H) \cap (H \ L))
  BY <1>1, FS_Union
<1>5. Cardinality((L \ H) \cap (H \ L)) = 0
  <2>1. (L \ H) \cap (H \ L) = {}
    OBVIOUS
  <2> QED
    BY <2>1, FS_EmptySet
<1>6. Cardinality(H \ L) = Cardinality(H) - Cardinality(L \cap H)
  BY <1>1, <1>2
<1> DEFINE l == Cardinality(L)
           h == Cardinality(H)
           s == Cardinality(L \cap H)
           x == Cardinality(L \ H)
           y == Cardinality(H \ L)
           z == Cardinality((L \ H) \cap (H \ L))
           u == Cardinality((L \ H) \cup (H \ L))
<1>7. /\ l \in Nat /\ h \in Nat /\ s \in Nat
      /\ x = l - s /\ y = h - s /\ z = 0 /\ u = x + y - z
  BY <1>1, <1>3, <1>4, <1>5, <1>6
<1> HIDE DEF l, h, s, x, y, z, u
<1>8. u = l + h - 2 * s
  BY <1>7
<1> QED
  BY <1>7, <1>8 DEF l, h, s, u

\* The edges the ray from q crosses.
Crossings(q, polygon) ==
    {i \in DOMAIN polygon : Crossed(q, Edge(polygon, i)[1], Edge(polygon, i)[2])}

\* The way from q to p meets an edge of the outline.
MeetsOutline(q, p, polygon) ==
    \E i \in DOMAIN polygon : Meets(q, p, Edge(polygon, i)[1], Edge(polygon, i)[2])

\* Around the outline: every vertex is the next one of exactly one vertex.
LEMMA NextVertex ==
    ASSUME NEW n \in Nat, n >= 1
    PROVE  /\ \A i \in 1..n : (i % n) + 1 \in 1..n
           /\ \A i, j \in 1..n : (i % n) + 1 = (j % n) + 1 => i = j
           /\ \A j \in 1..n : \E i \in 1..n : (i % n) + 1 = j
<1>1. \A i \in 1..n : i % n = IF i = n THEN 0 ELSE i
  BY SMTT(30)
<1>2. \A j \in 1..n : \E i \in 1..n : (i % n) + 1 = j
  <2> TAKE j \in 1..n
  <2>1. CASE j = 1
    <3>1. n \in 1..n /\ n % n = 0
      BY <1>1
    <3> QED
      BY <2>1, <3>1
  <2>2. CASE j # 1
    <3>1. j - 1 \in 1..n /\ (j - 1) % n = j - 1
      BY <1>1, <2>2
    <3> QED
      BY <3>1
  <2> QED
    BY <2>1, <2>2
<1> QED
  BY <1>1, <1>2

\* The edges of a polygon join points of the plane.
LEMMA EdgeTyped ==
    ASSUME NEW polygon \in Seq(Plane), NEW i \in DOMAIN polygon
    PROVE  Edge(polygon, i)[1] \in Plane /\ Edge(polygon, i)[2] \in Plane
<1>1. Len(polygon) \in Nat /\ Len(polygon) >= 1 /\ DOMAIN polygon = 1..Len(polygon)
  OBVIOUS
<1>2. i \in 1..Len(polygon) /\ (i % Len(polygon)) + 1 \in 1..Len(polygon)
  BY <1>1, NextVertex
<1> QED
  BY <1>1, <1>2 DEF Edge, Next1

\* On a way upwards that meets no edge the parity of the crossings stays: what
\* EdgeParity adds up to around the outline, where each vertex ends one edge
\* and begins one.
LEMMA ParityUpwards ==
    ASSUME NEW polygon \in Seq(Plane), polygon # <<>>,
           NEW l \in Plane, NEW h \in Plane, l[2] <= h[2], ~MeetsOutline(l, h, polygon)
    PROVE  Cardinality(Crossings(l, polygon)) % 2 = Cardinality(Crossings(h, polygon)) % 2
<1> DEFINE n == Len(polygon)
           next(i) == Next1(i, polygon)
           east(i) == East(l, h, polygon[i])
           S == {i \in 1..n : east(i)}
           T == {i \in 1..n : east(next(i))}
           L == Crossings(l, polygon)
           H == Crossings(h, polygon)
<1>1. n \in Nat /\ n >= 1 /\ DOMAIN polygon = 1..n
  OBVIOUS
<1>2. /\ \A i \in 1..n : next(i) \in 1..n
      /\ \A i, j \in 1..n : next(i) = next(j) => i = j
      /\ \A j \in 1..n : \E i \in 1..n : next(i) = j
  BY <1>1, NextVertex DEF Next1
<1>3. \A i \in 1..n : polygon[i] \in Plane
  BY <1>1
<1>4. \A i \in 1..n : Edge(polygon, i)[1] = polygon[i] /\ Edge(polygon, i)[2] = polygon[next(i)]
  BY DEF Edge
<1>5. ASSUME NEW i \in 1..n
      PROVE  ((i \in L) <=> (i \in H)) <=> (east(i) <=> east(next(i)))
  <2> DEFINE a == polygon[i]
             b == polygon[next(i)]
  <2>1. a \in Plane /\ b \in Plane /\ ~Meets(l, h, a, b)
    BY <1>1, <1>2, <1>3, <1>4 DEF MeetsOutline
  <2>2. /\ i \in L <=> Crossed(l, a, b)
        /\ i \in H <=> Crossed(h, a, b)
    BY <1>1, <1>4 DEF Crossings
  <2>3. (Crossed(l, a, b) <=> Crossed(h, a, b)) <=> (East(l, h, a) <=> East(l, h, b))
    <3> HIDE DEF a, b
    <3>1. CASE a[2] <= b[2]
      BY <2>1, <3>1, EdgeParity
    <3>2. CASE b[2] <= a[2]
      <4>1. ~Meets(l, h, b, a)
        BY <2>1, Reversed
      <4>2. (Crossed(l, b, a) <=> Crossed(h, b, a)) <=> (East(l, h, b) <=> East(l, h, a))
        BY <2>1, <3>2, <4>1, EdgeParity
      <4>3. (Crossed(l, a, b) <=> Crossed(l, b, a)) /\ (Crossed(h, a, b) <=> Crossed(h, b, a))
        BY <2>1, Reversed
      <4> QED
        BY <4>2, <4>3, Zenon
    <3>3. a[2] \in Int /\ b[2] \in Int
      BY <2>1 DEF Plane
    <3> QED
      BY <3>1, <3>2, <3>3
  <2> QED
    BY <2>2, <2>3, Zenon
<1>6. L \subseteq 1..n /\ H \subseteq 1..n
  BY <1>1 DEF Crossings
<1>7. (L \ H) \cup (H \ L) = (S \ T) \cup (T \ S)
  <2> HIDE DEF L, H, east, next
  <2> QED
    BY <1>5, <1>6
<1>8. IsFiniteSet(1..n) /\ S \subseteq 1..n /\ T \subseteq 1..n
  BY <1>1, FS_Interval
<1>9. IsFiniteSet(S) /\ IsFiniteSet(T) /\ IsFiniteSet(L) /\ IsFiniteSet(H)
  <2> HIDE DEF S, T, L, H
  <2> QED
    BY <1>6, <1>8, FS_Subset
<1>10. Cardinality(S) = Cardinality(T)
  <2> DEFINE f == [i \in T |-> next(i)]
  <2> HIDE DEF next, n
  <2>1. f \in [T -> S]
    BY <1>2
  <2>2. \A i, j \in T : f[i] = f[j] => i = j
    BY <1>2
  <2>3. \A j \in S : \E i \in T : f[i] = j
    BY <1>2
  <2>4. f \in Bijection(T, S)
    <3> HIDE DEF f, S, T
    <3> QED
      BY <2>1, <2>2, <2>3, Fun_IsBij
  <2>5. ExistsBijection(T, S)
    BY <2>4, Fun_ExistsBij
  <2> QED
    BY <1>9, <2>5, FS_Bijection
<1> HIDE DEF S, T, L, H
<1>11. /\ Cardinality(L) \in Nat /\ Cardinality(H) \in Nat
       /\ \E shared \in Nat : Cardinality((L \ H) \cup (H \ L))
                                 = Cardinality(L) + Cardinality(H) - 2 * shared
  BY <1>9, SymmetricDifference
<1>12. /\ Cardinality(S) \in Nat /\ Cardinality(T) \in Nat
       /\ \E shared \in Nat : Cardinality((S \ T) \cup (T \ S))
                                 = Cardinality(S) + Cardinality(T) - 2 * shared
  BY <1>9, SymmetricDifference
<1>13. PICK x \in Nat : Cardinality((L \ H) \cup (H \ L))
                           = Cardinality(L) + Cardinality(H) - 2 * x
  BY <1>11
<1>14. PICK y \in Nat : Cardinality((S \ T) \cup (T \ S))
                           = Cardinality(S) + Cardinality(T) - 2 * y
  BY <1>12
<1> DEFINE cl == Cardinality(L)
           ch == Cardinality(H)
           cs == Cardinality(S)
           ct == Cardinality(T)
           d  == Cardinality((L \ H) \cup (H \ L))
           e  == Cardinality((S \ T) \cup (T \ S))
<1>15. /\ cl \in Nat /\ ch \in Nat /\ cs \in Nat /\ ct \in Nat
       /\ d = cl + ch - 2 * x /\ e = cs + ct - 2 * y /\ d = e /\ cs = ct
  BY <1>7, <1>10, <1>11, <1>12, <1>13, <1>14
<1> HIDE DEF cl, ch, cs, ct, d, e
<1>16. cl % 2 = ch % 2
  <2>1. \A j, k, m, u, w \in Int : j + k - 2 * u = 2 * m - 2 * w => j % 2 = k % 2
    OBVIOUS
  <2>2. cl + ch - 2 * x = 2 * cs - 2 * y
    BY <1>15
  <2> QED
    BY <1>15, <2>1, <2>2
<1>17. Cardinality(L) % 2 = Cardinality(H) % 2
  BY <1>16 DEF cl, ch
<1> QED
  BY <1>17 DEF L, H

\* From a point to another that the ray casting counts differently, one
\* crosses the outline.
THEOREM OutlineIsMet ==
    ASSUME NEW polygon \in Seq(Plane), polygon # <<>>, NEW q \in Plane, NEW p \in Plane,
           Cardinality(Crossings(q, polygon)) % 2 # Cardinality(Crossings(p, polygon)) % 2
    PROVE  MeetsOutline(q, p, polygon)
<1>1. q[2] \in Int /\ p[2] \in Int
  BY DEF Plane
<1>2. CASE q[2] <= p[2]
  BY <1>2, ParityUpwards
<1>3. CASE p[2] <= q[2]
  <2>1. MeetsOutline(p, q, polygon)
    BY <1>3, ParityUpwards
  <2>2. PICK i \in DOMAIN polygon : Meets(p, q, Edge(polygon, i)[1], Edge(polygon, i)[2])
    BY <2>1 DEF MeetsOutline
  <2>3. Edge(polygon, i)[1] \in Plane /\ Edge(polygon, i)[2] \in Plane
    BY EdgeTyped
  <2>4. Meets(q, p, Edge(polygon, i)[1], Edge(polygon, i)[2])
    BY <2>2, <2>3, Reversed
  <2> QED
    BY <2>4 DEF MeetsOutline
<1> QED
  BY <1>1, <1>2, <1>3

-----------------------------------------------------------------------------
(* Distances *)

\* A distance: a fraction.
Fraction(d) == d[1] \in Nat /\ d[2] \in Nat /\ d[2] > 0

\* Fractions are compared by a total preorder.
LEMMA FurtherOrders ==
    ASSUME NEW c, NEW d, NEW e, Fraction(c), Fraction(d), Fraction(e)
    PROVE  /\ NotFurther(c, c)
           /\ NotFurther(c, d) \/ NotFurther(d, c)
           /\ NotFurther(c, d) /\ NotFurther(d, e) => NotFurther(c, e)
<1>1. ASSUME NEW c1 \in Nat, NEW c2 \in Nat, NEW d1 \in Nat, NEW d2 \in Nat,
             NEW e1 \in Nat, NEW e2 \in Nat, c2 > 0, d2 > 0, e2 > 0,
             c1 * d2 <= d1 * c2, d1 * e2 <= e1 * d2
      PROVE  c1 * e2 <= e1 * c2
  <2>1. (c1 * d2) * e2 <= (d1 * c2) * e2 /\ (d1 * e2) * c2 <= (e1 * d2) * c2
    BY <1>1, SMTT(30)
  <2>2. (c1 * e2) * d2 <= (e1 * c2) * d2
    BY <2>1, SMTT(30)
  <2>3. c1 * e2 \in Int /\ e1 * c2 \in Int
    OBVIOUS
  <2>4. \A j, k \in Int : j * d2 <= k * d2 => j <= k
    BY <1>1, SMTT(30)
  <2> QED
    BY <2>2, <2>3, <2>4
<1>2. /\ c[1] * c[2] \in Int /\ c[1] * d[2] \in Int /\ d[1] * c[2] \in Int
  BY DEF Fraction
<1> QED
  BY <1>1, <1>2 DEF Fraction, NotFurther

\* Of finitely many distances one is the nearest.
LEMMA NearestExists ==
    ASSUME NEW n \in Nat, NEW I \in SUBSET (1..n), I # {}, NEW d,
           \A i \in I : Fraction(d[i])
    PROVE  \E i \in I : \A j \in I : NotFurther(d[i], d[j])
<1> DEFINE upTo(k) == {i \in I : i <= k}
           Least(k) == \E i \in upTo(k) : \A j \in upTo(k) : NotFurther(d[i], d[j])
           Without == {k \in Nat : upTo(k) # {} /\ ~Least(k)}
<1>0. \A i \in I : i \in Nat /\ i >= 1 /\ i <= n
  OBVIOUS
<1>1. Without = {}
  <2> SUFFICES ASSUME Without # {} PROVE FALSE
    OBVIOUS
  <2>1. Without \in SUBSET Nat
    OBVIOUS
  <2>2. PICK k \in Without : \A m \in Without : k <= m
    <3> HIDE DEF Without
    <3> QED
      BY <2>1, LeastOf
  <2>3. k \in Nat /\ upTo(k) # {} /\ ~Least(k)
    OBVIOUS
  <2>4. k # 0
    <3>1. \A i \in I : ~(i <= 0)
      BY <1>0
    <3>2. upTo(0) = {}
      BY <3>1, Zenon
    <3> QED
      BY <2>3, <3>2
  <2>5. k - 1 \in Nat /\ k - 1 \notin Without
    BY <2>2, <2>3, <2>4
  <2>6. upTo(k - 1) # {} => Least(k - 1)
    BY <2>5
  <2>7. k \in I /\ upTo(k) = upTo(k - 1) \cup {k}
    <3>1. upTo(k) \subseteq upTo(k - 1) \cup {k} /\ upTo(k - 1) \subseteq upTo(k)
      <4>1. \A i \in I : (i <= k <=> i <= k - 1 \/ i = k) /\ (i <= k - 1 => i <= k)
        BY <1>0, <2>3
      <4> QED
        BY <4>1
    <3>2. CASE k \in I
      <4>1. k \in upTo(k)
        BY <2>3, <3>2
      <4> QED
        BY <3>1, <3>2, <4>1
    <3>3. CASE k \notin I
      <4>1. upTo(k) = upTo(k - 1)
        BY <3>1, <3>3
      <4> QED
        BY <2>3, <2>6, <4>1
    <3> QED
      BY <3>2, <3>3
  <2>8. CASE upTo(k - 1) = {}
    <3>1. NotFurther(d[k], d[k])
      BY <2>7, FurtherOrders
    <3> QED
      BY <2>3, <2>7, <2>8, <3>1
  <2>9. CASE upTo(k - 1) # {}
    <3>1. PICK i \in upTo(k - 1) : \A j \in upTo(k - 1) : NotFurther(d[i], d[j])
      BY <2>6, <2>9
    <3>2. i \in I /\ \A j \in upTo(k - 1) : j \in I
      OBVIOUS
    <3>3. NotFurther(d[k], d[k])
      BY <2>7, FurtherOrders
    <3>4. CASE NotFurther(d[i], d[k])
      BY <2>3, <2>7, <3>1, <3>4
    <3>5. CASE ~NotFurther(d[i], d[k])
      <4>1. NotFurther(d[k], d[i])
        BY <2>7, <3>2, <3>5, FurtherOrders
      <4>2. \A j \in upTo(k - 1) : NotFurther(d[k], d[j])
        <5> HIDE DEF upTo
        <5> QED
          BY <2>7, <3>1, <3>2, <4>1, FurtherOrders
      <4> QED
        BY <2>3, <2>7, <3>3, <4>2
    <3> QED
      BY <3>4, <3>5
  <2> QED
    BY <2>8, <2>9
<1>2. upTo(n) = I
  BY <1>0
<1> QED
  BY <1>1, <1>2

\* The measured distance to a segment has a positive denominator.
LEMMA SegmentFraction ==
    ASSUME NEW a \in Plane, NEW b \in Plane, NEW q \in Plane
    PROVE  Fraction(DistanceToSegment(q, a, b))
<1>1. /\ Squared(a, b) \in Nat /\ Squared(q, a) \in Nat /\ Squared(q, b) \in Nat
      /\ Cross(a, b, q) \in Int
  BY SquaredTyped, CrossTyped
<1>2. Cross(a, b, q) * Cross(a, b, q) \in Nat
  <2> HIDE DEF Cross
  <2> QED
    BY <1>1, SMT
<1> DEFINE dot == (q[1] - a[1]) * (b[1] - a[1]) + (q[2] - a[2]) * (b[2] - a[2])
<1>3. dot \in Int
  BY DEF Plane
<1>4. DistanceToSegment(q, a, b) =
         CASE dot <= 0 -> <<Squared(q, a), 1>>
           [] dot > 0 /\ dot >= Squared(a, b) -> <<Squared(q, b), 1>>
           [] OTHER -> <<Cross(a, b, q) * Cross(a, b, q), Squared(a, b)>>
  BY DEF DistanceToSegment
<1> HIDE DEF dot
<1>5. CASE dot <= 0
  BY <1>1, <1>4, <1>5 DEF Fraction
<1>6. CASE dot > 0 /\ dot >= Squared(a, b)
  <2>1. DistanceToSegment(q, a, b) = <<Squared(q, b), 1>>
    BY <1>3, <1>4, <1>6
  <2> QED
    BY <1>1, <2>1 DEF Fraction
<1>7. CASE dot > 0 /\ ~(dot >= Squared(a, b))
  <2>1. /\ DistanceToSegment(q, a, b)
             = <<Cross(a, b, q) * Cross(a, b, q), Squared(a, b)>>
        /\ Squared(a, b) > 0
    BY <1>1, <1>3, <1>4, <1>7
  <2> QED
    BY <1>1, <1>2, <2>1 DEF Fraction
<1> QED
  BY <1>3, <1>5, <1>6, <1>7

\* The distance to a polygon is a fraction, and no edge is nearer.
LEMMA NoEdgeNearer ==
    ASSUME NEW polygon \in Seq(Plane), polygon # <<>>, NEW q \in Plane
    PROVE  /\ Fraction(DistanceToPolygon(q, polygon))
           /\ ~PointInPolygon(q, polygon) =>
                 \A i \in DOMAIN polygon :
                    NotFurther(DistanceToPolygon(q, polygon),
                               DistanceToSegment(q, Edge(polygon, i)[1], Edge(polygon, i)[2]))
<1>1. CASE PointInPolygon(q, polygon)
  <2>1. DistanceToPolygon(q, polygon) = <<0, 1>>
    BY <1>1 DEF DistanceToPolygon
  <2> QED
    BY <1>1, <2>1 DEF Fraction
<1>2. CASE ~PointInPolygon(q, polygon)
  <2> DEFINE d == [i \in DOMAIN polygon |->
                     DistanceToSegment(q, Edge(polygon, i)[1], Edge(polygon, i)[2])]
             all == {d[i] : i \in DOMAIN polygon}
             nearest == CHOOSE x \in all : \A e \in all : NotFurther(x, e)
  <2>1. Len(polygon) \in Nat /\ DOMAIN polygon = 1..Len(polygon) /\ DOMAIN polygon # {}
    OBVIOUS
  <2>2. \A i \in DOMAIN polygon : Fraction(d[i])
    BY EdgeTyped, SegmentFraction
  <2>3. PICK i \in DOMAIN polygon : \A j \in DOMAIN polygon : NotFurther(d[i], d[j])
    <3> HIDE DEF d
    <3> QED
      BY <2>1, <2>2, NearestExists
  <2>4. DistanceToPolygon(q, polygon) = nearest
    <3>1. all = {DistanceToSegment(q, Edge(polygon, i_1)[1], Edge(polygon, i_1)[2]) :
                    i_1 \in DOMAIN polygon}
      OBVIOUS
    <3> HIDE DEF all
    <3> QED
      BY <1>2, <3>1 DEF DistanceToPolygon
  <2>5. d[i] \in all /\ \A e \in all : NotFurther(d[i], e)
    <3> HIDE DEF d
    <3> QED
      BY <2>3
  <2>6. nearest \in all /\ \A e \in all : NotFurther(nearest, e)
    <3> HIDE DEF all, d
    <3> QED
      BY <2>5, Zenon
  <2>7. Fraction(nearest)
    <3> HIDE DEF d, nearest
    <3> QED
      BY <2>2, <2>6
  <2>8. \A j \in DOMAIN polygon : NotFurther(nearest, d[j])
    <3> HIDE DEF d, nearest
    <3> QED
      BY <2>6
  <2> QED
    BY <2>4, <2>7, <2>8
<1> QED
  BY <1>1, <1>2

\* The measured distance to a polygon is never more than that to a point of it.
THEOREM DistanceIsShortest ==
    ASSUME NEW polygon \in Seq(Plane), polygon # <<>>, NEW q \in Plane, NEW p \in Plane,
           PointInPolygon(p, polygon)
    PROVE  LET d == DistanceToPolygon(q, polygon)
           IN  Fraction(d) /\ d[1] <= Squared(q, p) * d[2]
<1> DEFINE d == DistanceToPolygon(q, polygon)
           s == Squared(q, p)
<1>1. Fraction(d) /\ s \in Nat
  BY NoEdgeNearer, SquaredTyped
<1>2. CASE PointInPolygon(q, polygon)
  <2>1. d = <<0, 1>>
    BY <1>2 DEF DistanceToPolygon
  <2> HIDE DEF d, s
  <2>2. d[1] <= s * d[2]
    BY <1>1, <2>1
  <2> QED
    BY <1>1, <2>2 DEF d, s
<1>3. CASE ~PointInPolygon(q, polygon)
  <2>1. PICK i \in DOMAIN polygon : Reached(q, p, Edge(polygon, i)[1], Edge(polygon, i)[2])
    <3>1. CASE OnBoundary(p, polygon)
      <4>1. PICK i \in DOMAIN polygon :
               OnSegment(p, Edge(polygon, i)[1], Edge(polygon, i)[2])
        BY <3>1 DEF OnBoundary
      <4> QED
        BY <4>1, EdgeTyped, TouchingReaches
    <3>2. CASE ~OnBoundary(p, polygon)
      <4>1. Cardinality(Crossings(p, polygon)) % 2 = 1
        BY <3>2 DEF PointInPolygon, Crossings
      <4>2. Cardinality(Crossings(q, polygon)) % 2 # 1
        BY <1>3 DEF PointInPolygon, Crossings
      <4>3. MeetsOutline(q, p, polygon)
        BY <4>1, <4>2, OutlineIsMet
      <4>4. PICK i \in DOMAIN polygon :
               Meets(q, p, Edge(polygon, i)[1], Edge(polygon, i)[2])
        BY <4>3 DEF MeetsOutline
      <4> QED
        BY <4>4, EdgeTyped, MeetingReaches
    <3> QED
      BY <3>1, <3>2
  <2> DEFINE e == DistanceToSegment(q, Edge(polygon, i)[1], Edge(polygon, i)[2])
  <2>2. Fraction(e) /\ NotFurther(d, e) /\ e[1] <= s * e[2]
    BY <1>3, <2>1, NoEdgeNearer, EdgeTyped, SegmentFraction DEF Reached
  <2> HIDE DEF d, e, s
  <2>3. /\ d[1] \in Nat /\ d[2] \in Nat /\ e[1] \in Nat /\ e[2] \in Nat /\ e[2] > 0
        /\ d[1] * e[2] <= e[1] * d[2] /\ e[1] <= s * e[2] /\ s \in Nat
    BY <1>1, <2>2 DEF Fraction, NotFurther
  <2>4. \A d1, d2, e1, e2 \in Nat :
           e2 > 0 /\ d1 * e2 <= e1 * d2 /\ e1 <= s * e2 => d1 <= s * d2
    <3> TAKE d1, d2, e1, e2 \in Nat
    <3> HAVE e2 > 0 /\ d1 * e2 <= e1 * d2 /\ e1 <= s * e2
    <3>1. e1 * d2 <= (s * e2) * d2
      BY <2>3, SMTT(30)
    <3>2. d1 * e2 <= (s * d2) * e2
      <4>1. (s * e2) * d2 = (s * d2) * e2 /\ d1 * e2 \in Int /\ e1 * d2 \in Int
            /\ (s * e2) * d2 \in Int
        BY <2>3, SMTT(30)
      <4> QED
        BY <3>1, <4>1
    <3>3. s * d2 \in Int
      BY <2>3
    <3>4. \A j, k \in Int : j * e2 <= k * e2 => j <= k
      BY SMTT(30)
    <3> QED
      BY <3>2, <3>3, <3>4
  <2>5. d[1] <= s * d[2]
    BY <2>3, <2>4
  <2> QED
    BY <1>1, <2>5 DEF d, s
<1> QED
  BY <1>2, <1>3

-----------------------------------------------------------------------------
(* Ray casting and winding numbers *)

\* A sum and a difference are odd together.
LEMMA Parity ==
    ASSUME NEW a \in Nat, NEW b \in Nat
    PROVE  (a + b) % 2 = 1 <=> (a - b) % 2 = 1
<1>1. a - b \in Int /\ a + b = (a - b) + 2 * b
  OBVIOUS
<1> QED
  BY <1>1, SMT

\* A ray is crossed upwards or downwards, so the number of crossings is odd
\* when the winding number is: the rule point_in_polygon casts a ray by agrees
\* with the orientation-aware one, for every outline.
THEOREM RayCasting ==
    ASSUME NEW p \in Plane, NEW polygon \in Seq(Plane)
    PROVE  /\ Winding(p, polygon) \in Int
           /\ PointInPolygon(p, polygon) <=>
                 OnBoundary(p, polygon) \/ Winding(p, polygon) % 2 = 1
<1> DEFINE from(i) == Edge(polygon, i)[1]
           to(i) == Edge(polygon, i)[2]
           side(i) == Cross(from(i), to(i), p)
           up == {i \in DOMAIN polygon :
                    from(i)[2] <= p[2] /\ to(i)[2] > p[2] /\ side(i) > 0}
           down == {i \in DOMAIN polygon :
                    from(i)[2] > p[2] /\ to(i)[2] <= p[2] /\ side(i) < 0}
           across == {i \in DOMAIN polygon : Crossed(p, from(i), to(i))}
<1>1. Winding(p, polygon) = Cardinality(up) - Cardinality(down)
  BY DEF Winding
<1>2. PointInPolygon(p, polygon) <=>
         OnBoundary(p, polygon) \/ Cardinality(across) % 2 = 1
  BY DEF PointInPolygon
<1>3. ASSUME NEW i \in DOMAIN polygon
      PROVE  /\ i \in across <=> i \in up \/ i \in down
             /\ ~(i \in up /\ i \in down)
  <2>1. from(i) \in Plane /\ to(i) \in Plane
    BY EdgeTyped
  <2>2. from(i)[2] \in Int /\ to(i)[2] \in Int /\ p[2] \in Int
    BY <2>1 DEF Plane
  <2>4. side(i) \in Int
    BY <2>1, CrossTyped
  <2> HIDE DEF from, to, side
  <2>3. Crossed(p, from(i), to(i)) <=>
           /\ (from(i)[2] > p[2]) # (to(i)[2] > p[2])
           /\ IF to(i)[2] > from(i)[2] THEN side(i) > 0 ELSE side(i) < 0
    BY DEF Crossed, side
  <2>5. Crossed(p, from(i), to(i)) <=>
           \/ from(i)[2] <= p[2] /\ to(i)[2] > p[2] /\ side(i) > 0
           \/ from(i)[2] > p[2] /\ to(i)[2] <= p[2] /\ side(i) < 0
    <3>1. CASE from(i)[2] > p[2] /\ to(i)[2] > p[2]
      BY <2>2, <2>3, <3>1
    <3>2. CASE from(i)[2] > p[2] /\ ~(to(i)[2] > p[2])
      <4>1. ~(to(i)[2] > from(i)[2]) /\ to(i)[2] <= p[2] /\ ~(from(i)[2] <= p[2])
        BY <2>2, <3>2
      <4> QED
        BY <2>3, <3>2, <4>1, Zenon
    <3>3. CASE ~(from(i)[2] > p[2]) /\ to(i)[2] > p[2]
      <4>1. to(i)[2] > from(i)[2] /\ from(i)[2] <= p[2] /\ ~(to(i)[2] <= p[2])
        BY <2>2, <3>3
      <4> QED
        BY <2>3, <3>3, <4>1, Zenon
    <3>4. CASE ~(from(i)[2] > p[2]) /\ ~(to(i)[2] > p[2])
      BY <2>2, <2>3, <3>4
    <3> QED
      BY <3>1, <3>2, <3>3, <3>4
  <2>6. ~(from(i)[2] <= p[2] /\ from(i)[2] > p[2])
    BY <2>2
  <2> QED
    BY <2>5, <2>6
<1>4. across = up \cup down /\ up \cap down = {}
  <2>1. across \subseteq DOMAIN polygon /\ up \subseteq DOMAIN polygon
        /\ down \subseteq DOMAIN polygon
    OBVIOUS
  <2> HIDE DEF across, up, down
  <2> QED
    BY <1>3, <2>1
<1>5. IsFiniteSet(up) /\ IsFiniteSet(down)
  <2>1. up \subseteq 1..Len(polygon) /\ down \subseteq 1..Len(polygon)
    OBVIOUS
  <2>2. IsFiniteSet(1..Len(polygon))
    BY FS_Interval
  <2> HIDE DEF up, down
  <2> QED
    BY <2>1, <2>2, FS_Subset
<1> HIDE DEF across, up, down
<1>6. /\ Cardinality(up) \in Nat /\ Cardinality(down) \in Nat
      /\ Cardinality(across) = Cardinality(up) + Cardinality(down)
  <2>1. Cardinality(up) \in Nat /\ Cardinality(down) \in Nat
    BY <1>5, FS_CardinalityType
  <2>2. Cardinality(up \cup down) =
           Cardinality(up) + Cardinality(down) - Cardinality(up \cap down)
    BY <1>5, FS_Union
  <2>3. Cardinality(up \cap down) = 0
    BY <1>4, FS_EmptySet
  <2> QED
    BY <1>4, <2>1, <2>2, <2>3
<1> QED
  BY <1>1, <1>2, <1>6, Parity

-----------------------------------------------------------------------------
(* Resolution and area *)

\* The candidates that contain a point, by ray casting.
Containing(zones, candidates, p) ==
    {i \in candidates : PointInPolygon(p, zones[i].polygon)}

\* A point is resolved to be inside an exclusion zone when the first zone of
\* the file that contains it is one.
LEMMA InsideByFirst ==
    ASSUME NEW zones, NEW candidates, NEW p
    PROVE  ResolvePoint(zones, candidates, p).relation = "inside_risk_zone" <=>
              FirstOf(Containing(zones, candidates, p))
                 \in {i \in candidates : zones[i].kind \in RiskZoneKinds}
<1> DEFINE point == ResolvePoint(zones, candidates, p)
           containing == FirstOf(Containing(zones, candidates, p))
           risk == {i \in candidates : zones[i].kind \in RiskZoneKinds}
<1>1. \/ containing \in risk /\ point.relation = "inside_risk_zone"
      \/ containing \notin risk /\ point.relation \in {"approaching", "safe", "coverage_unknown"}
  BY DEF ResolvePoint, Result, Containing
<1> HIDE DEF point, containing, risk
<1>2. containing \in risk <=> point.relation = "inside_risk_zone"
  BY <1>1
<1> QED
  BY <1>2 DEF point, containing, risk

\* The first zone that contains a point: it contains it, and the point is in
\* it or on its edge by winding number.
LEMMA FirstContaining ==
    ASSUME NEW v \in Versions,
           NEW candidates \in SUBSET DOMAIN Layouts[v], NEW p \in Area
    PROVE  /\ Containing(Layouts[v], candidates, p) = {}
                 => FirstOf(Containing(Layouts[v], candidates, p)) = 0
           /\ Containing(Layouts[v], candidates, p) # {}
                 => FirstOf(Containing(Layouts[v], candidates, p))
                       \in Containing(Layouts[v], candidates, p)
           /\ \A i \in Containing(Layouts[v], candidates, p) : p \in Closure[v][i]
<1> USE DEF Containing
<1> DEFINE within == Containing(Layouts[v], candidates, p)
<1>1. within \in SUBSET (1..Len(Layouts[v])) /\ Len(Layouts[v]) \in Nat
  BY LayoutTyped
<1>2. ASSUME NEW i \in within
      PROVE  p \in Closure[v][i]
  <2>1. i \in DOMAIN Layouts[v] /\ Layouts[v][i].polygon \in Seq(Plane) /\ p \in Plane
    BY LayoutAssumption, LayoutTyped DEF LayoutsWellFormed, Plane
  <2>2. \/ OnBoundary(p, Layouts[v][i].polygon)
        \/ Winding(p, Layouts[v][i].polygon) # 0
    BY <2>1, RayCasting
  <2> QED
    BY <2>1, <2>2 DEF Closure, Interior
<1> HIDE DEF within
<1>3. /\ within = {} => FirstOf(within) = 0
      /\ within # {} => FirstOf(within) \in within
  BY <1>1, FirstIn
<1> QED
  BY <1>2, <1>3 DEF within

\* A report by coordinates is resolved by its point among the zones of its floor.
LEMMA ResolvedByPoint ==
    ASSUME SiteInv, ByPoint
    PROVE  /\ report.by \in Versions /\ report.location.at \in Area
           /\ Candidates(Layouts[report.by], report.location.floor)
                 \in SUBSET DOMAIN Layouts[report.by]
           /\ \/ /\ Candidates(Layouts[report.by], report.location.floor) = {}
                 /\ report.relation = "coverage_unknown"
              \/ report.relation = ResolvePoint(Layouts[report.by],
                    Candidates(Layouts[report.by], report.location.floor),
                    report.location.at).relation
<1>1. /\ event = "evaluated" /\ report.location.zone = None /\ report.location.at # None
      /\ report \in Reports /\ report.by \in Versions
      /\ report.relation = ResolveZone(Layouts[report.by], report.location).relation
  BY DEF ByPoint, SiteInv, Resolved, TypeOK
<1>2. report.location \in Locations
  BY <1>1 DEF Reports
<1>3. report.location.at \in Area
  BY <1>1, <1>2 DEF Locations
<1>4. Candidates(Layouts[report.by], report.location.floor)
         \in SUBSET DOMAIN Layouts[report.by]
  BY DEF Candidates
<1>5. \/ /\ Candidates(Layouts[report.by], report.location.floor) = {}
         /\ report.relation = "coverage_unknown"
      \/ report.relation = ResolvePoint(Layouts[report.by],
            Candidates(Layouts[report.by], report.location.floor),
            report.location.at).relation
  BY <1>1 DEF ResolveZone, Result
<1> QED
  BY <1>1, <1>3, <1>4, <1>5

\* The first half of InsideMeansInside, in every state of the invariant, and
LEMMA ResolvedWithin ==
    ASSUME SiteInv
    PROVE  ResolvedIsWithin
<1> SUFFICES ASSUME ByPoint, report.relation = "inside_risk_zone"
             PROVE  \E i \in ExclusionsFor(report.by, report.location) :
                       report.location.at \in Closure[report.by][i]
  BY DEF ResolvedIsWithin
<1> DEFINE zones == Layouts[report.by]
           candidates == Candidates(zones, report.location.floor)
           within == Containing(zones, candidates, report.location.at)
<1>1. FirstOf(within) \in {i \in candidates : zones[i].kind \in RiskZoneKinds}
  BY ResolvedByPoint, InsideByFirst
<1>2. /\ within = {} => FirstOf(within) = 0
      /\ within # {} => FirstOf(within) \in within
      /\ \A i \in within : report.location.at \in Closure[report.by][i]
  BY ResolvedByPoint, FirstContaining
<1>3. 0 \notin candidates
  BY ResolvedByPoint, LayoutTyped
<1> HIDE DEF within
<1>4. FirstOf(within) \in within
  BY <1>1, <1>2, <1>3
<1>5. FirstOf(within) \in ExclusionsFor(report.by, report.location)
  BY <1>1 DEF ExclusionsFor
<1> QED
  BY <1>2, <1>4, <1>5

\* the second, for layouts that are plans of a floor.
LEMMA WithinResolved ==
    ASSUME Planned, SiteInv
    PROVE  WithinIsResolved
<1> SUFFICES ASSUME ByPoint, report.location.floor # None,
                    NEW i \in ExclusionsFor(report.by, report.location),
                    report.location.at \in Interior[report.by][i]
             PROVE  report.relation = "inside_risk_zone"
  BY DEF WithinIsResolved
<1> DEFINE zones == Layouts[report.by]
           at == report.location.at
           candidates == Candidates(zones, report.location.floor)
           within == Containing(zones, candidates, at)
<1>1. /\ report.by \in Versions /\ at \in Area /\ at \in Plane
      /\ candidates \in SUBSET DOMAIN zones
      /\ i \in candidates /\ i \in DOMAIN zones /\ zones[i].kind \in RiskZoneKinds
      /\ zones[i].polygon \in Seq(Plane)
  BY LayoutAssumption, ResolvedByPoint, LayoutTyped
     DEF ExclusionsFor, LayoutsWellFormed, Plane
<1>2. Winding(at, zones[i].polygon) \in {-1, 1}
  BY <1>1 DEF Planned, OnceAround
<1>3. i \in within
  <2>1. Winding(at, zones[i].polygon) % 2 = 1
    BY <1>2
  <2> QED
    BY <1>1, <2>1, RayCasting DEF Containing
<1>4. /\ FirstOf(within) \in within
      /\ \A j \in within : at \in Closure[report.by][j]
  BY <1>1, <1>3, FirstContaining
<1> DEFINE first == FirstOf(within)
<1>5. first \in candidates /\ at \in Closure[report.by][first]
  BY <1>4 DEF Containing
<1> HIDE DEF first
<1>6. first = i
  <2>1. zones[i].floorId = zones[first].floorId
    BY <1>1, <1>5 DEF Candidates
  <2> QED
    BY <1>1, <1>5, <2>1 DEF Planned, EdgesShared
<1>7. first \in {j \in candidates : zones[j].kind \in RiskZoneKinds}
  BY <1>1, <1>6
<1> QED
  BY <1>1, <1>7, ResolvedByPoint, InsideByFirst DEF first

\* For every layout: a worker resolved to be inside an exclusion zone stands
\* in one or on its edge, by winding number.  (point_in_polygon, resolve_zone.)
THEOREM ResolvedIsWithinHolds == Spec => []ResolvedIsWithin
<1>1. SiteInv => ResolvedIsWithin
  BY ResolvedWithin
<1> QED
  BY <1>1, SiteInit, SiteStep, PTL DEF Spec

\* For every layout drawn as a plan of the floor, resolution and area agree in
\* both directions.  (point_in_polygon, resolve_zone.)
THEOREM InsideMeansInsideHolds ==
    ASSUME Planned
    PROVE  Spec => []InsideMeansInside
<1>1. SiteInv => InsideMeansInside
  BY ResolvedWithin, WithinResolved DEF InsideMeansInside
<1> QED
  BY <1>1, SiteInit, SiteStep, PTL DEF Spec

-----------------------------------------------------------------------------
(* Distance and buffer *)

\* A worker who is resolved to be safe or not covered is further from every
\* point of every exclusion zone than the buffer of one of them, the nearest.
LEMMA OutsideBuffer ==
    ASSUME NEW v \in Versions, NEW candidates \in SUBSET DOMAIN Layouts[v], NEW q \in Plane,
           {i \in candidates : Layouts[v][i].kind \in RiskZoneKinds} # {},
           ResolvePoint(Layouts[v], candidates, q).relation \in {"safe", "coverage_unknown"}
    PROVE  \E k \in {i \in candidates : Layouts[v][i].kind \in RiskZoneKinds} :
              \A i \in {j \in candidates : Layouts[v][j].kind \in RiskZoneKinds} :
                 \A p \in Plane : PointInPolygon(p, Layouts[v][i].polygon) =>
                    ~(Squared(q, p) <= Layouts[v][k].buffer * Layouts[v][k].buffer)
<1> DEFINE zones == Layouts[v]
           point == ResolvePoint(zones, candidates, q)
           containing == FirstOf({i \in candidates : PointInPolygon(q, zones[i].polygon)})
           risk == {i \in candidates : zones[i].kind \in RiskZoneKinds}
           distance == [i \in risk |-> DistanceToPolygon(q, zones[i].polygon)]
           closest == {i \in risk : \A j \in risk : NotFurther(distance[i], distance[j])}
           k == FirstOf(closest)
           named(i) == IF i = 0 THEN None ELSE zones[i].zoneId
<1>1. /\ DOMAIN zones = 1..Len(zones) /\ Len(zones) \in Nat
      /\ \A i \in risk : /\ zones[i].polygon \in Seq(Plane) /\ zones[i].polygon # <<>>
                         /\ zones[i].buffer \in Nat
  BY LayoutAssumption, LayoutTyped DEF LayoutsWellFormed, Zones
<1>2. risk \in SUBSET (1..Len(zones)) /\ risk # {}
  BY <1>1
<1>3. \A i \in risk : distance[i] = DistanceToPolygon(q, zones[i].polygon)
  OBVIOUS
<1>4. \A i \in risk : Fraction(distance[i])
  <2> HIDE DEF distance, risk
  <2> QED
    BY <1>1, <1>3, NoEdgeNearer
<1>5. \E i \in risk : \A j \in risk : NotFurther(distance[i], distance[j])
  <2> HIDE DEF distance, risk
  <2> QED
    BY <1>1, <1>2, <1>4, NearestExists
<1>6. k \in closest /\ k # 0
  <2>1. closest \in SUBSET (1..Len(zones)) /\ closest # {}
    <3> HIDE DEF distance, risk
    <3> QED
      BY <1>2, <1>5
  <2> HIDE DEF closest
  <2>2. k \in closest
    BY <1>1, <2>1, FirstIn
  <2> HIDE DEF k
  <2> QED
    BY <1>1, <2>1, <2>2
<1>7. ~Within(distance[k], zones[k].buffer)
  <2>1. point = CASE containing \in risk -> Result(named(containing), "inside_risk_zone")
                  [] /\ containing \notin risk
                     /\ k # 0 /\ Within(distance[k], zones[k].buffer)
                     -> Result(IF containing # 0 THEN named(containing) ELSE named(k),
                               "approaching")
                  [] OTHER -> Result(named(containing),
                                     IF containing # 0 THEN "safe" ELSE "coverage_unknown")
    BY DEF ResolvePoint
  <2>2. point.relation \in {"safe", "coverage_unknown"}
    OBVIOUS
  <2> HIDE DEF point, containing, risk, distance, k, named
  <2> QED
    BY <1>6, <2>1, <2>2 DEF Result
<1>8. k \in risk /\ \A i \in risk : NotFurther(distance[k], distance[i])
  BY <1>6
<1>9. ASSUME NEW i \in risk, NEW p \in Plane, PointInPolygon(p, zones[i].polygon)
      PROVE  ~(Squared(q, p) <= zones[k].buffer * zones[k].buffer)
  <2> DEFINE d == distance[k]
             e == distance[i]
             s == Squared(q, p)
             b == zones[k].buffer * zones[k].buffer
  <2>1. Fraction(e) /\ e[1] <= s * e[2]
    <3> HIDE DEF risk
    <3> QED
      BY <1>1, <1>3, <1>9, DistanceIsShortest
  <2>2. Fraction(d) /\ NotFurther(d, e) /\ ~Within(d, zones[k].buffer)
    <3> HIDE DEF distance, risk, k
    <3> QED
      BY <1>4, <1>7, <1>8, <1>9
  <2>3. s \in Nat /\ b \in Nat
    <3>1. zones[k].buffer \in Nat
      BY <1>1, <1>8
    <3> HIDE DEF k
    <3> QED
      BY <3>1, SquaredTyped, SMT
  <2>4. ~(d[1] <= b * d[2])
    BY <2>2 DEF Within
  <2> HIDE DEF d, e, s, b
  <2>5. \A d1, d2, e1, e2 \in Nat :
           e2 > 0 /\ d1 * e2 <= e1 * d2 /\ e1 <= s * e2 /\ ~(d1 <= b * d2) => ~(s <= b)
    <3> TAKE d1, d2, e1, e2 \in Nat
    <3> HAVE e2 > 0 /\ d1 * e2 <= e1 * d2 /\ e1 <= s * e2 /\ ~(d1 <= b * d2)
    <3>1. e1 * d2 <= (s * e2) * d2
      BY <2>3, SMTT(30)
    <3>2. d1 * e2 <= (s * d2) * e2
      <4>1. (s * e2) * d2 = (s * d2) * e2 /\ d1 * e2 \in Int /\ e1 * d2 \in Int
            /\ (s * e2) * d2 \in Int
        BY <2>3, SMTT(30)
      <4> QED
        BY <3>1, <4>1
    <3>3. d1 <= s * d2
      <4>1. s * d2 \in Int /\ \A x, y \in Int : x * e2 <= y * e2 => x <= y
        BY <2>3, SMTT(30)
      <4> QED
        BY <3>2, <4>1
    <3>4. s <= b => s * d2 <= b * d2
      BY <2>3, SMTT(30)
    <3>5. s * d2 \in Int /\ b * d2 \in Int
      BY <2>3
    <3> QED
      BY <2>3, <3>3, <3>4, <3>5
  <2>6. ~(s <= b)
    BY <2>1, <2>2, <2>4, <2>5 DEF Fraction, NotFurther
  <2> QED
    BY <2>6 DEF s, b
<1> HIDE DEF k
<1> QED
  BY <1>8, <1>9

\* NotSafeNearExclusion in every state of the invariant.
LEMMA SafeIsFar ==
    ASSUME OnceAround, SiteInv
    PROVE  NotSafeNearExclusion
<1> DEFINE exclusions == ExclusionsFor(report.by, report.location)
           zones == Layouts[report.by]
           candidates == Candidates(zones, report.location.floor)
           q == report.location.at
<1> SUFFICES ASSUME ByPoint, report.relation \in {"safe", "coverage_unknown"},
                    NEW i \in exclusions, NEW p \in Closure[report.by][i],
                    \A j \in exclusions :
                       Squared(q, p) <= zones[j].buffer * zones[j].buffer
             PROVE  FALSE
  BY DEF NotSafeNearExclusion
<1>1. /\ report.by \in Versions /\ q \in Plane /\ candidates \in SUBSET DOMAIN zones
      /\ exclusions = {j \in candidates : zones[j].kind \in RiskZoneKinds}
      /\ i \in DOMAIN zones /\ i \in exclusions /\ zones[i].polygon \in Seq(Plane)
  BY LayoutAssumption, ResolvedByPoint, LayoutTyped
     DEF ExclusionsFor, LayoutsWellFormed, Plane
<1>2. ResolvePoint(zones, candidates, q).relation \in {"safe", "coverage_unknown"}
  <2>1. candidates # {}
    BY <1>1
  <2> QED
    BY <2>1, ResolvedByPoint
<1>3. p \in Plane /\ PointInPolygon(p, zones[i].polygon)
  <2>1. p \in Area /\ p \in Plane
    BY <1>1, LayoutAssumption DEF Closure, Interior, LayoutsWellFormed, Plane
  <2>2. CASE OnBoundary(p, zones[i].polygon)
    BY <2>1, <2>2 DEF PointInPolygon
  <2>3. CASE ~OnBoundary(p, zones[i].polygon)
    <3>1. p \in Interior[report.by][i]
      BY <1>1, <2>3 DEF Closure
    <3>2. Winding(p, zones[i].polygon) \in {-1, 1}
      BY <1>1, <3>1 DEF OnceAround
    <3>3. Winding(p, zones[i].polygon) % 2 = 1
      BY <3>2
    <3> QED
      BY <1>1, <2>1, <3>3, RayCasting
  <2> QED
    BY <2>2, <2>3
<1> HIDE DEF exclusions, zones, candidates, q
<1>4. exclusions # {}
  BY <1>1
<1>5. PICK k \in exclusions : \A j \in exclusions : \A r \in Plane :
         PointInPolygon(r, zones[j].polygon) =>
            ~(Squared(q, r) <= zones[k].buffer * zones[k].buffer)
  <2> USE DEF zones
  <2> QED
    BY <1>1, <1>2, <1>4, OutsideBuffer
<1> QED
  BY <1>1, <1>3, <1>5

\* For every layout whose exclusion zones wind around a point at most once:
\* who is resolved to be safe or not covered is out of the reach of every
\* exclusion zone of the floor by the smallest of their buffers, whatever the
\* shapes, where the worker stands and how the zones overlap.
\* (resolve_zone, distance_to_polygon.)
THEOREM NotSafeNearExclusionHolds ==
    ASSUME OnceAround
    PROVE  Spec => []NotSafeNearExclusion
<1>1. SiteInv => NotSafeNearExclusion
  BY SafeIsFar
<1> QED
  BY <1>1, SiteInit, SiteStep, PTL DEF Spec

-----------------------------------------------------------------------------
(* From one report to the next *)

\* A report that is resolved to be inside an exclusion zone is in one of its
\* floor by ray casting.
LEMMA EnteringIsInside ==
    ASSUME NEW v \in Versions, NEW location \in Locations,
           location.at # None, location.zone = None,
           ResolveZone(Layouts[v], location).relation = "inside_risk_zone"
    PROVE  \E i \in ExclusionsFor(v, location) :
              PointInPolygon(location.at, Layouts[v][i].polygon)
<1> DEFINE candidates == Candidates(Layouts[v], location.floor)
           within == Containing(Layouts[v], candidates, location.at)
<1>1. candidates \in SUBSET DOMAIN Layouts[v] /\ location.at \in Area
  BY DEF Candidates, Locations
<1>2. ResolvePoint(Layouts[v], candidates, location.at).relation = "inside_risk_zone"
  BY DEF ResolveZone, Result
<1>3. FirstOf(within) \in {i \in candidates : Layouts[v][i].kind \in RiskZoneKinds}
  BY <1>2, InsideByFirst
<1>4. /\ within = {} => FirstOf(within) = 0
      /\ within # {} => FirstOf(within) \in within
  BY <1>1, FirstContaining
<1>5. 0 \notin candidates
  BY <1>1, LayoutTyped
<1> HIDE DEF within
<1>6. FirstOf(within) \in within
  BY <1>3, <1>4, <1>5
<1>7. FirstOf(within) \in ExclusionsFor(v, location)
  BY <1>3 DEF ExclusionsFor
<1> QED
  BY <1>6, <1>7 DEF within, Containing

\* Only an incoming report is recorded, and it is within a stride of the last.
LEMMA RecordedStep ==
    ASSUME SiteInv, [Next]_vars, event = "evaluated", event' = "recorded"
    PROVE  \E location \in Locations : IngestWorkerPosition(location)
<1>1. ~UNCHANGED vars
  BY DEF vars
<1>2. ~(\E p \in Seeders : Seed(p) \/ Upsert(p) \/ Stop(p))
  BY DEF Seed, Upsert, Stop, reports
<1>3. ~(\E v \in Versions : Deploy(v))
  BY DEF Deploy, reports
<1>4. ~EvaluatePosition /\ ~ResetCase
  BY DEF EvaluatePosition, ResetCase
<1> QED
  BY <1>1, <1>2, <1>3, <1>4 DEF Next

\* For every layout, planned or not: nobody who was resolved to be safe or not
\* covered is inside an exclusion zone at the next report, if the stride is
\* within every buffer of the floor.  (resolve_zone, over two reports.)
THEOREM WarnedBeforeEnteringHolds == Spec => WarnedBeforeEntering
<1> DEFINE Warned ==
      /\ ByPoint /\ event' = "recorded" /\ report'.location.floor = report.location.floor
      /\ report'.location.at # None /\ report'.location.zone = None
      /\ report.by = layout /\ report.relation \in {"safe", "coverage_unknown"}
      /\ \A i \in ExclusionsFor(layout, report.location) :
            Stride <= Layouts[layout][i].buffer
      => ResolveZone(Layouts[layout], report'.location).relation # "inside_risk_zone"
<1>1. SiteInv /\ [Next]_vars => Warned
  <2> SUFFICES ASSUME SiteInv, [Next]_vars,
                      ByPoint, event' = "recorded",
                      report'.location.floor = report.location.floor,
                      report'.location.at # None, report'.location.zone = None,
                      report.by = layout, report.relation \in {"safe", "coverage_unknown"},
                      \A i \in ExclusionsFor(layout, report.location) :
                         Stride <= Layouts[layout][i].buffer,
                      ResolveZone(Layouts[layout], report'.location).relation
                         = "inside_risk_zone"
               PROVE  FALSE
    OBVIOUS
  <2> DEFINE zones == Layouts[layout]
             candidates == Candidates(zones, report.location.floor)
             exclusions == ExclusionsFor(layout, report.location)
             q == report.location.at
             p == report'.location.at
  <2>1. PICK location \in Locations : IngestWorkerPosition(location)
    BY RecordedStep DEF ByPoint
  <2>2. report'.location = location /\ Reaches(location)
    BY <2>1 DEF IngestWorkerPosition
  <2>3. /\ layout \in Versions /\ q \in Plane /\ candidates \in SUBSET DOMAIN zones
        /\ exclusions = {j \in candidates : zones[j].kind \in RiskZoneKinds}
    BY LayoutAssumption, ResolvedByPoint DEF ExclusionsFor, LayoutsWellFormed, Plane
  <2>4. p \in Plane
    BY <2>2, LayoutAssumption DEF Locations, LayoutsWellFormed, Plane
  <2>5. Squared(q, p) <= Stride * Stride
    <3>1. report # None /\ q # None
      BY DEF ByPoint, SiteInv, Resolved
    <3> QED
      BY <2>2, <3>1 DEF Reaches
  <2>6. PICK i \in exclusions : PointInPolygon(p, zones[i].polygon)
    <3>1. ExclusionsFor(layout, location) = exclusions
      BY <2>2 DEF ExclusionsFor
    <3> QED
      BY <2>2, <2>3, <3>1, EnteringIsInside
  <2>7. ResolvePoint(zones, candidates, q).relation \in {"safe", "coverage_unknown"}
    <3>1. candidates # {}
      BY <2>3, <2>6
    <3> QED
      BY <3>1, ResolvedByPoint
  <2>8. PICK k \in exclusions : \A j \in exclusions : \A r \in Plane :
           PointInPolygon(r, zones[j].polygon) =>
              ~(Squared(q, r) <= zones[k].buffer * zones[k].buffer)
    <3> HIDE DEF candidates, q, exclusions
    <3>1. {j \in candidates : zones[j].kind \in RiskZoneKinds} # {}
      BY <2>3, <2>6
    <3> QED
      BY <2>3, <2>7, <3>1, OutsideBuffer
  <2>9. Stride * Stride <= zones[k].buffer * zones[k].buffer
    <3>1. Stride \in Nat /\ zones[k].buffer \in Nat /\ Stride <= zones[k].buffer
      BY <2>3, LayoutAssumption, LayoutTyped DEF LayoutsWellFormed, Zones
    <3>2. \A x, y \in Nat : x <= y => x * x <= y * y
      BY SMTT(30)
    <3> QED
      BY <3>1, <3>2
  <2>10. ~(Squared(q, p) <= zones[k].buffer * zones[k].buffer)
    <3> HIDE DEF exclusions, q, p, zones
    <3> QED
      BY <2>4, <2>6, <2>8
  <2>11. /\ Squared(q, p) \in Nat /\ Stride * Stride \in Nat
         /\ zones[k].buffer * zones[k].buffer \in Nat
    <3>1. Stride \in Nat /\ zones[k].buffer \in Nat
      BY <2>3, LayoutAssumption, LayoutTyped DEF LayoutsWellFormed, Zones
    <3>2. \A x \in Nat : x * x \in Nat
      BY SMTT(30)
    <3> QED
      BY <2>3, <2>4, <3>1, <3>2, SquaredTyped
  <2> QED
    <3> HIDE DEF q, p, zones
    <3> QED
      BY <2>5, <2>9, <2>10, <2>11
<1> QED
  BY <1>1, SiteInit, SiteStep, PTL DEF Spec, WarnedBeforeEntering

-----------------------------------------------------------------------------
(* Where the footage items come from: the review of a video.               *)

\* A group of detections of one zone and category.
GroupOf(a, kept) ==
    {b \in kept : b.zone = a.zone /\ Category(b.kind) = Category(a.kind)}
KindsOf(a, kept) == {b.kind : b \in GroupOf(a, kept)}

\* A finding per group.
LEMMA GroupedAs ==
    ASSUME NEW kept
    PROVE  Grouped(kept) =
              {Finding(a.zone, RiskTypeFor(KindsOf(a, kept), a.zone), FALSE) :
                  a \in kept}
BY DEF Grouped, KindsOf, GroupOf

\* Merging the detections of a zone hides no obstruction and makes none up.
LEMMA ObstructionsKept ==
    ASSUME NEW kept
    PROVE  {f.zone : f \in {g \in Grouped(kept) : g.risk \in ObstructionRisks}}
             = {o.zone : o \in {b \in kept : Alone(b) \in ObstructionRisks}}
<1> USE DEF ObstructionRisks, Alone, RiskTypeFor
<1>1. ASSUME NEW a \in kept,
             RiskTypeFor(KindsOf(a, kept), a.zone) \in ObstructionRisks
      PROVE  \E o \in kept : o.zone = a.zone /\ Alone(o) \in ObstructionRisks
  <2>1. InExclusion(a.zone) /\ ("person" \in KindsOf(a, kept) \/ "obstruction" \in KindsOf(a, kept))
    BY <1>1
  <2>2. PICK o \in GroupOf(a, kept) : o.kind \in {"person", "obstruction"}
    BY <2>1 DEF KindsOf
  <2>3. o \in kept /\ o.zone = a.zone
    BY DEF GroupOf
  <2> QED
    BY <2>1, <2>2, <2>3
<1>2. ASSUME NEW o \in kept, Alone(o) \in ObstructionRisks
      PROVE  RiskTypeFor(KindsOf(o, kept), o.zone) \in ObstructionRisks
  <2>1. InExclusion(o.zone) /\ o.kind \in {"person", "obstruction"}
    BY <1>2
  <2>2. o.kind \in KindsOf(o, kept)
    BY DEF KindsOf, GroupOf
  <2> QED
    BY <2>1, <2>2
<1> DEFINE found(a) == Finding(a.zone, RiskTypeFor(KindsOf(a, kept), a.zone), FALSE)
<1>3. Grouped(kept) = {found(a) : a \in kept}
  BY GroupedAs
<1>4. ASSUME NEW a
      PROVE  /\ found(a).zone = a.zone
             /\ found(a).risk = RiskTypeFor(KindsOf(a, kept), a.zone)
  BY DEF Finding
<1> HIDE DEF found
<1>5. \A a \in kept : found(a).risk \in ObstructionRisks =>
         \E o \in kept : o.zone = found(a).zone /\ Alone(o) \in ObstructionRisks
  BY <1>1, <1>4
<1>6. \A o \in kept : Alone(o) \in ObstructionRisks =>
         found(o).zone = o.zone /\ found(o).risk \in ObstructionRisks
  BY <1>2, <1>4
<1> HIDE DEF ObstructionRisks, Alone, RiskTypeFor
<1> QED
  BY <1>3, <1>5, <1>6

\* Every other risk a detection alone would raise is raised under its zone.
LEMMA OthersKept ==
    ASSUME NEW kept, NEW o \in kept,
           Alone(o) \in ActionableRisks \ ObstructionRisks
    PROVE  \E f \in Grouped(kept) : f.zone = o.zone /\ f.risk = Alone(o)
<1> DEFINE kinds == KindsOf(o, kept)
<1>1. o.kind \in kinds
  BY DEF KindsOf, GroupOf
<1>2. \A k \in kinds : Category(k) = Category(o.kind)
  BY DEF KindsOf, GroupOf
<1> HIDE DEF kinds
<1>3. \/ o.kind = "obstruction" /\ ~InExclusion(o.zone) /\ Alone(o) = "route_obstruction"
      \/ o.kind \in {"fire", "haze"} /\ Alone(o) = "fire_or_smoke"
      \/ o.kind = "dark" /\ Alone(o) = "poor_visibility"
  BY DEF Alone, RiskTypeFor, ActionableRisks, ObstructionRisks,
         RiskTypes, LocalRisks
<1>4. RiskTypeFor(kinds, o.zone) = Alone(o)
  <2>1. CASE o.kind = "obstruction"
    BY <1>1, <1>3, <2>1 DEF RiskTypeFor
  <2>2. CASE o.kind \in {"fire", "haze"}
    <3>1. "person" \notin kinds /\ "obstruction" \notin kinds
      BY <1>2, <2>2 DEF Category
    <3> QED
      BY <1>1, <1>3, <2>2, <3>1 DEF RiskTypeFor
  <2>3. CASE o.kind = "dark"
    <3>1. {"person", "obstruction", "fire", "haze"} \cap kinds = {}
      BY <1>2, <2>3 DEF Category
    <3> QED
      BY <1>1, <1>3, <2>3, <3>1 DEF RiskTypeFor
  <2> QED
    BY <1>3, <2>1, <2>2, <2>3
<1>5. Finding(o.zone, RiskTypeFor(kinds, o.zone), FALSE) \in Grouped(kept)
  BY GroupedAs DEF kinds
<1> QED
  BY <1>4, <1>5 DEF Finding

\* What the local detector has to report of what it kept.
Reported(kept) == IF kept = {} THEN NothingSeen ELSE Grouped(kept)

\* Before the evidence is written there is none; what is written and still to
\* write are the findings of the local detector, unless the model served one.
Underway ==
    /\ pc \in {"sample", "served", "local"} => todo = {} /\ evidence = {}
    /\ pc = "write" =>
          \/ \E f \in todo \cup evidence : f.confirmed
          \/ todo \cup evidence = Reported(observed)
    /\ pc = "redact" =>
          (\E f \in evidence : f.confirmed) \/ evidence = Reported(observed)

\* It holds before the first review, and every step keeps it.
LEMMA UnderwayInit == ReviewInit => Underway
BY DEF ReviewInit, Underway

LEMMA UnderwayStep == Underway /\ [ReviewNext]_reviewVars => Underway'
<1> SUFFICES ASSUME Underway, [ReviewNext]_reviewVars
             PROVE  Underway'
  OBVIOUS
<1>1. CASE UNCHANGED reviewVars
  BY <1>1 DEF reviewVars, Underway
<1>2. CASE \/ NoFrames \/ CannotOpen \/ NotRedacted \/ Crash
           \/ (\E film \in Films : Redact(film)) \/ \E v \in Videos : Begin(v)
  BY <1>2 DEF NoFrames, CannotOpen, NotRedacted, Crash,
              Redact, Begin, Over, Underway
<1>3. CASE \/ \E backend \in {"served", "local"} : FramesSampled(backend)
           \/ (\E reply \in Replies : ServedReplies(reply)) \/ ServedFails
           \/ \E picture \in Pictures : LocalFrame(picture)
  BY <1>3 DEF FramesSampled, ServedReplies, ServedFails,
              LocalFrame, Underway
<1>4. CASE ServedEnds
  <2>1. CASE observed = {} /\ pc' = "local" /\ UNCHANGED <<todo, evidence>>
    BY <1>4, <2>1 DEF ServedEnds, Underway
  <2>2. CASE /\ observed # {} /\ pc' = "write" /\ UNCHANGED evidence
             /\ todo' = {Finding(o.zone, o.risk, TRUE) : o \in observed}
    <3>1. PICK o \in observed : TRUE
      BY <2>2
    <3>2. Finding(o.zone, o.risk, TRUE) \in todo'
      BY <2>2
    <3>3. Finding(o.zone, o.risk, TRUE).confirmed
      BY DEF Finding
    <3> QED
      BY <2>2, <3>2, <3>3 DEF Underway
  <2> QED
    BY <1>4, <2>1, <2>2 DEF ServedEnds
<1>5. CASE LocalEnds
  <2>1. /\ pc = "local" /\ pc' = "write" /\ todo' = Reported(observed)
        /\ UNCHANGED <<observed, evidence>>
    BY <1>5 DEF LocalEnds, Reported
  <2>2. evidence = {}
    BY <2>1 DEF Underway
  <2> QED
    BY <2>1, <2>2 DEF Underway
<1>6. ASSUME NEW finding \in todo, WriteEvidence(finding)
      PROVE  Underway'
  <2>1. /\ pc = "write" /\ evidence' = evidence \cup {finding} /\ todo' = todo \ {finding}
        /\ pc' = IF todo = {finding} THEN "redact" ELSE "write"
        /\ observed' = observed
    BY <1>6 DEF WriteEvidence
  <2>2. todo' \cup evidence' = todo \cup evidence
    BY <2>1
  <2>3. pc' = "redact" => evidence' = todo \cup evidence
    BY <2>1
  <2> QED
    BY <2>1, <2>2, <2>3 DEF Underway
<1>7. CASE ResetManifests
  BY <1>7 DEF ResetManifests, Underway
<1> QED
  BY <1>1, <1>2, <1>3, <1>4, <1>5, <1>6, <1>7 DEF ReviewNext, Step

\* For any pictures, regions and kinds of zone: the evidence of a review by
\* the local detector shows an obstruction in the zones where a single
\* detection is one and in no other, and every other risk the decision looks
\* at.  (DeterministicVisionModel.observe, _risk_type_for.)
THEOREM NoFindingLostHolds == ReviewSpec => []NoFindingLost
<1>1. Underway => NoFindingLost
  <2> SUFFICES ASSUME Underway, pc = "redact", \A f \in evidence : ~f.confirmed
               PROVE  /\ {f.zone : f \in {g \in evidence : g.risk \in ObstructionRisks}}
                           = {o.zone : o \in {b \in observed :
                                                 Alone(b) \in ObstructionRisks}}
                      /\ \A o \in observed :
                            Alone(o) \in ActionableRisks \ ObstructionRisks
                              => \E f \in evidence : f.zone = o.zone /\ f.risk = Alone(o)
    BY DEF NoFindingLost
  <2>1. evidence = Reported(observed)
    BY DEF Underway
  <2>2. CASE observed = {}
    BY <2>1, <2>2 DEF Reported, NothingSeen, Finding, ObstructionRisks
  <2>3. CASE observed # {}
    <3>1. evidence = Grouped(observed)
      BY <2>1, <2>3 DEF Reported
    <3> QED
      BY <3>1, ObstructionsKept, OthersKept
  <2> QED
    BY <2>2, <2>3
<1> QED
  BY <1>1, UnderwayInit, UnderwayStep, PTL DEF ReviewSpec

-----------------------------------------------------------------------------
(* Nothing is made up *)

\* The zones the served model can be taken to name, and the local detector.
ServedZones == MappedZones \cup {NoZone}
DetectorZones == MappedZones \cup {DefaultZone, NoZone}

\* A place is in the zone of a region or in the default zone.
LEMMA ZoneForBoxMapped ==
    ASSUME NEW place
    PROVE  ZoneForBox(place) \in DetectorZones
<1> DEFINE covering == {i \in DOMAIN Regions : place \in Regions[i].covers}
<1>1. CASE covering = {}
  BY <1>1 DEF ZoneForBox, DetectorZones
<1>2. CASE covering # {}
  <2>1. covering \in SUBSET Nat
    BY ReviewAssumption DEF ReviewWellFormed
  <2> DEFINE first == CHOOSE i \in covering : \A j \in covering : i <= j
  <2>2. first \in covering
    <3> HIDE DEF covering
    <3>1. \E i \in covering : \A j \in covering : i <= j
      BY <1>2, <2>1, LeastOf
    <3> QED
      BY <3>1
  <2>3. ZoneForBox(place) = Regions[first].zone
    BY <1>2 DEF ZoneForBox
  <2> HIDE DEF first
  <2>4. Regions[first].zone \in MappedZones
    BY <2>2 DEF MappedZones
  <2> QED
    BY <2>3, <2>4 DEF DetectorZones
<1> QED
  BY <1>1, <1>2

\* What was observed so far, by either backend.
Observations ==
    /\ \A o \in observed : o.zone \in DetectorZones
    /\ pc = "served" => \A o \in observed : o.zone \in ServedZones /\ o.risk \in RiskTypes
    /\ pc = "sample" => observed = {}
    /\ \A f \in todo \cup evidence : f.confirmed \in BOOLEAN

\* The local detector raises the risks it can tell, and
LEMMA RiskKnown ==
    ASSUME NEW kinds, NEW zone
    PROVE  RiskTypeFor(kinds, zone) \in LocalRisks
BY DEF RiskTypeFor, LocalRisks

\* reports them unconfirmed, for the zones of its detections.
LEMMA ReportedKnown ==
    ASSUME NEW kept, \A o \in kept : o.zone \in DetectorZones, NEW f \in Reported(kept)
    PROVE  f.zone \in DetectorZones /\ f.risk \in LocalRisks \cup {"none"} /\ f.confirmed = FALSE
<1>1. CASE kept = {}
  <2>1. f = Finding(NoZone, "none", FALSE)
    BY <1>1 DEF Reported, NothingSeen
  <2> QED
    BY <2>1 DEF Finding, DetectorZones
<1>2. CASE kept # {}
  <2>1. PICK a \in kept :
          f = Finding(a.zone, RiskTypeFor(KindsOf(a, kept), a.zone), FALSE)
    BY <1>2, GroupedAs DEF Reported
  <2> QED
    BY <2>1, RiskKnown DEF Finding
<1> QED
  BY <1>1, <1>2

\* Every step keeps this.
LEMMA InventedStep ==
    ASSUME NothingInvented, Observations,
           [ReviewNext]_reviewVars
    PROVE  NothingInvented' /\ Observations'
<1> USE DEF NothingInvented, Observations, ServedZones, DetectorZones
<1>1. CASE UNCHANGED reviewVars
  BY <1>1 DEF reviewVars
<1>2. CASE \/ CannotOpen \/ NotRedacted \/ Crash
           \/ (\E film \in Films : Redact(film)) \/ \E v \in Videos : Begin(v)
  <2>1. todo' = {} /\ evidence' = {} /\ observed' = {}
    BY <1>2 DEF CannotOpen, NotRedacted, Crash, Redact,
                Begin, Over
  <2> QED
    BY <2>1
<1>3. CASE NoFrames
  <2>1. ASSUME NEW f \in evidence'
        PROVE  f.zone = NoZone /\ f.risk = "unavailable" /\ f.confirmed = FALSE
    <3>1. f = Finding(NoZone, "unavailable", FALSE)
      BY <1>3 DEF NoFrames
    <3> QED
      BY <3>1 DEF Finding
  <2>2. pc' = "idle" /\ UNCHANGED <<observed, todo>>
    BY <1>3 DEF NoFrames
  <2> QED
    BY <2>1, <2>2
<1>4. CASE \/ \E backend \in {"served", "local"} : FramesSampled(backend)
           \/ ServedFails \/ ResetManifests
  BY <1>4 DEF FramesSampled, ServedFails, ResetManifests
<1>5. ASSUME NEW reply \in Replies, ServedReplies(reply)
      PROVE  NothingInvented' /\ Observations'
  <2>1. SuppliedZone(reply.zone) \in ServedZones
    BY DEF SuppliedZone
  <2>2. KnownRisk(reply.risk) \in RiskTypes
    BY DEF KnownRisk, RiskTypes, LocalRisks
  <2> QED
    BY <1>5, <2>1, <2>2 DEF ServedReplies
<1>6. CASE ServedEnds
  <2>1. CASE observed = {} /\ pc' = "local" /\ UNCHANGED <<todo, evidence, observed>>
    BY <2>1
  <2>2. CASE /\ pc = "served" /\ pc' = "write" /\ UNCHANGED <<evidence, observed>>
             /\ todo' = {Finding(o.zone, o.risk, TRUE) : o \in observed}
    <3>1. ASSUME NEW f \in todo'
          PROVE  f.zone \in ServedZones /\ f.risk \in RiskTypes /\ f.confirmed = TRUE
      <4>1. PICK o \in observed : f = Finding(o.zone, o.risk, TRUE)
        BY <2>2
      <4> QED
        BY <2>2, <4>1 DEF Finding
    <3> QED
      BY <2>2, <3>1
  <2> QED
    BY <1>6, <2>1, <2>2 DEF ServedEnds
<1>7. ASSUME NEW picture \in Pictures, LocalFrame(picture)
      PROVE  NothingInvented' /\ Observations'
  <2>1. \A o \in Kept(picture) : o.zone \in DetectorZones
    BY ZoneForBoxMapped DEF Kept
  <2> QED
    BY <1>7, <2>1 DEF LocalFrame
<1>8. CASE LocalEnds
  <2>1. /\ pc' = "write" /\ todo' = Reported(observed) /\ UNCHANGED <<observed, evidence>>
    BY <1>8 DEF LocalEnds, Reported
  <2>2. ASSUME NEW f \in todo'
        PROVE  /\ f.zone \in DetectorZones /\ f.risk \in LocalRisks \cup {"none"}
               /\ f.confirmed = FALSE
    BY <2>1, ReportedKnown
  <2> QED
    BY <2>1, <2>2
<1>9. ASSUME NEW finding \in todo, WriteEvidence(finding)
      PROVE  NothingInvented' /\ Observations'
  BY <1>9 DEF WriteEvidence
<1> QED
  BY <1>1, <1>2, <1>3, <1>4, <1>5, <1>6, <1>7, <1>8, <1>9 DEF ReviewNext, Step

\* Whatever the served model replies, for any regions, default zone and site
\* model: a confirmed finding names a zone the frame mapping supplied or none,
\* and one of the risks the system knows.  (observe, _zone_for_box.)
THEOREM NothingInventedHolds == ReviewSpec => []NothingInvented
<1>1. ReviewInit => NothingInvented /\ Observations
  BY DEF ReviewInit, NothingInvented, Observations
<1> QED
  BY <1>1, InventedStep, PTL DEF ReviewSpec

-----------------------------------------------------------------------------
(* The ranges of a manifest *)

\* What ToRanges evaluates, up to frame n.
Read(u, frames, n) ==
    u = [k \in 0..n |->
            IF k = 0 THEN <<>>
            ELSE IF k - 1 \in frames THEN Extended(u[k - 1], k - 1) ELSE u[k - 1]]

\* There is such a reading for every film, however long.
LEMMA ReadingExists ==
    ASSUME NEW frames, NEW n \in Nat
    PROVE  \E u : Read(u, frames, n)
<1> DEFINE Unread == {k \in Nat : ~\E u : Read(u, frames, k)}
<1>1. Unread = {}
  <2> SUFFICES ASSUME Unread # {} PROVE FALSE
    OBVIOUS
  <2>1. PICK k \in Unread : \A j \in Unread : k <= j
    <3>1. Unread \in SUBSET Nat
      OBVIOUS
    <3> HIDE DEF Unread
    <3> QED
      BY <3>1, LeastOf
  <2>2. k \in Nat /\ ~\E u : Read(u, frames, k)
    OBVIOUS
  <2>3. CASE k = 0
    <3> DEFINE u == [j \in 0..0 |-> <<>>]
    <3>1. Read(u, frames, 0)
      BY DEF Read
    <3> QED
      BY <2>2, <2>3, <3>1
  <2>4. CASE k # 0
    <3>1. k - 1 \in Nat /\ k - 1 \notin Unread
      BY <2>1, <2>2, <2>4
    <3>2. PICK w : Read(w, frames, k - 1)
      BY <3>1
    <3> DEFINE last == IF k - 1 \in frames THEN Extended(w[k - 1], k - 1) ELSE w[k - 1]
               u == [j \in 0..k |-> IF j = k THEN last ELSE w[j]]
    <3>3. \A j \in 0..(k - 1) :
             w[j] = IF j = 0 THEN <<>>
                    ELSE IF j - 1 \in frames THEN Extended(w[j - 1], j - 1) ELSE w[j - 1]
      BY <3>2 DEF Read
    <3>4. \A j \in 0..k :
             u[j] = IF j = 0 THEN <<>>
                    ELSE IF j - 1 \in frames THEN Extended(u[j - 1], j - 1) ELSE u[j - 1]
      <4> TAKE j \in 0..k
      <4>1. CASE j = k
        <5>1. u[j - 1] = w[k - 1] /\ u[j] = last
          BY <2>2, <2>4, <4>1
        <5> HIDE DEF u
        <5> QED
          BY <2>4, <4>1, <5>1
      <4>2. CASE j # k
        <5>1. j \in 0..(k - 1) /\ u[j] = w[j]
          BY <2>2, <4>2
        <5>2. j # 0 => u[j - 1] = w[j - 1]
          BY <2>2, <4>2
        <5> HIDE DEF u
        <5> QED
          BY <3>3, <5>1, <5>2
      <4> QED
        BY <4>1, <4>2
    <3>5. u = [j \in 0..k |->
                  IF j = 0 THEN <<>>
                  ELSE IF j - 1 \in frames THEN Extended(u[j - 1], j - 1) ELSE u[j - 1]]
      <4>1. u = [j \in 0..k |-> u[j]]
        OBVIOUS
      <4> HIDE DEF u
      <4> QED
        BY <3>4, <4>1
    <3> HIDE DEF u
    <3>6. Read(u, frames, k)
      BY <3>5 DEF Read
    <3> QED
      BY <2>2, <3>6
  <2> QED
    BY <2>3, <2>4
<1> QED
  BY <1>1

\* ToRanges is the last value of such a reading.
LEMMA RangesRead ==
    ASSUME NEW frames
    PROVE  \E u : Read(u, frames, FilmLength) /\ ToRanges(frames) = u[FilmLength]
<1> DEFINE u == CHOOSE w : w =
                  [n \in 0..FilmLength |->
                      IF n = 0 THEN <<>>
                      ELSE IF n - 1 \in frames THEN Extended(w[n - 1], n - 1) ELSE w[n - 1]]
<1>1. FilmLength \in Nat
  BY ReviewAssumption DEF ReviewWellFormed
<1>2. \E w : Read(w, frames, FilmLength)
  BY <1>1, ReadingExists
<1>3. Read(u, frames, FilmLength)
  BY <1>2, Zenon DEF Read
<1>4. ToRanges(frames) = u[FilmLength]
  BY DEF ToRanges
<1> QED
  BY <1>3, <1>4

\* The ranges account for the frames before n: those, in order, and apart.
Runs(r, frames, n) ==
    /\ r \in Seq(Frames \X Frames)
    /\ \A i \in DOMAIN r : r[i][1] <= r[i][2] /\ r[i][2] < n
    /\ \A f \in Frames : (f \in frames /\ f < n) <=>
          \E i \in DOMAIN r : r[i][1] <= f /\ f <= r[i][2]
    /\ \A i, j \in DOMAIN r : i < j => r[i][2] + 1 < r[j][1]

\* A frame in which something is hidden extends the last range or begins one.
LEMMA RunsExtended ==
    ASSUME NEW r, NEW frames, NEW n \in Frames, n \in frames, Runs(r, frames, n)
    PROVE  Runs(Extended(r, n), frames, n + 1)
<1>1. /\ r \in Seq(Frames \X Frames) /\ Len(r) \in Nat /\ DOMAIN r = 1..Len(r)
      /\ \A i \in DOMAIN r : /\ r[i] \in Frames \X Frames
                             /\ r[i][1] \in Frames /\ r[i][2] \in Frames
  BY DEF Runs
<1>2. n \in Nat /\ \A f \in Frames : f \in Nat
  BY DEF Frames
<1>3. CASE r # <<>> /\ n = r[Len(r)][2] + 1
  <2> DEFINE m == Len(r)
             s == [r EXCEPT ![m] = <<@[1], n>>]
  <2>1. m \in DOMAIN r /\ \A i \in DOMAIN r : i <= m
    BY <1>1, <1>3
  <2>2. s \in Seq(Frames \X Frames)
    BY <1>1, <2>1
  <2>3. /\ DOMAIN s = DOMAIN r
        /\ \A i \in DOMAIN r : s[i][1] = r[i][1] /\ (i # m => s[i][2] = r[i][2])
        /\ s[m][2] = n
    BY <1>1, <2>1
  <2>4. Extended(r, n) = s
    BY <1>3 DEF Extended
  <2> HIDE DEF s, m
  <2>5. \A i \in DOMAIN s : s[i][1] <= s[i][2] /\ s[i][2] < n + 1
    <3> TAKE i \in DOMAIN s
    <3>1. r[i][1] \in Nat /\ r[i][2] \in Nat /\ r[i][1] <= r[i][2] /\ r[i][2] < n
      BY <1>1, <1>2, <2>3 DEF Runs
    <3> QED
      BY <1>2, <2>3, <3>1
  <2>6. \A i, j \in DOMAIN s : i < j => s[i][2] + 1 < s[j][1]
    <3> TAKE i, j \in DOMAIN s
    <3> HAVE i < j
    <3>1. i # m
      BY <1>1, <2>1, <2>3 DEF m
    <3> QED
      BY <2>3, <3>1 DEF Runs
  <2>7. ASSUME NEW f \in Frames
        PROVE  (f \in frames /\ f < n + 1) <=>
                  \E i \in DOMAIN s : s[i][1] <= f /\ f <= s[i][2]
    <3>1. (f \in frames /\ f < n) <=> \E i \in DOMAIN r : r[i][1] <= f /\ f <= r[i][2]
      BY DEF Runs
    <3>2. r[m][1] \in Nat /\ r[m][2] \in Nat /\ r[m][1] <= r[m][2] /\ n = r[m][2] + 1
      BY <1>1, <1>2, <1>3, <2>1 DEF Runs, m
    <3>3. CASE f = n
      BY <1>2, <2>1, <2>3, <3>2, <3>3
    <3>4. CASE f # n
      <4>b. f \in Nat
        BY <1>2
      <4>c. \A k, l \in Nat : k # l => (k < l + 1 <=> k < l)
        OBVIOUS
      <4>d. \A k, l \in Nat : k # l + 1 /\ k <= l + 1 => k <= l
        OBVIOUS
      <4>1. f \in Nat /\ (f < n + 1 <=> f < n) /\ (f <= n /\ f # n => f <= r[m][2])
        BY <1>2, <3>2, <3>4, <4>b, <4>c, <4>d
      <4>2. \A i \in DOMAIN r : (s[i][1] <= f /\ f <= s[i][2])
                                   <=> (r[i][1] <= f /\ f <= r[i][2])
        <5> TAKE i \in DOMAIN r
        <5>1. CASE i = m
          <6>1. s[i][1] = r[i][1] /\ s[i][2] = n
            BY <2>3, <5>1
          <6>2. f <= n <=> f <= r[i][2]
            BY <1>2, <3>2, <3>4, <4>1, <5>1
          <6> QED
            BY <6>1, <6>2
        <5>2. CASE i # m
          BY <2>3, <5>2
        <5> QED
          BY <5>1, <5>2
      <4> QED
        BY <2>3, <3>1, <4>1, <4>2
    <3> QED
      BY <3>3, <3>4
  <2> QED
    BY <2>2, <2>4, <2>5, <2>6, <2>7 DEF Runs
<1>4. CASE ~(r # <<>> /\ n = r[Len(r)][2] + 1)
  <2> DEFINE m == Len(r)
             s == Append(r, <<n, n>>)
  <2>1. s \in Seq(Frames \X Frames)
    BY <1>1
  <2>2. /\ DOMAIN s = 1..(m + 1) /\ m + 1 \notin DOMAIN r
        /\ DOMAIN s = DOMAIN r \cup {m + 1}
        /\ \A i \in DOMAIN r : s[i] = r[i]
        /\ s[m + 1] = <<n, n>>
    BY <1>1
  <2>3. Extended(r, n) = s
    BY <1>4 DEF Extended
  <2> HIDE DEF s
  <2>4. s[m + 1][1] = n /\ s[m + 1][2] = n
    BY <2>2
  <2>5. \A i \in DOMAIN r : r[i][2] + 1 < n
    <3> TAKE i \in DOMAIN r
    <3>1. m \in DOMAIN r /\ r # <<>>
      BY <1>1
    <3>2. r[m][2] \in Nat /\ r[m][2] < n /\ n # r[m][2] + 1
      BY <1>1, <1>2, <1>4, <3>1 DEF Runs
    <3>3. CASE i = m
      BY <1>2, <3>2, <3>3
    <3>4. CASE i # m
      <4>1. i < m
        BY <1>1, <3>4
      <4>2. r[i][2] + 1 < r[m][1] /\ r[m][1] <= r[m][2] /\ r[i][2] \in Nat /\ r[m][1] \in Nat
        BY <1>1, <1>2, <3>1, <4>1 DEF Runs
      <4> QED
        BY <1>2, <3>2, <4>2
    <3> QED
      BY <3>3, <3>4
  <2>6. \A i \in DOMAIN s : s[i][1] <= s[i][2] /\ s[i][2] < n + 1
    <3> TAKE i \in DOMAIN s
    <3>1. CASE i = m + 1
      BY <1>2, <2>4, <3>1
    <3>2. CASE i \in DOMAIN r
      <4>1. r[i][1] <= r[i][2] /\ r[i][2] < n /\ r[i][2] \in Nat
        BY <1>1, <1>2, <3>2 DEF Runs
      <4> QED
        BY <1>2, <2>2, <3>2, <4>1
    <3> QED
      BY <2>2, <3>1, <3>2
  <2>7. \A i, j \in DOMAIN s : i < j => s[i][2] + 1 < s[j][1]
    <3> TAKE i, j \in DOMAIN s
    <3> HAVE i < j
    <3>1. i \in DOMAIN r
      BY <1>1, <2>2
    <3>2. CASE j = m + 1
      BY <2>2, <2>4, <2>5, <3>1, <3>2
    <3>3. CASE j \in DOMAIN r
      BY <2>2, <3>1, <3>3 DEF Runs
    <3> QED
      BY <2>2, <3>2, <3>3
  <2>8. ASSUME NEW f \in Frames
        PROVE  (f \in frames /\ f < n + 1) <=>
                  \E i \in DOMAIN s : s[i][1] <= f /\ f <= s[i][2]
    <3>1. (f \in frames /\ f < n) <=> \E i \in DOMAIN r : r[i][1] <= f /\ f <= r[i][2]
      BY DEF Runs
    <3>2. f \in Nat /\ (f < n + 1 <=> f < n \/ f = n) /\ (n <= f /\ f <= n <=> f = n)
      BY <1>2
    <3>3. (\E i \in DOMAIN s : s[i][1] <= f /\ f <= s[i][2]) <=>
             (\E i \in DOMAIN r : r[i][1] <= f /\ f <= r[i][2]) \/ f = n
      BY <2>2, <2>4, <3>2
    <3> QED
      BY <3>1, <3>2, <3>3
  <2> QED
    BY <2>1, <2>3, <2>6, <2>7, <2>8 DEF Runs
<1> QED
  BY <1>3, <1>4

\* A frame in which nothing is hidden changes no range.
LEMMA RunsKept ==
    ASSUME NEW r, NEW frames, NEW n \in Frames, n \notin frames, Runs(r, frames, n)
    PROVE  Runs(r, frames, n + 1)
<1>1. n \in Nat /\ \A f \in Frames : f \in Nat
  BY DEF Frames
<1>2. \A i \in DOMAIN r : r[i][2] \in Nat
  <2>1. \A i \in DOMAIN r : r[i] \in Frames \X Frames
    BY DEF Runs
  <2> QED
    BY <1>1, <2>1
<1>3. \A i \in DOMAIN r : r[i][1] <= r[i][2] /\ r[i][2] < n + 1
  BY <1>1, <1>2 DEF Runs
<1>4. \A f \in Frames : (f \in frames /\ f < n + 1) <=> (f \in frames /\ f < n)
  BY <1>1
<1>5. \A f \in Frames : (f \in frames /\ f < n) <=>
         \E i \in DOMAIN r : r[i][1] <= f /\ f <= r[i][2]
  BY DEF Runs
<1>6. \A f \in Frames : (f \in frames /\ f < n + 1) <=>
         \E i \in DOMAIN r : r[i][1] <= f /\ f <= r[i][2]
  BY <1>4, <1>5, Zenon
<1> QED
  BY <1>3, <1>6 DEF Runs

\* The ranges account for the whole film.
LEMMA ToRangesRuns ==
    ASSUME NEW frames
    PROVE  Runs(ToRanges(frames), frames, FilmLength)
<1>1. PICK u : Read(u, frames, FilmLength) /\ ToRanges(frames) = u[FilmLength]
  BY RangesRead
<1>2. FilmLength \in Nat
  BY ReviewAssumption DEF ReviewWellFormed
<1>3. \A k \in 0..FilmLength :
         u[k] = IF k = 0 THEN <<>>
                ELSE IF k - 1 \in frames THEN Extended(u[k - 1], k - 1) ELSE u[k - 1]
  BY <1>1 DEF Read
<1> DEFINE Wrong == {k \in 0..FilmLength : ~Runs(u[k], frames, k)}
<1>4. Wrong = {}
  <2> SUFFICES ASSUME Wrong # {} PROVE FALSE
    OBVIOUS
  <2>1. PICK k \in Wrong : \A j \in Wrong : k <= j
    <3>1. Wrong \in SUBSET Nat
      BY <1>2
    <3> HIDE DEF Wrong
    <3> QED
      BY <3>1, LeastOf
  <2>2. k \in 0..FilmLength /\ ~Runs(u[k], frames, k)
    OBVIOUS
  <2>3. CASE k = 0
    <3>1. u[k] = <<>>
      BY <1>3, <2>2, <2>3
    <3>2. \A f \in Frames : ~(f < 0)
      BY DEF Frames
    <3>3. Runs(<<>>, frames, 0)
      BY <3>2 DEF Runs
    <3> QED
      BY <2>2, <2>3, <3>1, <3>3
  <2>4. CASE k # 0
    <3>1. k - 1 \in Frames /\ k - 1 \in 0..FilmLength /\ k = (k - 1) + 1 /\ ~(k <= k - 1)
      BY <1>2, <2>2, <2>4 DEF Frames
    <3>2. Runs(u[k - 1], frames, k - 1)
      BY <2>1, <3>1
    <3>3. u[k] = IF k - 1 \in frames THEN Extended(u[k - 1], k - 1) ELSE u[k - 1]
      BY <1>3, <2>2, <2>4
    <3>4. Runs(u[k], frames, (k - 1) + 1)
      BY <3>1, <3>2, <3>3, RunsExtended, RunsKept
    <3> QED
      BY <2>2, <3>1, <3>4
  <2> QED
    BY <2>3, <2>4
<1> QED
  BY <1>1, <1>2, <1>4

\* What the invariants say of one manifest.
ManifestExact(m) ==
    /\ m.input \in Videos /\ m.ranges \in Seq(Frames \X Frames)
    /\ {f \in Frames : Hidden(m.film, f) # {}}
          = UNION {m.ranges[i][1]..m.ranges[i][2] : i \in DOMAIN m.ranges}
    /\ \A i, j \in DOMAIN m.ranges : i < j => m.ranges[i][2] + 1 < m.ranges[j][1]

\* A manifest that a redaction writes is exact.
LEMMA RedactionExact ==
    ASSUME NEW film, NEW v \in Videos
    PROVE  ManifestExact([input |-> v, film |-> film,
                          ranges |-> ToRanges({f \in Frames : Hidden(film, f) # {}})])
<1> DEFINE frames == {f \in Frames : Hidden(film, f) # {}}
           r == ToRanges(frames)
           m == [input |-> v, film |-> film, ranges |-> r]
<1>1. Runs(r, frames, FilmLength)
  BY ToRangesRuns
<1>2. FilmLength \in Nat /\ frames \subseteq Frames
  BY ReviewAssumption DEF ReviewWellFormed
<1>3. \A f \in Frames : f \in Nat /\ f < FilmLength
  BY <1>2 DEF Frames
<1>4. m.input = v /\ m.film = film /\ m.ranges = r
  OBVIOUS
<1>5. {f \in Frames : Hidden(film, f) # {}} = frames
  OBVIOUS
<1> HIDE DEF frames, r, m
<1>6. \A f \in Frames : f \in frames <=> \E i \in DOMAIN r : r[i][1] <= f /\ f <= r[i][2]
  BY <1>1, <1>3 DEF Runs
<1>7. \A i \in DOMAIN r : r[i][1] \in Frames /\ r[i][2] \in Frames
  BY <1>1 DEF Runs
<1>8. frames = UNION {r[i][1]..r[i][2] : i \in DOMAIN r}
  <2>1. ASSUME NEW f \in frames
        PROVE  \E i \in DOMAIN r : f \in r[i][1]..r[i][2]
    <3>1. PICK i \in DOMAIN r : r[i][1] <= f /\ f <= r[i][2]
      BY <1>2, <1>6
    <3>2. f \in Nat /\ r[i][1] \in Nat /\ r[i][2] \in Nat
      BY <1>2, <1>3, <1>7
    <3> QED
      BY <3>1, <3>2
  <2>2. ASSUME NEW i \in DOMAIN r, NEW f \in r[i][1]..r[i][2]
        PROVE  f \in frames
    <3>1. r[i][1] \in Frames /\ r[i][2] \in Frames
      BY <1>7
    <3>2. f \in Frames /\ r[i][1] <= f /\ f <= r[i][2]
      BY <1>2, <3>1 DEF Frames
    <3> QED
      BY <1>6, <3>2
  <2> QED
    BY <2>1, <2>2
<1>9. m.ranges \in Seq(Frames \X Frames)
      /\ \A i, j \in DOMAIN m.ranges : i < j => m.ranges[i][2] + 1 < m.ranges[j][1]
  BY <1>1, <1>4 DEF Runs
<1>10. ManifestExact(m)
  BY <1>4, <1>5, <1>8, <1>9 DEF ManifestExact
<1> QED
  BY <1>10 DEF m, r, frames

-----------------------------------------------------------------------------
(* The review as a whole *)

\* Where a review is, and
InWork ==
    /\ pc \in {"idle", "sample", "served", "local", "write", "redact"}
    /\ video \in Videos /\ left \in 0..Sampled
    /\ reviews \in 0..MaxReviews /\ crashes \in 0..MaxCrashes

\* the inductive invariant of the review.
ReviewInv ==
    InWork /\ NothingInvented /\ Observations /\ \A m \in manifests : ManifestExact(m)

\* The types of the work are kept.
LEMMA InWorkStep ==
    ASSUME InWork, [ReviewNext]_reviewVars
    PROVE  InWork'
<1> USE DEF InWork, counts
<1>0. Sampled \in Nat /\ MaxReviews \in Nat /\ MaxCrashes \in Nat
  BY ReviewAssumption DEF ReviewWellFormed
<1>1. CASE UNCHANGED reviewVars
  BY <1>1 DEF reviewVars
<1>2. ASSUME NEW v \in Videos, Begin(v)
      PROVE  InWork'
  BY <1>0, <1>2 DEF Begin
<1>3. CASE \E backend \in {"served", "local"} : FramesSampled(backend)
  BY <1>0, <1>3 DEF FramesSampled
<1>4. CASE NoFrames \/ CannotOpen \/ NotRedacted \/ \E film \in Films : Redact(film)
  <2>1. pc' = "idle" /\ left' \in {left, 0} /\ UNCHANGED <<video, reviews, crashes>>
    BY <1>4 DEF NoFrames, CannotOpen, NotRedacted, Redact, Over
  <2> QED
    BY <1>0, <2>1
<1>5. CASE \/ ServedFails \/ \E reply \in Replies : ServedReplies(reply)
           \/ \E picture \in Pictures : LocalFrame(picture)
  <2>1. left > 0 /\ left' = left - 1 /\ UNCHANGED <<pc, video, reviews, crashes>>
    BY <1>5 DEF ServedFails, ServedReplies, LocalFrame
  <2> QED
    BY <1>0, <2>1
<1>6. CASE ServedEnds \/ LocalEnds
  <2>1. /\ pc' \in {"local", "write"} /\ left' \in {left, Sampled}
        /\ UNCHANGED <<video, reviews, crashes>>
    BY <1>6 DEF ServedEnds, LocalEnds
  <2> QED
    BY <1>0, <2>1
<1>7. CASE \E finding \in todo : WriteEvidence(finding)
  BY <1>7 DEF WriteEvidence
<1>8. CASE ResetManifests
  BY <1>8 DEF ResetManifests
<1>9. CASE Crash
  BY <1>0, <1>9 DEF Crash, Over
<1> QED
  BY <1>1, <1>2, <1>3, <1>4, <1>5, <1>6, <1>7, <1>8, <1>9 DEF ReviewNext, Step

\* Only a finished redaction adds a manifest; none is ever changed.
LEMMA ManifestsStep ==
    ASSUME ReviewInv, [ReviewNext]_reviewVars
    PROVE  \A m \in manifests' : ManifestExact(m)
<1>1. CASE manifests' \subseteq manifests
  BY <1>1 DEF ReviewInv
<1>2. ASSUME NEW film \in Films, Redact(film)
      PROVE  \A m \in manifests' : ManifestExact(m)
  <2> DEFINE new == [input |-> video, film |-> film,
                     ranges |-> ToRanges({f \in Frames : Hidden(film, f) # {}})]
  <2>1. manifests' = manifests \cup {new} /\ video \in Videos
    BY <1>2 DEF Redact, ReviewInv, InWork
  <2>2. ManifestExact(new)
    BY <2>1, RedactionExact
  <2> HIDE DEF new
  <2> QED
    BY <2>1, <2>2 DEF ReviewInv
<1>3. CASE UNCHANGED reviewVars
  BY <1>1, <1>3 DEF reviewVars
<1>4. CASE \/ NoFrames \/ CannotOpen \/ ServedFails \/ ServedEnds \/ LocalEnds
           \/ (\E backend \in {"served", "local"} : FramesSampled(backend))
           \/ (\E reply \in Replies : ServedReplies(reply))
           \/ (\E picture \in Pictures : LocalFrame(picture))
           \/ (\E finding \in todo : WriteEvidence(finding))
           \/ \E v \in Videos : Begin(v)
  <2>1. manifests' = manifests
    BY <1>4 DEF NoFrames, CannotOpen, ServedFails, ServedEnds, LocalEnds, FramesSampled,
                ServedReplies, LocalFrame, WriteEvidence, Begin, output
  <2> QED
    BY <1>1, <2>1
<1>5. CASE NotRedacted \/ Crash \/ ResetManifests
  <2>1. manifests' \subseteq manifests
    BY <1>5 DEF NotRedacted, Crash, ResetManifests, Unfinished, output
  <2> QED
    BY <1>1, <2>1
<1> QED
  BY <1>2, <1>3, <1>4, <1>5 DEF ReviewNext, Step

\* The invariant holds at the beginning, and every step keeps it.
LEMMA ReviewInvInit == ReviewInit => ReviewInv
<1> SUFFICES ASSUME ReviewInit PROVE ReviewInv
  OBVIOUS
<1>1. Sampled \in Nat /\ MaxReviews \in Nat /\ MaxCrashes \in Nat
  BY ReviewAssumption DEF ReviewWellFormed
<1> QED
  BY <1>1 DEF ReviewInit, ReviewInv, InWork, NothingInvented, Observations

LEMMA ReviewInvStep == ReviewInv /\ [ReviewNext]_reviewVars => ReviewInv'
<1> SUFFICES ASSUME ReviewInv, [ReviewNext]_reviewVars
             PROVE  ReviewInv'
  OBVIOUS
<1>1. InWork' /\ NothingInvented' /\ Observations'
  BY InWorkStep, InventedStep DEF ReviewInv
<1>2. (\A m \in manifests : ManifestExact(m))'
  BY ManifestsStep DEF ManifestExact, Frames, Hidden, Located
<1> QED
  BY <1>1, <1>2 DEF ReviewInv

\* The types of a review, of its findings and of its manifests, for films of
\* any length.
THEOREM ReviewTypeCorrect == ReviewSpec => []ReviewTypeOK
<1>1. ReviewInv => ReviewTypeOK
  <2> SUFFICES ASSUME ReviewInv PROVE ReviewTypeOK
    OBVIOUS
  <2>1. InWork /\ NothingInvented /\ Observations
    BY DEF ReviewInv
  <2>2. \A m \in manifests : m.input \in Videos /\ m.ranges \in Seq(Frames \X Frames)
    BY DEF ReviewInv, ManifestExact
  <2> QED
    BY <2>1, <2>2 DEF InWork, Observations, ReviewTypeOK
<1> QED
  BY <1>1, ReviewInvInit, ReviewInvStep, PTL DEF ReviewSpec

\* For films of any length and any interval of detection: the ranges of a
\* manifest are the maximal runs of the frames in which something was hidden.
\* (_to_ranges of what redact_video collects.)
THEOREM RangesExactHolds == ReviewSpec => []RangesExact
<1>1. ReviewInv => RangesExact
  BY DEF ReviewInv, ManifestExact, RangesExact
<1> QED
  BY <1>1, ReviewInvInit, ReviewInvStep, PTL DEF ReviewSpec

=============================================================================
