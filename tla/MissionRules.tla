---------------------------- MODULE MissionRules ----------------------------
(***************************************************************************)
(* The catalog's validation of a mission (gcs/validation.rs, rules V-1 to  *)
(* V-13), with its own geometry, beside what the fleet manager accepts in  *)
(* an upload (manager.rs, operator_upload).  The polygon drawn in module   *)
(* Geofence is taken for the mission's inclusion fence, or its exclusion.  *)
(*                                                                         *)
(* The catalog computes in degrees and measures with the haversine; here   *)
(* both planes use metres, as the degrees of a field are.  Its tolerance   *)
(* of 1 m is Tolerance.                                                    *)
(***************************************************************************)
EXTENDS Geofence

Vehicles == {"quad", "fixed", "vtol", "rover"}

AltitudeBounds(vehicle) ==
  CASE vehicle = "quad" -> <<0, 120>>
    [] vehicle \in {"fixed", "vtol"} -> <<0, 150>>
    [] vehicle = "rover" -> <<0, 0>>

SupportedCommands == (16..22) \cup {31, 200}
SupportedFrames   == {0, 1, 3, 10, 11}

-----------------------------------------------------------------------------
(* Geometry.                                                               *)

Tolerance == 1

\* distance_point_to_segment < Tolerance
NearerThan(r, p, a, b) ==
  LET len2 == Square(a, b)
      dot  == (p[1] - a[1]) * (b[1] - a[1]) + (p[2] - a[2]) * (b[2] - a[2])
  IN  \/ (len2 = 0 \/ dot <= 0) /\ Square(p, a) < r * r
      \/ len2 # 0 /\ dot >= len2 /\ Square(p, b) < r * r
      \/ 0 < dot /\ dot < len2 /\ Cross(a, b, p) * Cross(a, b, p) < r * r * len2

OnFence(points, p) ==
  \E i \in DOMAIN points : NearerThan(Tolerance, p, points[i], After(i, points))

HasInside(points) == Len(points) >= 3

\* point_in_polygon: the edge, a tolerance wide, counts as inside.
PointInPolygon(points, p) ==
  HasInside(points) /\ (OnFence(points, p) \/ ContainsXY(points, p))

Ccw(p, q, r) ==
  LET val == (q[2] - p[2]) * (r[1] - q[1]) - (q[1] - p[1]) * (r[2] - p[2])
  IN  IF val = 0 THEN 0 ELSE IF val > 0 THEN 1 ELSE -1

\* segments_intersect: on a common line all four are 0.
Intersect(a, b, c, d) == Ccw(c, d, a) # Ccw(c, d, b) /\ Ccw(a, b, c) # Ccw(a, b, d)

Neighbours(i, k, points) == Adjacent(i, k, points)

IsSimplePolygon(points) ==
  Len(points) < 4 \/
    \A i, k \in DOMAIN points : i < k /\ ~Neighbours(i, k, points) =>
      ~Intersect(points[i], After(i, points), points[k], After(k, points))

-----------------------------------------------------------------------------
(* validate: the rules a mission breaks.                                   *)

HasInclusion(m) == m.inclusion # <<>>
Waypoints(m)    == ToSet(m.waypoints)
Rally(m)        == ToSet(m.rally)
OutsideBox(m, z) == z > m.ceiling \/ z < m.floor

\* Mutant: the box is not looked at.
InsideBoxAlways(m, w) == FALSE

BreaksBox(m, w) == OutsideBox(m, w.z)

\* Rules about the mission as a whole.
BreaksAsAWhole(m, rule) ==
  \/ rule = "V-1" /\ m.waypoints = <<>>
  \/ rule = "V-2" /\ Len(m.waypoints) > 100
  \/ rule = "V-5" /\ m.vehicle \notin Vehicles
  \/ rule = "V-7" /\ HasInclusion(m) /\ ~IsSimplePolygon(m.inclusion)
  \/ rule = "V-8" /\ HasInclusion(m) /\ Len(m.inclusion) < 3

\* Rules about one waypoint, and about the rally points.
BreaksAt(m, w, rule) ==
  \/ rule = "V-3" /\ HasInclusion(m) /\ ~PointInPolygon(m.inclusion, w.at)
  \/ rule = "V-4" /\ \E x \in m.exclusion : PointInPolygon(x, w.at)
  \/ rule = "V-5" /\ m.vehicle \in Vehicles
     /\ w.z \notin AltitudeBounds(m.vehicle)[1]..AltitudeBounds(m.vehicle)[2]
  \/ rule = "V-6" /\ HasInclusion(m) /\ BreaksBox(m, w)
  \/ rule = "V-12" /\ w.command \notin SupportedCommands
  \/ rule = "V-13" /\ w.frame \notin SupportedFrames

BreaksInRally(m, rule) ==
  \/ rule = "V-9" /\ Len(m.rally) > 5
  \/ rule = "V-10" /\ HasInclusion(m) /\ \E r \in Rally(m) : ~PointInPolygon(m.inclusion, r.at)
  \/ rule = "V-11" /\ HasInclusion(m) /\ \E r \in Rally(m) : OutsideBox(m, r.z)

Breaks(m, rule) ==
  BreaksAsAWhole(m, rule) \/ BreaksInRally(m, rule) \/ \E w \in Waypoints(m) : BreaksAt(m, w, rule)

Rules == {"V-1", "V-2", "V-3", "V-4", "V-5", "V-6", "V-7", "V-8", "V-9", "V-10", "V-11", "V-12", "V-13"}

Validate(m) == {rule \in Rules : Breaks(m, rule)}

-----------------------------------------------------------------------------
(* The fleet's word on one item of an upload, with a fence of its own.     *)

ItemAccepted(fence, p, alt) == alt >= 0 /\ ContainsXY(fence.points, p) /\ AltitudeOk(fence, alt)

-----------------------------------------------------------------------------
(* Properties.                                                             *)

PlanOf(p, z, inclusion, exclusion) ==
  [waypoints |-> <<[at |-> p, z |-> z, command |-> 16, frame |-> 3]>>,
   vehicle |-> "quad", inclusion |-> inclusion, ceiling |-> Ceiling(drawn), floor |-> Floor(drawn),
   exclusion |-> exclusion, rally |-> <<[at |-> p, z |-> z]>>]

\* A waypoint, and a rally point at the same place, in the drawn fence.
FencedAt(p, z) == PlanOf(p, z, drawn.points, {})

\* A waypoint in a mission from which the drawn polygon is excluded.
ForbiddenAt(p) == PlanOf(p, 10, <<>>, {drawn.points})

\* ADR-0026, "a mission that passes validation but cannot fly ... is worse than
\* no validation at all": the two planes compute containment on their own, and
\* off the edge they agree: in a fence the catalog has no objection to, it finds
\* fault with a waypoint exactly if a fleet that has the mission's fence rejects
\* it, and with a rally point at the same place for the same reasons.
PlanesAgree ==
  Parsed(drawn) => \A p \in Places, z \in Heights :
    LET broken == Validate(FencedAt(p, z))
    IN  /\ ~OnFence(drawn.points, p) /\ z <= 120 =>
             (broken \subseteq {"V-7"} <=> ItemAccepted(drawn, p, z))
        /\ "V-3" \in broken <=> "V-10" \in broken
        /\ "V-6" \in broken <=> "V-11" \in broken

OneLine(i, k, points) ==
  \A p \in {points[k], After(k, points)} : Cross(points[i], After(i, points), p) = 0

\* V-7, of polygons whose edges are parallel to the axes, as a drawn box or the
\* ADR's "L-shaped fence around a building corner": the catalog accepts every
\* one the fleet would fly in, and of the others only those with an edge that
\* lies on the line of another it meets.
SimpleAgrees ==
  LET points == drawn.points
  IN  (\A i \in DOMAIN points : \E n \in {1, 2} : points[i][n] = After(i, points)[n]) /\ Len(points) >= 3 =>
        /\ Parsed(drawn) => IsSimplePolygon(points)
        /\ IsSimplePolygon(points) =>
             \A i, k \in DOMAIN points : i < k /\ ~Adjacent(i, k, points) =>
               \/ ~Touch(points[i], After(i, points), points[k], After(k, points))
               \/ OneLine(i, k, points) \/ OneLine(k, i, points)

\* V-7 of polygons with slanted edges: "one that does not self-intersect" is
\* accepted.
SimpleIsAccepted == Parsed(drawn) => IsSimplePolygon(drawn.points)

\* V-7: "A polygon where two edges cross (e.g. a bowtie shape) is invalid".
BowtieIsRefused ==
  LET points == drawn.points
  IN  (\E i, k \in DOMAIN points :
         i < k /\ ~Adjacent(i, k, points)
         /\ Properly(points[i], After(i, points), points[k], After(k, points))) =>
        ~IsSimplePolygon(points)

\* V-4, "every waypoint must be outside every exclusion polygon", although no
\* rule looks at the polygon itself: a waypoint in a simple one is always
\* refused, one that is more than the tolerance away never.
ExclusionExcludes ==
  SimpleLine(drawn.points) => \A p \in Places :
    /\ Winding(drawn.points, p) # 0 => Breaks(ForbiddenAt(p), "V-4")
    /\ Breaks(ForbiddenAt(p), "V-4") =>
         Winding(drawn.points, p) # 0 \/ DistanceAtMost(Tolerance, drawn.points, p)

\* ADR-0026, V-3, V-7, V-10 and V-11: what the catalog accepts the fleet flies.
RulesAgree == PlanesAgree /\ SimpleAgrees

\* What is drawn keeps apart what it was drawn to keep apart, be it the fleet's
\* fence or an exclusion of a mission.
PolygonsSeparate == FenceHolds /\ ExclusionExcludes

\* ADR-0026, V-4, "A waypoint on the exclusion boundary is outside (open polygon
\* semantics for exclusion ...)".
ExclusionIsOpen ==
  SimpleLine(drawn.points) => \A p \in Places :
    DistanceAtMost(0, drawn.points, p) => ~Breaks(ForbiddenAt(p), "V-4")

\* ADR-0026, V-3, "A waypoint outside by any distance (1 cm or 100 m) is
\* rejected".
OutsideIsRejected ==
  Parsed(drawn) => \A p \in Places :
    ~DistanceAtMost(0, drawn.points, p) /\ ~ContainsXY(drawn.points, p) =>
      Breaks(FencedAt(p, 10), "V-3")

\* ADR-0026, V-7: containment is ambiguous in a polygon that meets itself, "The
\* server-side validation catches it".
CatalogFenceIsSimple ==
  Len(drawn.points) >= 3 /\ IsSimplePolygon(drawn.points) => SimpleLine(drawn.points)
=============================================================================
