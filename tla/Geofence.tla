------------------------------ MODULE Geofence ------------------------------
(***************************************************************************)
(* The fleet's geofence (fleet-safety/src/geofence.rs): what a scenario's  *)
(* polygon and altitude box must be to be a fence, what is inside, when a  *)
(* vehicle is warned, and where a go-to out of the fence is pulled to.     *)
(*                                                                         *)
(* Points are whole metres, north and east; altitudes are metres above     *)
(* home.  The code computes in f32; here a quotient is compared by         *)
(* multiplying out, and what cannot be a ratio of integers (the shrunk     *)
(* polygon) is kept on a grid of `Grain` points to the metre.              *)
(*                                                                         *)
(* A fence is drawn vertex by vertex, so that every polygon of the given   *)
(* vertices, simple or not, is a state.                                    *)
(***************************************************************************)
EXTENDS Integers, FiniteSetsExt, SequencesExt

CONSTANTS Corners,     \* where a vertex may be put
          Boxes,       \* <<ceiling_m, floor_m>>
          Places,      \* points that are asked about
          Heights,     \* altitudes that are asked about
          Grain,       \* grid points to the metre
          Halvings,    \* bound: steps of the binary search (24 in the code)
          MaxCorners   \* bound: vertices of a polygon

ASSUME GeofenceAssumption ==
  /\ Corners \cup Places \subseteq Int \X Int /\ Boxes \subseteq Int \X Int
  /\ Heights \subseteq Int
  /\ {Grain, Halvings, MaxCorners} \subseteq Nat \ {0}

VARIABLE drawn   \* the scenario's [env] geofence

FenceInit == drawn \in [points : {<<>>}, box : Boxes]

AddCorner ==
  /\ Len(drawn.points) < MaxCorners
  /\ \E p \in Corners : drawn' = [drawn EXCEPT !.points = Append(@, p)]

FenceSpec == FenceInit /\ [][AddCorner]_drawn

Ceiling(fence) == fence.box[1]
Floor(fence)   == fence.box[2]

NextOf(i, points) == (i % Len(points)) + 1
After(i, points)  == points[NextOf(i, points)]

-----------------------------------------------------------------------------
(* Geofence::parse.                                                        *)

\* Twice the signed area of the triangle o a b.
Cross(o, a, b) == (a[1] - o[1]) * (b[2] - o[2]) - (a[2] - o[2]) * (b[1] - o[1])

Total(term, points) ==
  LET sum[i \in 0..Len(points)] == IF i = 0 THEN 0 ELSE sum[i - 1] + term[i]
  IN  sum[Len(points)]

TwiceArea(points) ==
  Total([i \in DOMAIN points |->
           points[i][1] * After(i, points)[2] - After(i, points)[1] * points[i][2]], points)

Between(x, a, b) == Min({a, b}) <= x /\ x <= Max({a, b})

On(p, a, b) == Cross(a, b, p) = 0 /\ Between(p[1], a[1], b[1]) /\ Between(p[2], a[2], b[2])

Properly(a1, a2, b1, b2) ==
  /\ Cross(b1, b2, a1) * Cross(b1, b2, a2) < 0
  /\ Cross(a1, a2, b1) * Cross(a1, a2, b2) < 0

SegmentsIntersect(a1, a2, b1, b2) ==
  \/ Properly(a1, a2, b1, b2)
  \/ On(a1, b1, b2) \/ On(a2, b1, b2) \/ On(b1, a1, a2) \/ On(b2, a1, a2)

Adjacent(i, j, points) == NextOf(i, points) = j \/ NextOf(j, points) = i

SelfIntersects(points) ==
  \E i, j \in DOMAIN points :
    /\ i < j /\ ~Adjacent(i, j, points)
    /\ SegmentsIntersect(points[i], After(i, points), points[j], After(j, points))

Parsed(fence) ==
  /\ Len(fence.points) >= 3
  /\ Ceiling(fence) > Floor(fence)
  /\ TwiceArea(fence.points) \notin -1..1
  /\ ~SelfIntersects(fence.points)

DefaultSquare == [points |-> <<<<-100, -100>>, <<100, -100>>, <<100, 100>>, <<-100, 100>>>>,
                  box |-> <<60, 0>>]

\* FleetConfig::fence: what does not parse is replaced.
Loaded == IF Parsed(drawn) THEN drawn ELSE DefaultSquare

-----------------------------------------------------------------------------
(* Containment.                                                            *)

Straddles(a, b, y) == (a[2] > y) # (b[2] > y)

\* The ray from p towards +x crosses the edge: p is left of where it does.
Crosses(a, b, p) ==
  /\ Straddles(a, b, p[2])
  /\ LET left == (p[1] - a[1]) * (b[2] - a[2]) - (b[1] - a[1]) * (p[2] - a[2])
     IN  IF b[2] > a[2] THEN left < 0 ELSE left > 0

\* point_in_polygon_ray_cast
ContainsXY(points, p) ==
  Cardinality({i \in DOMAIN points : Crosses(points[i], After(i, points), p)}) % 2 = 1

\* point_in_polygon_winding, the second implementation.
Upward(a, b, p)   == a[2] <= p[2] /\ b[2] > p[2] /\ Cross(a, b, p) > 0
Downward(a, b, p) == a[2] > p[2] /\ b[2] <= p[2] /\ Cross(a, b, p) < 0

Winding(points, p) ==
  Cardinality({i \in DOMAIN points : Upward(points[i], After(i, points), p)})
  - Cardinality({i \in DOMAIN points : Downward(points[i], After(i, points), p)})

AltitudeOk(fence, alt) == Floor(fence) <= alt /\ alt <= Ceiling(fence)

ContainsNed(fence, p, alt) == ContainsXY(fence.points, p) /\ AltitudeOk(fence, alt)

-----------------------------------------------------------------------------
(* Distance and the warning.                                               *)

Square(p, q) == (p[1] - q[1]) * (p[1] - q[1]) + (p[2] - q[2]) * (p[2] - q[2])

\* point_segment_distance against r: the nearest point of the edge is an end
\* of it or the foot of the perpendicular.  Of an edge without length the code
\* takes p's first coordinate as it is.
WithinOf(r, p, a, b) ==
  LET len2 == Square(a, b)
      dot  == (p[1] - a[1]) * (b[1] - a[1]) + (p[2] - a[2]) * (b[2] - a[2])
  IN  \/ len2 = 0 /\ p[1] * p[1] + (p[2] - a[2]) * (p[2] - a[2]) <= r * r
      \/ len2 # 0 /\ dot <= 0 /\ Square(p, a) <= r * r
      \/ len2 # 0 /\ dot >= len2 /\ Square(p, b) <= r * r
      \/ 0 < dot /\ dot < len2 /\ Cross(a, b, p) * Cross(a, b, p) <= r * r * len2

ClosedEdges(points) == DOMAIN points

DistanceAtMost(r, points, p) ==
  \E i \in ClosedEdges(points) : WithinOf(r, p, points[i], After(i, points))

WarnM == 10   \* BOUNDARY_WARN_M

BoundaryWarning(fence, p, alt) ==
  \/ DistanceAtMost(WarnM, fence.points, p)
  \/ alt <= Floor(fence) + WarnM \/ alt >= Ceiling(fence) - WarnM

-----------------------------------------------------------------------------
(* Clamping a go-to (POST goto) into the fence shrunk by a margin.         *)

MarginM == 2

Fine(p) == <<p[1] * Grain, p[2] * Grain>>

Mapped(Op(_), points) ==
  LET image[i \in 0..Len(points)] == IF i = 0 THEN <<>> ELSE Append(image[i - 1], Op(points[i]))
  IN  image[Len(points)]

Centroid(points) ==
  LET Mean(k) == Total([i \in DOMAIN points |-> points[i][k]], points) \div Len(points)
  IN  <<Mean(1), Mean(2)>>

Root(n) == CHOOSE r \in 0..n : r * r <= n /\ (r + 1) * (r + 1) > n

\* Mutant: the margin is added.
Outward(len) == len + MarginM * Grain

Inward(len) == len - MarginM * Grain

\* Every vertex moves towards the mean of the vertices, to a twentieth of its
\* distance at most.
Shrunk(points) ==
  LET c == Centroid(points)
      Moved(p) == LET len   == Max({Root(Square(p, c)), 1})
                      scale == Max({20 * Inward(len), len})
                  IN  [k \in {1, 2} |-> c[k] + ((p[k] - c[k]) * scale) \div (20 * len)]
  IN  Mapped(Moved, points)

\* The binary search along the segment from the mean to p.
Along(c, p, lo) == <<c[1] + ((p[1] - c[1]) * lo) \div 2^Halvings,
                     c[2] + ((p[2] - c[2]) * lo) \div 2^Halvings>>

Halve(s, mid, q, inside) ==
  IF inside THEN [lo |-> mid, hi |-> s.hi, best |-> q] ELSE [lo |-> s.lo, hi |-> mid, best |-> s.best]

Pulled(shrunk, c, p) ==
  LET search[n \in 0..Halvings] ==
        IF n = 0 THEN [lo |-> 0, hi |-> 2^Halvings, best |-> c]
        ELSE LET s   == search[n - 1]
                 mid == (s.lo + s.hi) \div 2
                 q   == Along(c, p, mid)
             IN  Halve(s, mid, q, ContainsXY(shrunk, q))
  IN  search[Halvings].best

\* clamp_setpoint, given the shrunk polygon and the mean, on the grid.
ClampSetpoint(shrunk, c, p) == IF ContainsXY(shrunk, p) THEN p ELSE Pulled(shrunk, c, p)

\* f32::clamp panics when the least value is above the greatest.
ClampDefined(fence) == Ceiling(fence) - MarginM >= Floor(fence) + MarginM

ClampAltitude(fence, alt) ==
  Min({Max({alt, Floor(fence) + MarginM}), Ceiling(fence) - MarginM})

-----------------------------------------------------------------------------
(* Properties.                                                             *)

\* Two closed segments have a point in common: their boxes overlap and neither
\* lies strictly on one side of the other.
Touch(a1, a2, b1, b2) ==
  /\ \A k \in {1, 2} : /\ Max({a1[k], a2[k]}) >= Min({b1[k], b2[k]})
                       /\ Max({b1[k], b2[k]}) >= Min({a1[k], a2[k]})
  /\ Cross(b1, b2, a1) * Cross(b1, b2, a2) <= 0
  /\ Cross(a1, a2, b1) * Cross(a1, a2, b2) <= 0

\* A closed line that never meets itself: the vertices are distinct, edges
\* share at most the vertex they have in common, and there is an inside.
SimpleLine(points) ==
  /\ Len(points) >= 3 /\ Cardinality(ToSet(points)) = Len(points)
  /\ \A i, j \in DOMAIN points : i # j =>
       IF NextOf(i, points) = j
       THEN ~On(points[i], points[j], After(j, points)) /\ ~On(After(j, points), points[i], points[j])
       ELSE NextOf(j, points) = i \/ ~Touch(points[i], After(i, points), points[j], After(j, points))

\* SPEC 8.2, "self-intersection rejected at parse", and parse's "distinct
\* points": a polygon becomes a fence exactly if its line is simple, although
\* neighbouring edges are never compared and no two vertices either.
ParseIsSimple ==
  Ceiling(drawn) > Floor(drawn) => (Parsed(drawn) <=> SimpleLine(drawn.points))

\* SPEC 8.2, ray casting "with ground truth from an independent winding-number
\* implementation": on every fence the two agree, at the height of a vertex and
\* on the line itself, where both count the lower end of an edge only.
RayCastAgrees ==
  Parsed(drawn) => \A p \in Places :
    DistanceAtMost(0, drawn.points, p) \/
      (ContainsXY(drawn.points, p) <=> Winding(drawn.points, p) # 0)

\* SPEC 5.2, GEOFENCE_WARN "within 10 m of a boundary": a vehicle that moves
\* less than that between two observations is warned before it is out.
LeavingIsWarned ==
  Parsed(drawn) =>
    LET inside == {p \in Places : ContainsXY(drawn.points, p)}
        levels == {alt \in Heights : AltitudeOk(drawn, alt)}
    IN  \A p \in inside, alt \in levels :
          \/ BoundaryWarning(drawn, p, alt)
          \/ /\ \A q \in Places \ inside : Square(p, q) > WarnM * WarnM
             /\ \A next \in Heights \ levels : next - alt \notin -WarnM..WarnM

\* The mean of the vertices sees every edge from the same side.
FineFence(fence) == Mapped(Fine, fence.points)

MeanSeesAll(points) ==
  LET c == Centroid(points)
  IN  \/ \A i \in DOMAIN points : Cross(c, points[i], After(i, points)) > 0
      \/ \A i \in DOMAIN points : Cross(c, points[i], After(i, points)) < 0

StaysInside(fence) ==
  LET fine   == FineFence(fence)
      shrunk == Shrunk(fine)
      c      == Centroid(fine)
  IN  \A p \in Places : ContainsXY(fine, ClampSetpoint(shrunk, c, Fine(p)))

\* api.rs, "a go-to can never command a setpoint the mission rules themselves
\* reject": wherever the operator points, the setpoint of a go-to is inside the
\* fence and its box, in every fence whose vertex mean sees the whole of it.
ClampStays ==
  Parsed(drawn) /\ MeanSeesAll(FineFence(drawn)) =>
    /\ StaysInside(drawn)
    /\ ClampDefined(drawn) =>
         \A alt \in Heights : AltitudeOk(drawn, ClampAltitude(drawn, alt))

\* SPEC 8.2, of a polygon as the operator draws it: the fences that are accepted
\* have an inside, are left with a warning, and hold a go-to.
FenceHolds == ParseIsSimple /\ RayCastAgrees /\ LeavingIsWarned /\ ClampStays

\* SPEC 7.2, "All setpoints are inside the geofence by construction", for any
\* polygon of SPEC 8.2, "convex or concave".
ClampStaysInConcave == Parsed(drawn) => StaysInside(drawn)

\* The go-to handler answers for every fence that parses.
GotoAnswers == ClampDefined(Loaded)

\* geofence.rs, shrunk "by 2 m", "conservative": the setpoint keeps the margin.
ClampKeepsMargin ==
  LET fine   == FineFence(drawn)
      shrunk == Shrunk(fine)
      c      == Centroid(fine)
  IN  Parsed(drawn) /\ MeanSeesAll(fine) => \A p \in Places, i \in DOMAIN fine :
        LET q    == ClampSetpoint(shrunk, c, Fine(p))
            edge == Root(Square(fine[i], After(i, fine)))
        IN  Cross(fine[i], After(i, fine), q) \notin -(edge * Grain)..(edge * Grain)

\* ADR-0026, V-3, "geofence-breach detection (the passive GEOFENCE_WARN health
\* flag)": a vehicle outside the fence is warned.
BreachIsWarned ==
  Parsed(drawn) => \A p \in Places, alt \in Heights :
    ~ContainsNed(drawn, p, alt) => BoundaryWarning(drawn, p, alt)
=============================================================================
