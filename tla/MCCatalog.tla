----------------------------- MODULE MCCatalog -----------------------------
(***************************************************************************)
(* Instances of MissionStore, Geofence and MissionRules for TLC: what the  *)
(* catalog keeps of a mission, and what it and the fleet think of one.     *)
(* They share no state; `layer` says which one a behaviour exercises.      *)
(***************************************************************************)
EXTENDS MissionStore, MissionRules, TLC

CONSTANTS c1, c2, m1, x1, x2

OneClient  == {c1}
TwoClients == {c1, c2}
OneMission == {m1}
Bodies     == {x1, x2}
Symmetric  == Permutations(TwoClients) \cup Permutations(Bodies)

VARIABLE layer

catalogVars == <<layer, vars, drawn>>

Grid       == {0, 20, 40} \X {0, 20, 40}
Boxes2     == {<<60, 0>>, <<15, 5>>}
ThinBox    == {<<3, 0>>}
ThickBox   == {<<60, 0>>}
AltLevels  == {-1, 10, 30, 61}
HalfGrid   == {-5, 0, 5, 10, 20, 40} \X {0, 10, 20, 30, 40, 45}
NearGrid   == HalfGrid \cup {<<14, 27>>, <<9, 19>>, <<32, 66>>, <<-24, 8>>}

LayeredInit ==
  /\ layer \in {"races", "drawn", "boxed"}
  /\ Init /\ FenceInit
  /\ layer # "drawn" => drawn.box = <<60, 0>>

StoreSteps ==
  /\ layer = "races"
  /\ Next
  /\ UNCHANGED <<layer, drawn>>

\* Any polygon of four corners, or one of six whose edges are parallel to the
\* axes (all but the last).
Parallel(p, q) == p # q /\ (p[1] = q[1] \/ p[2] = q[2])

RuleSteps ==
  /\ layer \in {"drawn", "boxed"}
  /\ layer = "drawn" => Len(drawn.points) < 4
  /\ AddCorner
  /\ layer = "boxed" /\ Len(drawn.points) > 0 =>
       Parallel(Last(drawn.points), Last(drawn'.points))
  /\ UNCHANGED <<layer, vars>>

RulesOver ==
  /\ layer \in {"drawn", "boxed"}
  /\ layer = "drawn" => Len(drawn.points) = 4
  /\ layer = "boxed" => Len(drawn.points) = MaxCorners
  /\ UNCHANGED catalogVars

LayeredNext == StoreSteps \/ RuleSteps \/ RulesOver
LayeredSpec == LayeredInit /\ [][LayeredNext]_catalogVars

RuleSpec == LayeredInit /\ layer = "drawn" /\ [][RuleSteps \/ RulesOver]_catalogVars

\* The store alone.
StoreSpec == LayeredInit /\ layer = "races" /\ [][StoreSteps]_catalogVars
=============================================================================
