--------------------------- MODULE MCControlPlane ---------------------------
(***************************************************************************)
(* Instances of OperatorPlane and FleetStart for TLC.  The two planes      *)
(* share no state: `plane` says which one a behaviour exercises.           *)
(***************************************************************************)
EXTENDS OperatorPlane, FleetStart

CONSTANTS k1, k2, k3, fit, out, nan, j1, j2, j3, m1, m2, w1

VARIABLE plane

ThreeCalls == {k1, k2, k3}
Waypoints  == {<<out, fit>>, <<fit, nan>>}
OneInvalid == {nan}
OneBreach  == {out}
ThreeJobs  == {j1, j2, j3}
TwoPlans   == {m1, m2}
Versions   == {w1}
To(v, m)   == [vehicle |-> v, mission |-> m]
Rebind     == <<To(1, m2), To(0, m2)>>
Bodies2    == {<<To(0, m1), To(1, m1)>>, Rebind,
               <<To(0, m1), To(1, NotUlid)>>, <<To(7, m2)>>, <<>>,
               <<To(0, m1), To(1, m1), To(0, m2)>>}
OneUpload  == {[vehicle |-> 1, plan |-> <<m2, w1>>]}
Starts3    == {[mode |-> "parallel", timeout |-> 30], [mode |-> "sequential", timeout |-> 600],
               [mode |-> "sequential", timeout |-> 0]}

vars == <<plane, planeVars, startVars>>

Init ==
  /\ PlaneInit /\ StartInit
  /\ phase = "BRING_UP"
  /\ catalog[m1] = w1 /\ catalog[m2] = "none"
  /\ plane \in {"operator", "start"}

OperatorSteps == plane = "operator" /\ PlaneNext /\ UNCHANGED <<plane, startVars>>

\* Who asks what: j3 stores a batch before anything else, j1 is a start, and j2
\* binds the vehicles anew, unbinds one, or uploads to the last one when the
\* start has come to it.
Roles ==
  /\ ask[j3] = Nil => \A j \in {j1, j2} : ask'[j] = Nil
  /\ ask'[j1] # Nil => ask'[j1].op = "start"
  /\ ask'[j2] # Nil => /\ ask'[j2].op # "start"
                       /\ ask'[j2].op = "bind" => ask'[j2].batch = Rebind
                       /\ ask' # ask /\ ask'[j2].op = "upload" => cur[j1] = 1
  /\ ask'[j3] # Nil => ask'[j3].op = "bind" /\ ask'[j3].batch # Rebind

\* An upload reads neither bindings nor catalog, so those change between uploads
\* only; and of the catalog only the mission the vehicles are bound to anew.  The
\* links go when a handler is about to look one up.
Settled ==
  /\ (\E j \in Job : at[j] \in {"link", "upload", "gate"}) =>
       bindings' = bindings /\ catalog' = catalog
  /\ catalog' # catalog => catalog'[m1] = w1 /\ \A v \in Vehicle : bindings[v] = m2
  /\ link' # link => \E j \in Job : at[j] = "link"

\* What a vehicle does when no handler is at it is put off until one is.
Watched ==
  \A v \in Vehicle :
    \/ \E j \in Job : at[j] \in {"link", "upload"} /\ cur[j] = v
    \/ /\ slot'[v] = slot[v] /\ announced'[v] = announced[v]
       /\ rx'[v] = rx[v] /\ acks'[v] = acks[v] /\ held'[v] = held[v]

\* The first vehicle hears and keeps what it is sent, and is heard.
Obliging ==
  /\ Len(announced'[0]) < Len(announced[0]) => rx'[0] # rx[0]
  /\ rx[0] # Nil /\ rx'[0] = Nil => acks'[0] = <<"accepted">>

Bounds == Roles /\ Settled /\ Watched /\ Obliging

StartSteps == plane = "start" /\ StartNext /\ Bounds /\ UNCHANGED <<plane, planeVars>>

Next == OperatorSteps \/ StartSteps

\* The supervisor's loop turns, and a handler whose await has ended goes on: a
\* fetch ends within 5 s, a gate within 5 s, an upload within 35 s.  Of the bounds
\* only Settled puts a handler's step off.
Fairness ==
  /\ WF_vars(plane = "operator" /\ DrainStep /\ UNCHANGED <<plane, startVars>>)
  /\ \A j \in Job : WF_vars(plane = "start" /\ Handler(j) /\ Settled
                               /\ UNCHANGED <<plane, planeVars>>)

Spec == Init /\ [][Next]_vars /\ Fairness

\* The type invariants of both planes.
TypesOK == PlaneTypeOK /\ StartTypeOK

\* state.rs and api.rs: what an operator has asked for is performed, and a fleet
\* start is answered.
RequestsEnd == QueuedIsPerformed /\ StartIsAnswered

=============================================================================
