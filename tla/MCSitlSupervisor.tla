-------------------------- MODULE MCSitlSupervisor --------------------------
(* Instances of SitlSupervisor for TLC. *)
EXTENDS SitlSupervisor, TLC

CONSTANTS c1, c2, p1, p2, p3

OneClient  == {c1}
TwoClients == {c1, c2}
TwoProcesses == {p1, p2}
ThreeProcesses == {p1, p2, p3}
Symmetric == Permutations(TwoClients) \cup Permutations(ThreeProcesses)

Everything   == {"start", "stop", "status"}
StartAndStop == {"start", "stop"}
StartOnly    == {"start"}
=============================================================================
