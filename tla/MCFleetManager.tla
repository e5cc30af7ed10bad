--------------------------- MODULE MCFleetManager ---------------------------
(* Instances of FleetManager for TLC. *)
EXTENDS FleetProperties, TLC

CONSTANTS c1, c2

OneClient  == {c1}
TwoClients == {c1, c2}
ClientSymmetry == Permutations(TwoClients)

AllRequests == Endpoint
Core        == {"estop", "start", "airframe", "goto"}
Restarting  == {"estop", "start", "airframe"}
Guiding     == {"goto", "land"}
TakingOff   == {"estop", "takeoff"}
Returning   == {"goto", "rtl"}
Engaging    == {"estop", "goto"}
Landing     == {"land"}
Refitting   == {"airframe", "arm"}
=============================================================================
