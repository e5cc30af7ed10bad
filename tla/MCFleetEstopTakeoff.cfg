SPECIFICATION Spec
CONSTANTS
  c1 = c1
  c2 = c2
  Client <- OneClient
  N = 1
  Requests <- TakingOff
  MaxRequests = 2
  HoldPhase = "BRING_UP"
INVARIANT EstopLandsEveryVehicle
