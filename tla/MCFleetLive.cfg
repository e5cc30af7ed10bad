SPECIFICATION FairSpec
CONSTANTS
  c1 = c1
  c2 = c2
  Client <- OneClient
  N = 1
  Requests <- Core
  MaxRequests = 2
  HoldPhase = "BRING_UP"
PROPERTY EstopHonoured
PROPERTY DeathSurfaces
PROPERTY RunEnds
