SPECIFICATION Spec
CONSTANTS
  c1 = c1
  c2 = c2
  Client <- TwoClients
  N = 1
  Requests <- AllRequests
  MaxRequests = 2
  HoldPhase = "SETUP_HOLD"
SYMMETRY ClientSymmetry
INVARIANT TypeOK
INVARIANT QuietAfterAbort
INVARIANT ReadyIsGated
PROPERTY ImplementsRun
