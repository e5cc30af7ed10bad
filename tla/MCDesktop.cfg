SPECIFICATION DesktopSpec
CONSTANTS
  c1 = c1
  c2 = c2
  p1 = p1
  p2 = p2
  p3 = p3
  t0 = t0
  t1 = t1
  t2 = t2
  None = None
  Client <- TwoClients
  Process <- TwoProcesses
  Operations <- Everything
  Impatient = TRUE
  MaxRequests = 4
  Startup = t0
  Call <- TwoCalls
  Commands <- Everyday
  MaxProcs = 4
  Stranger = Stranger
  Nobody = Nobody
INVARIANT TypeOK
INVARIANT NoUntrackedFleet
INVARIANT BackendsAreHeld
