\* One property at a time; each with the values it differs in.
SPECIFICATION ShellSpec
CONSTANTS
  c1 = c1
  c2 = c2
  p1 = p1
  p2 = p2
  p3 = p3
  t0 = t0
  t1 = t1
  t2 = t2
  None = None
  Client <- TwoClients
  Process <- TwoProcesses
  Operations <- Everything
  Impatient = TRUE
  MaxRequests = 1
  Startup = t0
  Call <- TwoCalls
  Commands <- CatalogOnlyRestarts
  MaxProcs = 5
  Stranger = Stranger
  Nobody = Nobody
INVARIANT RestartsServe
\* INVARIANT QuitLeavesNothing: Commands <- Closes
\* INVARIANT RestartEndsFleet: Commands <- SupervisorRestarts
\* INVARIANT OneFleet: SPECIFICATION SitlSpec, MaxRequests = 2
\* INVARIANT StatusReportsItsPid: SPECIFICATION SitlSpec, MaxRequests = 3
\* PROPERTY StopReapsPairs: SPECIFICATION SitlSpec, MaxRequests = 2
