SPECIFICATION FairSpec
CONSTANTS
  c1 = c1
  c2 = c2
  p1 = p1
  p2 = p2
  p3 = p3
  None = None
  Client <- TwoClients
  Process <- TwoProcesses
  Operations <- Everything
  Impatient = TRUE
  MaxRequests = 3
PROPERTY StopAnswers
