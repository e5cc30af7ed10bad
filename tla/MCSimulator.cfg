SPECIFICATION LayeredSpec
CONSTANTS
  c1 = c1
  c2 = c2
  x1 = x1
  x2 = x2
  Loaded = Loaded
  None = None
  Client <- TwoClients
  Scenario <- OneScenario
  Finite = TRUE
  WaitTimeout = TRUE
  AcceptError = TRUE
  MaxRequests = 3
  TickTimes <- Rates3
  Timelines <- Timelines3
  Bodies <- Bodies5
  GpsPeriod = 25
  GpsLatency = 15
  GpsLock = 20
  SnapEvery = 2
  Slots = 2
  Duration = 5
  MaxTicks = 5
  MaxCalls = 2
INVARIANT TypesOK
INVARIANT EndIsTold
INVARIANT FaultsHold
INVARIANT FramesArrive
INVARIANT SensorsOnTime
PROPERTY HaltsEnd
