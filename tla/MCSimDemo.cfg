\* One property at a time; each with the values it differs in.
SPECIFICATION LoopOnly
CONSTANTS
  c1 = c1
  c2 = c2
  x1 = x1
  x2 = x2
  Loaded = Loaded
  None = None
  Client <- OneClient
  Scenario <- OneScenario
  Finite = TRUE
  WaitTimeout = FALSE
  AcceptError = FALSE
  MaxRequests = 0
  TickTimes <- Rate200
  Timelines <- Timelines3
  Bodies <- Bodies5
  GpsPeriod = 40
  GpsLatency = 15
  GpsLock = 0
  SnapEvery = 2
  Slots = 2
  Duration = 4
  MaxTicks = 4
  MaxCalls = 2
INVARIANT AnswerNamesFault
\* INVARIANT WireInOrder
\* INVARIANT ReplayShowsHeld: Timelines <- NoFaults
\* INVARIANT MagIsRealAt50Hz: TickTimes <- Rate50, Timelines <- NoFaults
\* INVARIANT EstopIsClean: SPECIFICATION RunSpec, MaxRequests = 1
\* INVARIANT ReplacedIsUsed: SPECIFICATION RunSpec, MaxRequests = 1
