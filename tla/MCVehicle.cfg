SPECIFICATION LayeredSpec
CONSTANTS
  c1 = c1
  c2 = c2
  c3 = c3
  plan = plan
  fence = fence
  a = a
  b = b
  d = d
  None = None
  Item <- Items
  MaxItems = 3
  Call <- TwoCalls
  Type <- TwoTypes
  Missions <- LongPlans
  Loaded <- Nothing
  Retries = 2
  Buffer = 3
  Exclusive = TRUE
CONSTANTS
  loop = loop
  t1 = t1
  t2 = t2
  Loop = loop
  Tasks <- TwoTasks
  StaleAge = 1
  LostAge = 2
  LowPct = 30
  CritPct = 20
  Levels <- FullOrNot
  RingCap = 2
  FrameTail = 1
  Reading <- AllReads
  MaxTime = 4
  MaxEvents = 8
  MaxNotes = 1
  MaxReads = 2
SYMMETRY SymmetricTasks
CHECK_DEADLOCK FALSE
INVARIANT TypeOK
INVARIANT AnswersTell
INVARIANT EventsAgree
INVARIANT FlagsTell
