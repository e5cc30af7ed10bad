\* One property at a time; each with the values it differs in.
CONSTANTS
  Extended = 1
  Pieces <- Streams
  Parts = 4
  Chunk = 4
  Known <- KnownIds
  V2 = 9
  V1 = 8
  MaxBuf = 14
  autostart = autostart
  gain = gain
  Callers = 2
  Order <- TwoParams
  TypeOf <- Types
  Airframe = autostart
  Written <- OneValue
  Attempts = 2
  Lists = 2
  Room = 2
  Nothing = Nothing
  None = None
SPECIFICATION Spec
CHECK_DEADLOCK FALSE
INVARIANT CompleteIsCurrent
\* INVARIANT EchoIsTheWrite
\* INVARIANT ShortAckAccepted
\* INVARIANT IdArrives
\* INVARIANT SimFramesComeOut
