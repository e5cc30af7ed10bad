\* Every format with one byte that is not zero and with one that is; streams of
\* up to four pieces in pushes of up to four bytes; two writers and a download,
\* or one and two.
CONSTANTS
  Extended = 1
  Pieces <- Streams
  Parts = 4
  Chunk = 4
  Known <- KnownIds
  V2 = 9
  V1 = 8
  MaxBuf = 14
  autostart = autostart
  gain = gain
  Callers = 2
  Order <- TwoParams
  TypeOf <- Types
  Airframe = autostart
  Written <- OneValue
  Attempts = 2
  Lists = 2
  Room = 2
  Nothing = Nothing
  None = None
SPECIFICATION Spec
CHECK_DEADLOCK FALSE
INVARIANT PayloadsArrive
INVARIANT FramesComeOut
INVARIANT ConfirmedIsTaken
INVARIANT CompleteViewIsWhole
PROPERTY DownloadSettles
