SPECIFICATION FairSpec
CONSTANTS
  c1 = c1
  c2 = c2
  c3 = c3
  arm = arm
  mode = mode
  Interval = Interval
  Sub = Sub
  None = None
  Call <- TwoCalls
  Command <- OneCommand
  Attempts = 2
  Patience = 3
  Buffer = 2
  Subscriptions = 1
  Prompt = TRUE
INVARIANT TypeOK
INVARIANT AloneHearsTheLadder
PROPERTY ImplementsService
PROPERTY Served
