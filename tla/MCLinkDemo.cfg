\* One property at a time; each with the values it differs in.
SPECIFICATION Spec
CONSTANTS
  c1 = c1
  c2 = c2
  c3 = c3
  arm = arm
  mode = mode
  Interval = Interval
  Sub = Sub
  None = None
  Call <- TwoCalls
  Command <- OneCommand
  Attempts = 3
  Patience = 4
  Buffer = 2
  Subscriptions = 0
  Prompt = TRUE
INVARIANT AcceptedIsPerformed
\* INVARIANT TimeoutAfterLadder: Subscriptions = 1
