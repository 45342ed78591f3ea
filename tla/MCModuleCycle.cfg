SPECIFICATION Spec
CONSTANTS
  a = a
  b = b
  c = c
  d = d
  Modules <- Four
  Graphs <- UnevenCycle
  MaxCapabilities = 2
INVARIANT GatherFindsWaiting
CHECK_DEADLOCK FALSE
