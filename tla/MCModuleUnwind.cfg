SPECIFICATION Spec
CONSTANTS
  a = a
  b = b
  c = c
  d = d
  Modules <- Three
  Graphs <- BrokenCycle
  MaxCapabilities = 2
INVARIANT UnwindFindsLinking
CHECK_DEADLOCK FALSE
