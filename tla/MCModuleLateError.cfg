SPECIFICATION Spec
CONSTANTS
  a = a
  b = b
  c = c
  d = d
  Modules <- Three
  Graphs <- ThrowingPair
  MaxCapabilities = 2
INVARIANT ErrorsAreRecorded
CHECK_DEADLOCK FALSE
