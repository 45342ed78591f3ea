SPECIFICATION Spec
CONSTANTS
  a = a
  b = b
  c = c
  d = d
  Modules <- Three
  Graphs <- Pair
  MaxCapabilities = 2
INVARIANT PromisesSettle
CHECK_DEADLOCK FALSE
