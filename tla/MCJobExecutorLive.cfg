SPECIFICATION ReadySpec
CONSTANTS
  Jobs = {j1, j2}
  Kinds = {"promise", "generic", "contextual", "detached", "cleanup", "timeout", "interval"}
  Modes = {"park", "stalled", "cooperative"}
  Delays = {1}
  MaxTime = 3
  MayFail = TRUE
INVARIANTS
  TypeOK
PROPERTIES
  RunEnds
