SPECIFICATION Spec
CONSTANTS
  Jobs = {j1, j2, j3}
  Kinds = {"promise", "generic", "contextual", "detached", "cleanup", "timeout", "interval"}
  Modes = {"park", "stalled", "cooperative"}
  Delays = {0, 1}
  MaxTime = 2
  MayFail = TRUE
SYMMETRY Symmetry
INVARIANTS
  PromiseJobsInOrder
  QueuesAreExact
PROPERTIES
  ClearedNeverRuns
  TimersInOrder
