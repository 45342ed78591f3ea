SPECIFICATION FairSpec
CONSTANTS
  Jobs = {j1}
  Kinds = {"contextual", "detached"}
  Modes = {"park"}
  Delays = {0}
  MaxTime = 0
  MayFail = FALSE
PROPERTIES
  StopEndsLoop
