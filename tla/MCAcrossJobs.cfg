SPECIFICATION AcrossSpec
CONSTANTS
  a = a
  b = b
  c = c
  d = d
  Modules <- Three
  Graphs <- ModelledGraphs
  MaxCapabilities = 2
  ModuleNames <- Three
  Loads = {l1, l2}
  RequestGraphs <- LoadedGraphs
  MaxRequests = 5
  MaxAwaits = 1
  Targets = {t1, t2}
  Tokens = {k1}
  NoToken = NoToken
  MaxCells = 3
INVARIANTS
  StatusesAreExpected
  DependenciesFirst
  PendingIsExact
  SearchesAreClean
  OutcomesAreKept
  AcrossTypes
  AnswersInOrder
  RequestsAreServed
  LoadedIsComplete
  CallbackIsDue
PROPERTIES
  EveryRequestAnswered
  LoadsSettle
  DeadCellsAreCleaned
CHECK_DEADLOCK FALSE
