SPECIFICATION StructuresSpec
CONSTANTS
  Objects = {o1, o2}
  Ephs = {e1, e2, e3}
  None = None
  MaxBoxes = 4
  MaxHandles = 5
  MaxPromises = 3
  MaxPairs = 4
  MaxThens = 2
  MaxDepth = 2
  Combinators = {"all", "allSettled", "any", "race", "allKeyed", "allSettledKeyed"}
  Value = {0}
  NoAnswer = NoAnswer
  MaxElements = 3
  MaxCalls = 2
  Keys = {k1, k2, k3}
  NoKey = NoKey
  Walks = {w1, w2}
  MaxEntries = 3
  Sizes = {1, 2}
  MaxBytes = 4
  Accesses = {"get", "set"}
  Names = {"x"}
  Kinds = {"data", "accessor"}
  Addrs = {1, 2, 3}
  Capacity = 1
SYMMETRY Symmetry
INVARIANTS
  StructuresTypes
  NoDangling
  BooksAreExact
  OneClaim
  ReactionsInOrder
  TrackerIsExact
  ResultIsComplete
  LocksAndEmptiesAgree
  AccessesStayInView
  EntriesStayRight
PROPERTIES
  SweepIsExact
  WeakReferencesHold
  WalksRefineMapData
CHECK_DEADLOCK FALSE
