SPECIFICATION Spec
CONSTANTS
  Agents = {t1, t2, t3}
  CanBlock = {t1, t2, t3}
  Async = {w1}
  Addr = {x}
  Val = {0, 1}
  NoAgent = NoAgent
  Counts = {0, 1, 5}
  MaxOps = 4
  MaxSpurious = 1
SYMMETRY Symmetry
INVARIANTS TypeOK ListsAreSound LinkedUntilTold NoLostWakeup
PROPERTIES OutcomeIsFinal ImplementsWaiterLists
CHECK_DEADLOCK FALSE
