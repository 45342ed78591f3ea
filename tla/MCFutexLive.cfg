SPECIFICATION FairSpec
CONSTANTS
  Agents = {t1, t2}
  CanBlock = {t1, t2}
  Async = {w1}
  Addr = {x}
  Val = {0, 1}
  NoAgent = NoAgent
  Counts = {1, 5}
  MaxOps = 4
  MaxSpurious = 1
PROPERTIES WaitReturns PromiseSettles
CHECK_DEADLOCK FALSE
