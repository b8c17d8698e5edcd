SPECIFICATION Spec
CONSTANTS
  Txs = {t1, t2}
  Objs = {o1, o2}
  Steps = {s1, s2}
  MaxCalls = 1
  MaxFlips = 0
  QueueSize = 1
  Parallel = FALSE
  Outlive = TRUE
  None = None
CHECK_DEADLOCK FALSE
INVARIANTS OwnStatus
