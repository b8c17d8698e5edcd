SPECIFICATION FairSpec
CONSTANTS
  Txs = {t1, t2}
  Objs = {o1, o2}
  Steps = {s1, s2}
  MaxCalls = 2
  MaxFlips = 1
  QueueSize = 1
  Parallel = FALSE
  Outlive = FALSE
  None = None
INVARIANTS TypeOK OwnStatus StatusComplete 
 
CHECK_DEADLOCK FALSE
