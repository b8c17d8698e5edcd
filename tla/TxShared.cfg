SPECIFICATION Spec
CONSTANTS
  Goroutines = {g1, g2}
  Helpers = {h1}
  MaxTx = 3
  MaxObj = 3
  GidMax = 2
  TableMax = 2
  QueueCap = 2
  Kinds = {"normal", "static", "ignored"}
  Joined = TRUE
  Late = FALSE
  Nested = FALSE
  None = None
INVARIANTS TypeOK Exclusive PoolOnce StepsOwn NilCtxFindsOwn
CHECK_DEADLOCK FALSE
