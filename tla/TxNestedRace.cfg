SPECIFICATION Spec
CONSTANTS
  Goroutines = {g1, g2}
  Helpers = {}
  MaxTx = 2
  MaxObj = 3
  GidMax = 2
  TableMax = 2
  QueueCap = 2
  Kinds = {"normal"}
  Joined = TRUE
  Late = FALSE
  Nested = TRUE
  None = None
INVARIANTS EndsOwn
CHECK_DEADLOCK FALSE
