SPECIFICATION Spec
CONSTANTS
  Goroutines = {g1, g2}
  Helpers = {}
  MaxTx = 2
  MaxObj = 3
  GidMax = 2
  TableMax = 2
  QueueCap = 2
  Kinds = {"normal"}
  Joined = TRUE
  Late = TRUE
  Nested = FALSE
  None = None
INVARIANTS LateEndIgnored
CHECK_DEADLOCK FALSE
