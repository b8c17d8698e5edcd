SPECIFICATION FairSpec
CONSTANTS
  Goroutines = {g1}
  Helpers = {}
  MaxTx = 4
  MaxObj = 3
  GidMax = 1
  TableMax = 1
  QueueCap = 1
  Kinds = {"normal", "static"}
  Joined = TRUE
  Late = FALSE
  Nested = TRUE
  None = None
INVARIANTS SentOnce OneTxPerRequest EndsOwn
PROPERTIES EventuallySent
CHECK_DEADLOCK FALSE
