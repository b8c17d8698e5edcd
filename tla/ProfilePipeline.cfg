SPECIFICATION FairSpec
CONSTANTS
  Txs = {t1, t2}
  Modes = {"normal", "circular", "large", "split"}
  NormalLen = 1
  HeavyLen = 2
  BufferLen = 3
  BUFFER_LEN = 2
  BUFFER_MAX = 1
  SplitQueueSize = 1
  ZipQueueSize = 1
  ZipMax = 2
  ZipMin = 2
  MaxSteps = 3
  MaxKept = 3
  TcpQueueSize = 1
INVARIANTS TypeOK  CircularKeepsLast RoomKeptBack CountAgrees 
 
CHECK_DEADLOCK FALSE
