SPECIFICATION Spec
CONSTANTS
  High = {1, 2}
  Low = {11}
  FlushPacks = {2}
  BigPacks = {}
  Overflow = 99
  None = 0
  Senders = {s1, s2}
  HostCount = 1
  Queue1Cap = 2
  Queue2Cap = 1
  RetryCap = 2
  WrCap = 2
  Failover = FALSE
  Prompt = FALSE
  MaxFaults = 2
  MaxLevel = 1
INVARIANTS WriterMatchesClient 
CHECK_DEADLOCK FALSE
