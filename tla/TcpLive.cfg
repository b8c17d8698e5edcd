SPECIFICATION FairSpec
CONSTANTS
  High = {1, 2}
  Low = {11}
  FlushPacks = {2}
  BigPacks = {}
  Overflow = 99
  None = 0
  Senders = {s1}
  HostCount = 2
  Queue1Cap = 2
  Queue2Cap = 1
  RetryCap = 1
  WrCap = 1
  Failover = TRUE
  Prompt = TRUE
  MaxFaults = 2
  MaxLevel = 1
PROPERTIES Reconnects Drains
CHECK_DEADLOCK FALSE
