SPECIFICATION FairSpec
CONSTANTS
  Callers = {c1, c2}
  Divs = {service}
  Hashes = {h1, h2}
  Empty = {h2}
  CacheMax = 1
  QueueTextSize = 1
  BUFFERED_MAX = 2
  Hours = 2
  MaxUses = 3
  MaxReset = 1
  None = None
INVARIANTS TypeOK CachedIsOnItsWay NoRedundantText LengthAgrees
PROPERTIES BufferDrains
