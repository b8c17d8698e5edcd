SPECIFICATION Spec
CONSTANTS
  Events = {1, 2}
  Keys = {k1, k2}
  Recorders = {g1, g2}
  TableMaxes = {1, 2}
  TakeMax = 1
  MaxToggles = 1
  None = None
INVARIANTS TypeOK   EventsAccounted
 
CHECK_DEADLOCK FALSE
