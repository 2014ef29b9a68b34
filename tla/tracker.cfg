SPECIFICATION FairSpec
CONSTANTS
  Callers = {p1, p2}
  Keys = {k1}
  Entries = {e1, e2}
  Expiries = {1, 2}
  MaxCalls = 3
  MaxTime = 1
  None = None
  Free = Free
  Closer = Closer
INVARIANTS ShutdownComplete OneTrackerPerEntry
PROPERTIES ShutdownTerminates ExpiredIsCollected
CHECK_DEADLOCK FALSE
