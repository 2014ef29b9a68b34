SPECIFICATION FairSpec
CONSTANTS
  Calls = {c1}
  Keys = {k1}
  Rooms = {r1, r2}
  MaxWatches = 2
  None = None
  Free = Free
INVARIANTS NoRoomIsStranded ClosedRoomIsNotIterated
PROPERTIES UsedRoomsStay UnusedRoomIsCollected ShutdownTerminates
CHECK_DEADLOCK FALSE
