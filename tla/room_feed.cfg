SPECIFICATION FairSpec
CONSTANTS
  Cursors = {c1, c2}
  Cap = 2
  MaxEvents = 4
INVARIANT OpenedCursorsExact
PROPERTIES ClosedRoomEndsCursors ImplementsFeed
CHECK_DEADLOCK FALSE
