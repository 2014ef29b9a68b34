SPECIFICATION FairSpec
CONSTANTS
  Handlers = {h1, h2}
  MaxRequests = 2
INVARIANTS EndedIsStopped EventsOnce NoSilentRecording
PROPERTIES StoppedTrackerEnds StopEndsTalk
CHECK_DEADLOCK FALSE
