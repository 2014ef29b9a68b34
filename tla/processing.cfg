SPECIFICATION FairProcessingSpec
CONSTANTS
  Tracks = {t1}
  Workers = {w1, w2}
  MaxAttempts = 3
  MaxCopies = 2
  None = None
  Free = Free
INVARIANTS NoTrackIsLost
PROPERTIES EveryJobIsSettled ImplementsProgress
CHECK_DEADLOCK FALSE
