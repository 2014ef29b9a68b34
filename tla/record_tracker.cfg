SPECIFICATION ProcessSpec
CONSTANTS
  Tracks = {t1, t2}
  Closers = {x1, x2}
  Nobody = Nobody
  Services = {"rtc", "confa", "iam", "tracker", "avp", "sender", "gateway"}
  Jobs = {j1, j2}
  Emitting = {j1}
  Workers = {w1, w2}
  MaxAttempts = 2
  MaxStarts = 3
  NoJob = NoJob
PROPERTIES CloseWaitsForCounted ShutdownEnds NoJobIsLost
CHECK_DEADLOCK FALSE
