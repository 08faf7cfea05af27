SPECIFICATION FairSpec
CONSTANTS
  w1 = w1
  w2 = w2
  d1 = d1
  d2 = d2
  Nobody = Nobody
  NoJob = NoJob
  Workers = {w1, w2}
  Devices = {d1, d2}
  Modes = {"cursor"}
  MaxPunch = 0
  MaxSessions = 4
  MaxAttempts = 1
  MaxBatches = 1
  PageSize = 1
PROPERTIES
  PullsTerminate
