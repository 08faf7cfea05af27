SPECIFICATION Spec
CONSTANTS
  w1 = w1
  w2 = w2
  d1 = d1
  d2 = d2
  Nobody = Nobody
  NoJob = NoJob
  Workers = {w1}
  Devices = {d1}
  Modes = {"cursor", "range"}
  MaxPunch = 1
  MaxSessions = 2
  MaxAttempts = 1
  MaxBatches = 1
  PageSize = 1
PROPERTIES
  HistoricalKeepsResume
