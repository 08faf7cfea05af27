SPECIFICATION Spec
CONSTANTS
  w1 = w1
  w2 = w2
  d1 = d1
  d2 = d2
  Nobody = Nobody
  NoJob = NoJob
  Workers = {w1, w2}
  Devices = {d1}
  Modes = {"cursor", "range"}
  MaxPunch = 2
  MaxSessions = 3
  MaxAttempts = 2
  MaxBatches = 2
  PageSize = 2
SYMMETRY WorkerSymmetry
INVARIANTS
  LockExclusive
  OneRowPerPunch
  NoEvidenceSkipped
  CountsExact
PROPERTIES
  ImplementsLedger
