SPECIFICATION Spec
CONSTANTS
  u1 = u1
  u2 = u2
  r1 = r1
  r2 = r2
  e1 = e1
  NoUser = NoUser
  NoRun = NoRun
  NoLine = NoLine
  NoRequest = NoRequest
  Users <- BothUsers
  Employees <- OneEmployee
  Requests <- BothRequests
  BaseGross = 1
  MaxRuns = 3
  MaxCreated = 2
  MaxAdjustments = 1
  MaxOverlaps = 1
  MaxOverlapRuns = 2
SYMMETRY Symmetric
INVARIANTS
  FourEyes
  ReversedOnce
  ClosedSettled
  LinesAddUp
PROPERTIES
  PostedImmutable
CHECK_DEADLOCK FALSE
