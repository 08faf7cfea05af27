SPECIFICATION Spec
CONSTANTS
  u1 = u1
  u2 = u2
  r1 = r1
  r2 = r2
  e1 = e1
  NoUser = NoUser
  NoRun = NoRun
  NoLine = NoLine
  NoRequest = NoRequest
  Users <- BothUsers
  Employees <- OneEmployee
  Requests <- OneRequest
  BaseGross = 1
  MaxRuns = 3
  MaxCreated = 3
  MaxAdjustments = 0
  MaxOverlaps = 0
  MaxOverlapRuns = 0
INVARIANT
  ReversalCompensates
CHECK_DEADLOCK FALSE
